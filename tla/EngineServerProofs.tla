-------------------------- MODULE EngineServerProofs --------------------------
(***************************************************************************)
(* Who asks is served as asked, offloads that are remembered were enough,  *)
(* and no server outlives the run, for any configurations, number of       *)
(* threads, servers, crashes and retries.                                  *)
(***************************************************************************)
EXTENDS EngineServer, TLAPS

Servers == [cfg : Configured, life : Lives, gpu : BOOLEAN, offload : Nat]
Pcs == {"idle", "check", "lock", "wait", "send", "asked", "ok", "error", "crash"}
Requests == [pc : Pcs, tries : Nat, gb : Nat, limit : Nat, by : Ids, from : Configured]
Jobs == [kind : {"none", "warmup", "prepare", "measured"}, cfg : Configured, retries : Nat]

LEMMA ThreadsAreNumbers ==
    /\ 0 \in Ids /\ Threads \subseteq Nat \ {0} /\ Nothing \notin Configurations
    /\ \A c \in Configurations : /\ c.model \in Models /\ c.slots \in Nat \ {0} /\ c.needs \in Nat
                                 /\ 1 .. c.slots \subseteq Threads
<1>1. 0 \in Ids
  BY EngineAssumption DEF Ids
<1>2. \A c \in Configurations : /\ c.slots \in Nat \ {0} /\ c.needs \in Nat /\ c.ctx # 0
  BY EngineAssumption
<1>3. Nothing \notin Configurations
  BY <1>2 DEF Nothing
<1>4. \A c \in Configurations : c.model \in Models /\ 1 .. c.slots \subseteq Threads
  BY DEF Models, Threads
<1>5. Threads \subseteq Nat \ {0}
  BY <1>2 DEF Threads
<1> QED
  BY <1>1, <1>2, <1>3, <1>4, <1>5

LEMMA ServersAreTyped == TypeOK => server \in [Ids -> Servers] /\ thread \in [Threads -> Requests]
                                   /\ job \in Jobs
BY DEF TypeOK, Servers, Requests, Pcs, Jobs

LEMMA ConstantsAreTyped == Gone \in Servers /\ Resting \in Requests /\ NoJob \in Jobs
BY ThreadsAreNumbers DEF Gone, Servers, Resting, Requests, NoJob, Jobs, Configured, Lives, Pcs

-------------------------------------------------------------------------------
(***************************************************************************)
(* What stopping leaves of the servers.                                    *)
(***************************************************************************)

LEMMA EndsAreRemainders ==
    ASSUME NEW r \in Servers, NEW e \in Ends(r)
    PROVE  /\ e \in Servers
           /\ \/ e = Gone
              \/ e = [r EXCEPT !.life = "dying"] /\ r.life \notin {"gone", "starting"}
           /\ e.life \in {"gone", "dying"}
           /\ e.life = "dying" => r.life \in {"loading", "healthy", "ending", "dying"}
<1>1. \/ e = Gone
      \/ e = [r EXCEPT !.life = "dying"] /\ r.life \notin {"gone", "starting"}
  BY DEF Ends
<1>2. [r EXCEPT !.life = "dying"] \in Servers /\ [r EXCEPT !.life = "dying"].life = "dying"
  BY DEF Servers, Lives
<1>3. Gone.life = "gone"
  BY DEF Gone
<1> QED
  BY <1>1, <1>2, <1>3, ConstantsAreTyped DEF Servers, Lives

\* The remainder of one server, told to end or killed.
Fades(r, e) ==
    /\ e \in Servers
    /\ e = Gone \/ (e.cfg = r.cfg /\ e.offload = r.offload)
    /\ \/ e = r
       \/ e.life \in {"gone", "dying"}
       \/ e.life = "ending" /\ r.life \in {"loading", "healthy"}
    /\ e.life \in {"loading", "healthy", "ending", "dying"} =>
          r.life \in {"loading", "healthy", "ending", "dying"}

LEMMA StoppedFade ==
    ASSUME TypeOK, NEW s \in Stopped(server)
    PROVE  /\ s \in [Ids -> Servers]
           /\ \A i \in Ids : Fades(server[i], s[i])
           /\ \A i \in Ids : i # proc \/ i = 0 => s[i] = server[i]
           /\ proc # 0 => s[proc].life \in {"gone", "dying"}
<1>0. server \in [Ids -> Servers] /\ proc \in Ids
  BY ServersAreTyped DEF TypeOK
<1>1. CASE proc = 0
  BY <1>0, <1>1 DEF Stopped, Fades
<1>2. CASE proc # 0
  <2>1. PICK e \in Ends(server[proc]) : s = [server EXCEPT ![proc] = e]
    BY <1>2 DEF Stopped
  <2>2. /\ e \in Servers /\ e.life \in {"gone", "dying"}
        /\ e = Gone \/ e = [server[proc] EXCEPT !.life = "dying"]
        /\ e.life = "dying" => server[proc].life \in {"loading", "healthy", "ending", "dying"}
    BY <1>0, EndsAreRemainders
  <2>3. Fades(server[proc], e)
    BY <1>0, <2>2 DEF Fades, Servers
  <2>4. \A i \in Ids \ {proc} : s[i] = server[i] /\ Fades(server[i], server[i])
    BY <1>0, <2>1 DEF Fades
  <2> QED
    BY <1>0, <1>2, <2>1, <2>2, <2>3, <2>4
<1> QED
  BY <1>1, <1>2

LEMMA SweptFade ==
    ASSUME NEW s \in [Ids -> Servers], NEW i \in Ids
    PROVE  /\ Swept(s)[i] \in Servers /\ Fades(s[i], Swept(s)[i])
           /\ s[i].life \in {"gone", "dying"} => Swept(s)[i] = s[i]
<1> DEFINE r == s[i]
<1>1. r \in Servers
  OBVIOUS
<1>2. Swept(s)[i] = CASE r.life = "starting" -> Gone
                      [] r.life \in {"loading", "healthy"} -> [r EXCEPT !.life = "ending"]
                      [] OTHER -> r
  BY DEF Swept
<1> HIDE DEF r
<1>3. CASE r.life = "starting"
  BY <1>1, <1>2, <1>3, ConstantsAreTyped DEF Fades, r, Gone
<1>4. CASE r.life \in {"loading", "healthy"}
  <2>1. Swept(s)[i] = [r EXCEPT !.life = "ending"]
    BY <1>2, <1>4
  <2>2. [r EXCEPT !.life = "ending"] \in Servers
    BY <1>1 DEF Servers, Lives
  <2> QED
    BY <1>1, <1>4, <2>1, <2>2 DEF Fades, r, Servers
<1>5. CASE r.life \notin {"starting", "loading", "healthy"}
  BY <1>1, <1>2, <1>5 DEF Fades, r
<1> QED
  BY <1>3, <1>4, <1>5

\* Whatever stopped, of this run only remainders are left.
LEMMA StopFades ==
    ASSUME TypeOK, OwnServersAreKnown, NEW s \in Stopped(server) \cup StopAll(server)
    PROVE  /\ s \in [Ids -> Servers]
           /\ \A i \in Ids : Fades(server[i], s[i])
           /\ \A i \in Ids \ {0} : s[i].life \in {"gone", "dying"}
           /\ s[0] = server[0] \/ s[0] = Swept(server)[0]
<1>0. 0 \in Ids /\ server \in [Ids -> Servers]
  BY ThreadsAreNumbers, ServersAreTyped
<1>1. ASSUME NEW r \in Stopped(server), NEW i \in Ids \ {0}
      PROVE  r[i].life \in {"gone", "dying"}
  <2>1. CASE i = proc
    BY <1>1, <2>1, StoppedFade
  <2>2. CASE i # proc
    BY <1>1, <2>2, StoppedFade DEF OwnServersAreKnown, Life
  <2> QED
    BY <2>1, <2>2
<1>2. CASE s \in Stopped(server)
  BY <1>0, <1>1, <1>2, StoppedFade
<1>3. CASE s \in StopAll(server)
  <2>1. PICK r \in Stopped(server) : s = Swept(r)
    BY <1>3 DEF StopAll
  <2>2. /\ r \in [Ids -> Servers] /\ r[0] = server[0]
        /\ \A i \in Ids : Fades(server[i], r[i])
    BY <1>0, StoppedFade
  <2>3. s \in [Ids -> Servers]
    <3>1. \A i \in Ids : s[i] \in Servers
      BY <2>1, <2>2, SweptFade
    <3>2. s = [i \in Ids |-> s[i]]
      BY <2>1 DEF Swept
    <3> QED
      BY <3>1, <3>2
  <2>4. ASSUME NEW i \in Ids \ {0}
        PROVE  s[i] = r[i]
    BY <1>1, <2>1, <2>2, SweptFade
  <2>5. s[0] = Swept(server)[0]
    BY <1>0, <2>1, <2>2 DEF Swept
  <2>6. Fades(server[0], s[0])
    BY <1>0, <2>1, <2>2, SweptFade
  <2> QED
    BY <1>1, <2>2, <2>3, <2>4, <2>5, <2>6
<1> QED
  BY <1>2, <1>3

\* A new server, beside these remainders.
LEMMA SpawnStarts ==
    ASSUME TypeOK, NEW s \in [Ids -> Servers], NEW gb \in Nat, job.cfg \in Configurations,
           Spawn(s, gb)
    PROVE  /\ server' \in [Ids -> Servers] /\ proc' \in Ids \ {0} /\ loaded' = Nothing
           /\ server'[proc'] = [cfg |-> job.cfg, life |-> "starting", gpu |-> TRUE, offload |-> gb]
           /\ \A i \in Ids : i # proc' => server'[i] = s[i]
<1> DEFINE new == [cfg |-> job.cfg, life |-> "starting", gpu |-> TRUE, offload |-> gb]
<1>1. PICK i \in Ids \ {0, proc} : server' = [s EXCEPT ![i] = new] /\ proc' = i /\ loaded' = Nothing
  BY DEF Spawn
<1>2. new \in Servers
  BY DEF Servers, Configured, Lives
<1> HIDE DEF new
<1>3. server' \in [Ids -> Servers] /\ server'[i] = new /\ \A j \in Ids : j # i => server'[j] = s[j]
  BY <1>1, <1>2
<1> QED
  BY <1>1, <1>3 DEF new

-------------------------------------------------------------------------------
(***************************************************************************)
(* Type correctness.                                                       *)
(***************************************************************************)

LEMMA EngineTypeInit == Init => TypeOK
<1> SUFFICES ASSUME Init PROVE TypeOK
  OBVIOUS
<1>1. server \in [Ids -> Servers]
  <2>1. ASSUME NEW c \in Configurations
        PROVE  [Gone EXCEPT !.cfg = c, !.life = "healthy"] \in Servers
    BY ConstantsAreTyped DEF Servers, Configured, Lives
  <2>2. {Gone} \cup {[Gone EXCEPT !.cfg = c, !.life = "healthy"] : c \in Configurations}
           \subseteq Servers
    BY <2>1, ConstantsAreTyped
  <2> QED
    BY <2>2 DEF Init
<1>2. thread \in [Threads -> Requests] /\ job \in Jobs
  BY ConstantsAreTyped DEF Init
<1>3. offload \in [Models -> Nat]
  BY DEF Init
<1> QED
  BY <1>1, <1>2, <1>3, ThreadsAreNumbers
     DEF Init, TypeOK, Configured, Servers, Requests, Pcs, Jobs

\* In terms of the sets named here.
LEMMA TypeFromParts ==
    /\ backend' \in Backends /\ server' \in [Ids -> Servers] /\ proc' \in Ids
    /\ loaded' \in Configured /\ lock' \in Threads \cup {0} /\ offload' \in [Models -> Nat]
    /\ thread' \in [Threads -> Requests] /\ job' \in Jobs
    /\ main' \in {"free", "calling", "over"} /\ recorded' \subseteq Models
    /\ faults' \in Nat /\ crashes' \in Nat
    => TypeOK'
BY DEF TypeOK, Servers, Requests, Pcs, Jobs

LEMMA EnvironmentKeepsType ==
    ASSUME TypeOK, Environment
    PROVE  TypeOK'
<1> USE ServersAreTyped
<1>1. ASSUME NEW i \in Ids, NEW life \in Lives, Become(i, life)
      PROVE  server' \in [Ids -> Servers]
  <2>1. [server[i] EXCEPT !.life = life] \in Servers
    BY DEF Servers
  <2> QED
    BY <1>1, <2>1, ConstantsAreTyped DEF Become
<1>2. "gone" \in Lives /\ "loading" \in Lives /\ "healthy" \in Lives /\ "dying" \in Lives
  BY DEF Lives
<1>3. ASSUME NEW i \in Ids, Bind(i)
      PROVE  TypeOK'
  BY <1>1, <1>2, <1>3, TypeFromParts DEF Bind, engineVars, TypeOK
<1>4. ASSUME NEW i \in Ids, Load(i)
      PROVE  TypeOK'
  <2>1. server' \in [Ids -> Servers]
    <3>1. CASE server' = [server EXCEPT ![i].life = "healthy", ![i].gpu = FALSE]
      <4>1. [server[i] EXCEPT !.life = "healthy", !.gpu = FALSE] \in Servers
        BY <1>2 DEF Servers
      <4>2. server' = [server EXCEPT ![i] = [server[i] EXCEPT !.life = "healthy", !.gpu = FALSE]]
        BY <3>1
      <4> QED
        BY <4>1, <4>2
    <3>2. CASE Become(i, "healthy") \/ Become(i, "gone")
      BY <1>1, <1>2, <3>2
    <3> QED
      BY <1>4, <3>1, <3>2 DEF Load
  <2>2. faults' \in Nat
    BY <1>4 DEF Load, TypeOK
  <2> QED
    BY <1>4, <2>1, <2>2, TypeFromParts DEF Load, engineVars, TypeOK
<1>5. ASSUME NEW i \in Ids, Crash(i)
      PROVE  TypeOK'
  <2>1. faults' \in Nat /\ crashes' \in Nat
    BY <1>5 DEF Crash, TypeOK
  <2> QED
    BY <1>1, <1>2, <1>5, <2>1, TypeFromParts DEF Crash, engineVars, TypeOK
<1>6. ASSUME NEW i \in Ids, End(i)
      PROVE  TypeOK'
  BY <1>1, <1>2, <1>6, TypeFromParts DEF End, engineVars, TypeOK
<1>7. CASE Stranger
  <2>1. PICK c \in Configurations :
           server' = [server EXCEPT ![0] = [@ EXCEPT !.cfg = c, !.life = "healthy"]]
    BY <1>7 DEF Stranger
  <2>2. [server[0] EXCEPT !.cfg = c, !.life = "healthy"] \in Servers
    BY <1>2, ThreadsAreNumbers DEF Servers, Configured
  <2>3. server' = [server EXCEPT ![0] = [server[0] EXCEPT !.cfg = c, !.life = "healthy"]]
    BY <2>1
  <2>4. server' \in [Ids -> Servers]
    BY <2>2, <2>3
  <2>5. faults' \in Nat
    BY <1>7 DEF Stranger, TypeOK
  <2> QED
    BY <1>7, <2>4, <2>5, TypeFromParts DEF Stranger, engineVars, TypeOK
<1> QED
  BY <1>3, <1>4, <1>5, <1>6, <1>7 DEF Environment

\* What a request may make of its thread.
LEMMA GotoKeepsType ==
    ASSUME TypeOK, NEW t \in Threads, NEW pc \in Pcs, Goto(t, pc)
    PROVE  /\ thread' \in [Threads -> Requests] /\ thread'[t] = [thread[t] EXCEPT !.pc = pc]
           /\ \A u \in Threads \ {t} : thread'[u] = thread[u]
<1>1. [thread[t] EXCEPT !.pc = pc] \in Requests
  BY ServersAreTyped DEF Requests
<1>2. thread' = [thread EXCEPT ![t] = [thread[t] EXCEPT !.pc = pc]]
  BY DEF Goto
<1> QED
  BY <1>1, <1>2, ServersAreTyped

LEMMA RestKeepsType ==
    ASSUME TypeOK, NEW t \in Threads, NEW pc \in Pcs,
           thread' = [thread EXCEPT ![t] = [Resting EXCEPT !.pc = pc]]
    PROVE  /\ thread' \in [Threads -> Requests] /\ thread'[t] = [Resting EXCEPT !.pc = pc]
           /\ \A u \in Threads \ {t} : thread'[u] = thread[u]
<1>1. [Resting EXCEPT !.pc = pc] \in Requests
  BY ConstantsAreTyped DEF Requests
<1> QED
  BY <1>1, ServersAreTyped

\* Who waits or works is in a call, so there is a job.
LEMMA WorkingIsCalling ==
    ASSUME TypeOK, CallIsUnderWay, NEW t \in Threads, ~At(t, "idle")
    PROVE  main = "calling" /\ job.cfg \in Configurations /\ job.cfg.model \in Models /\ t \in Crew
<1>1. main = "calling"
  BY DEF CallIsUnderWay, At, Resting
<1> QED
  BY <1>1, ThreadsAreNumbers DEF CallIsUnderWay

\* The loads of vLLM that retry and that start, in one form
Starts(t) == RespawnLlama(t) \/ RespawnVllm(t) \/ OffloadMore(t)

LEMMA StartsKeepType ==
    ASSUME TypeOK, OwnServersAreKnown, CallIsUnderWay, NEW t \in Threads, Starts(t)
    PROVE  /\ TypeOK' /\ proc' # 0 /\ loaded' = Nothing
           /\ \A i \in Ids \ {0, proc'} : server'[i].life \in {"gone", "dying"}
           /\ server'[0] = server[0] \/ server'[0] = Swept(server)[0]
           /\ \A i \in Ids \ {proc'} : Fades(server[i], server'[i])
           /\ server'[proc'].life = "starting" /\ server'[proc'].cfg = job.cfg
           /\ thread'[t].pc = "wait" /\ \A u \in Threads \ {t} : thread'[u] = thread[u]
           /\ lock' = t /\ UNCHANGED <<backend, offload, job, main, recorded, faults, crashes>>
           /\ backend = "vllm" => /\ server'[proc'].offload = thread'[t].gb
                                  /\ RespawnVllm(t) => thread'[t].gb = offload[job.cfg.model]
                                  /\ OffloadMore(t) => thread'[t].gb > thread[t].gb
<1> USE ServersAreTyped, ThreadsAreNumbers
<1>0. ~At(t, "idle") /\ thread[t].gb \in Nat /\ thread[t].tries \in Nat
  BY DEF Starts, RespawnLlama, RespawnVllm, OffloadMore, At, Requests
<1>1. job.cfg \in Configurations /\ job.cfg.model \in Models /\ job.cfg.needs \in Nat
  BY <1>0, WorkingIsCalling
<1>2. ASSUME NEW s \in Stopped(server) \cup StopAll(server), NEW gb \in Nat, Spawn(s, gb)
      PROVE  /\ server' \in [Ids -> Servers] /\ proc' \in Ids \ {0} /\ loaded' = Nothing
             /\ \A i \in Ids \ {0, proc'} : server'[i].life \in {"gone", "dying"}
             /\ server'[0] = server[0] \/ server'[0] = Swept(server)[0]
             /\ \A i \in Ids \ {proc'} : Fades(server[i], server'[i])
             /\ server'[proc'].life = "starting" /\ server'[proc'].cfg = job.cfg
             /\ server'[proc'].offload = gb
  <2>1. /\ s \in [Ids -> Servers] /\ \A i \in Ids : Fades(server[i], s[i])
        /\ \A i \in Ids \ {0} : s[i].life \in {"gone", "dying"}
        /\ s[0] = server[0] \/ s[0] = Swept(server)[0]
    BY StopFades
  <2>2. /\ server' \in [Ids -> Servers] /\ proc' \in Ids \ {0} /\ loaded' = Nothing
        /\ server'[proc'] = [cfg |-> job.cfg, life |-> "starting", gpu |-> TRUE, offload |-> gb]
        /\ \A i \in Ids : i # proc' => server'[i] = s[i]
    BY <1>1, <1>2, <2>1, SpawnStarts
  <2> QED
    BY <2>1, <2>2
<1>4. CASE RespawnLlama(t)
  <2>1. PICK s \in Stopped(server) : Spawn(s, 0)
    BY <1>4 DEF RespawnLlama
  <2>2. /\ thread' \in [Threads -> Requests] /\ thread'[t].pc = "wait"
        /\ \A u \in Threads \ {t} : thread'[u] = thread[u]
    <3>1. Goto(t, "wait") /\ "wait" \in Pcs
      BY <1>4 DEF RespawnLlama, Pcs
    <3>2. [thread[t] EXCEPT !.pc = "wait"].pc = "wait"
      BY DEF Requests
    <3> QED
      BY <3>1, <3>2, GotoKeepsType
  <2>3. /\ lock' = t /\ UNCHANGED <<backend, offload, job, main, recorded, faults, crashes>>
        /\ backend # "vllm"
    BY <1>4 DEF RespawnLlama
  <2>4. TypeOK'
    BY <1>2, <2>1, <2>2, <2>3, TypeFromParts DEF TypeOK, Configured
  <2> QED
    BY <1>2, <2>1, <2>2, <2>3, <2>4
<1>5. CASE RespawnVllm(t)
  <2>1. PICK limit \in HostLimits, gb \in {offload[job.cfg.model]} :
           /\ \E s \in StopAll(server) : Spawn(s, gb)
           /\ thread' = [thread EXCEPT ![t] = [@ EXCEPT !.pc = "wait", !.gb = gb, !.limit = limit]]
    BY <1>5 DEF RespawnVllm
  <2>2. PICK s \in StopAll(server) : Spawn(s, gb)
    BY <2>1
  <2>3. gb \in Nat /\ limit \in Nat /\ gb = offload[job.cfg.model]
    BY <1>1, EngineAssumption DEF TypeOK
  <2>4. /\ thread' \in [Threads -> Requests]
        /\ thread'[t].pc = "wait" /\ thread'[t].gb = gb
        /\ \A u \in Threads \ {t} : thread'[u] = thread[u]
    <3>1. [thread[t] EXCEPT !.pc = "wait", !.gb = gb, !.limit = limit] \in Requests
      BY <2>3 DEF Requests, Pcs
    <3>2. thread' = [thread EXCEPT ![t] = [thread[t] EXCEPT !.pc = "wait", !.gb = gb,
                                                            !.limit = limit]]
      BY <2>1
    <3> QED
      BY <3>1, <3>2 DEF Requests
  <2>5. /\ lock' = t /\ UNCHANGED <<backend, offload, job, main, recorded, faults, crashes>>
        /\ ~OffloadMore(t)
    BY <1>5 DEF RespawnVllm, OffloadMore, At
  <2>6. TypeOK'
    BY <1>2, <2>2, <2>3, <2>4, <2>5, TypeFromParts DEF TypeOK, Configured
  <2> QED
    BY <1>2, <2>2, <2>3, <2>4, <2>5, <2>6
<1>6. CASE OffloadMore(t)
  <2>1. PICK gb \in Retries(t) :
           /\ \E s \in StopAll(server) : Spawn(s, gb)
           /\ thread' = [thread EXCEPT ![t].gb = gb, ![t].tries = @ + 1]
    BY <1>6 DEF OffloadMore
  <2>2. PICK s \in StopAll(server) : Spawn(s, gb)
    BY <2>1
  <2>3. gb \in Nat /\ gb > thread[t].gb
    BY <1>0, <1>1, EngineAssumption DEF Retries
  <2>4. /\ thread' \in [Threads -> Requests]
        /\ thread'[t].pc = "wait" /\ thread'[t].gb = gb
        /\ \A u \in Threads \ {t} : thread'[u] = thread[u]
    <3> DEFINE new == [thread[t] EXCEPT !.gb = gb, !.tries = thread[t].tries + 1]
    <3>0. thread[t] \in Requests /\ thread[t].tries + 1 \in Nat
      BY <1>0
    <3>1. new \in Requests /\ new.gb = gb /\ new.pc = thread[t].pc
      BY <2>3, <3>0 DEF Requests
    <3>2. thread' = [thread EXCEPT ![t] = new]
      BY <2>1
    <3>3. thread[t].pc = "wait"
      BY <1>6 DEF OffloadMore, At
    <3> HIDE DEF new
    <3> QED
      BY <3>1, <3>2, <3>3
  <2>5. /\ lock' = t /\ UNCHANGED <<backend, offload, job, main, recorded, faults, crashes>>
        /\ ~RespawnVllm(t)
    BY <1>6 DEF RespawnVllm, OffloadMore, At, CallIsUnderWay
  <2>6. TypeOK'
    BY <1>2, <2>2, <2>3, <2>4, <2>5, TypeFromParts DEF TypeOK, Configured
  <2> QED
    BY <1>2, <2>2, <2>3, <2>4, <2>5, <2>6
<1> QED
  BY <1>4, <1>5, <1>6 DEF Starts

\* The steps of a request that move its thread only, or give up the lock.
Walks(t) == \/ Check(t) \/ LockAndCheck(t) \/ RefuseOffload(t) \/ Send(t) \/ Answer(t)
            \/ LoadFailsLlama(t) \/ LoadFailsVllm(t)
Adopts(t) == AdoptLlama(t) \/ AdoptVllm(t)
GivesUp(t) == LoadTimesOut(t) \/ RefuseServer(t)

LEMMA RequestKinds == \A t \in Threads :
    Request(t) <=> Walks(t) \/ Starts(t) \/ Adopts(t) \/ GivesUp(t)
BY DEF Request, Walks, Starts, Adopts, GivesUp

LEMMA ServedIsPc == Served \in {"ok", "send"} /\ Served \in Pcs
BY DEF Served, Pcs

LEMMA WalksKeepType ==
    ASSUME TypeOK, NEW t \in Threads, Walks(t)
    PROVE  /\ TypeOK' /\ UNCHANGED <<backend, server, proc, loaded, offload, job, main, recorded,
                                     faults, crashes>>
           /\ \A u \in Threads \ {t} : thread'[u] = thread[u]
           /\ thread'[t].pc \in {"ok", "send", "lock", "error", "crash", "asked"}
           /\ thread'[t].pc = "ok" => thread'[t].from = thread[t].from
           /\ lock' = lock \/ (lock = t /\ lock' = 0 /\ thread'[t].pc = "error")
           /\ At(t, "wait") => lock' = IF lock = t THEN 0 ELSE lock
<1> USE ServersAreTyped, ThreadsAreNumbers
<1>1. UNCHANGED <<backend, server, proc, loaded, offload, job, main, recorded, faults, crashes>>
  BY DEF Walks, Check, LockAndCheck, RefuseOffload, Send, Answer, LoadFailsLlama, LoadFailsVllm,
         engineVars
<1>2. CASE \E pc \in {"ok", "send", "lock", "error", "crash"} : Goto(t, pc) /\ lock' = lock
                                                                /\ ~At(t, "wait")
  <2>1. PICK pc \in {"ok", "send", "lock", "error", "crash"} : Goto(t, pc) /\ lock' = lock
                                                                /\ ~At(t, "wait")
    BY <1>2
  <2>2. /\ thread' \in [Threads -> Requests] /\ thread'[t] = [thread[t] EXCEPT !.pc = pc]
        /\ \A u \in Threads \ {t} : thread'[u] = thread[u]
    <3>1. pc \in Pcs
      BY DEF Pcs
    <3> QED
      BY <2>1, <3>1, GotoKeepsType
  <2>3. thread'[t].pc = pc /\ thread'[t].from = thread[t].from
    BY <2>2 DEF Requests
  <2>4. TypeOK'
    BY <1>1, <2>1, <2>2, TypeFromParts DEF TypeOK
  <2> QED
    BY <1>1, <2>1, <2>2, <2>3, <2>4
<1>3. CASE \E i \in Ids : MayAnswer(i) /\ lock' = lock /\ At(t, "send") /\
             thread' = [thread EXCEPT ![t] = [@ EXCEPT !.pc = "asked", !.by = i,
                                                       !.from = server[i].cfg]]
  <2>1. PICK i \in Ids : /\ lock' = lock /\ At(t, "send")
             /\ thread' = [thread EXCEPT ![t] = [@ EXCEPT !.pc = "asked", !.by = i,
                                                       !.from = server[i].cfg]]
    BY <1>3
  <2> DEFINE new == [thread[t] EXCEPT !.pc = "asked", !.by = i, !.from = server[i].cfg]
  <2>2. new \in Requests /\ new.pc = "asked"
    <3>1. server[i].cfg \in Configured
      BY DEF Servers
    <3> QED
      BY <3>1 DEF Requests, Pcs
  <2>3. thread' = [thread EXCEPT ![t] = new]
    BY <2>1
  <2> HIDE DEF new
  <2>4. /\ thread' \in [Threads -> Requests] /\ thread'[t].pc = "asked"
        /\ \A u \in Threads \ {t} : thread'[u] = thread[u]
    BY <2>2, <2>3
  <2>5. TypeOK'
    BY <1>1, <2>1, <2>4, TypeFromParts DEF TypeOK
  <2> QED
    BY <1>1, <2>1, <2>4, <2>5 DEF At
<1>4. CASE Raise(t, "error")
  <2>1. /\ thread' \in [Threads -> Requests] /\ thread'[t] = [Resting EXCEPT !.pc = "error"]
        /\ \A u \in Threads \ {t} : thread'[u] = thread[u]
    BY <1>4, RestKeepsType DEF Raise, Pcs
  <2>2. thread'[t].pc = "error"
    BY <2>1 DEF Resting
  <2>3. lock' = IF lock = t THEN 0 ELSE lock
    BY <1>4 DEF Raise
  <2>4. TypeOK'
    BY <1>1, <2>1, <2>3, TypeFromParts DEF TypeOK
  <2> QED
    BY <1>1, <2>1, <2>2, <2>3, <2>4
<1>5. CASE Check(t) \/ LockAndCheck(t) \/ RefuseOffload(t)
  BY <1>2, <1>5, ServedIsPc DEF Check, LockAndCheck, RefuseOffload, engineVars, At
<1>6. CASE Send(t)
  <2>1. CASE Goto(t, "crash")
    BY <1>2, <1>6, <2>1 DEF Send, engineVars, At
  <2>2. CASE ~Goto(t, "crash")
    BY <1>3, <1>6, <2>2 DEF Send, engineVars
  <2> QED
    BY <2>1, <2>2
<1>7. CASE Answer(t)
  BY <1>2, <1>7 DEF Answer, engineVars, At
<1>8. CASE LoadFailsLlama(t) \/ LoadFailsVllm(t)
  BY <1>4, <1>8 DEF LoadFailsLlama, LoadFailsVllm
<1> QED
  BY <1>5, <1>6, <1>7, <1>8 DEF Walks

LEMMA AdoptsKeepType ==
    ASSUME TypeOK, CallIsUnderWay, NEW t \in Threads, Adopts(t)
    PROVE  /\ TypeOK' /\ UNCHANGED <<backend, server, proc, job, main, recorded, faults, crashes>>
           /\ loaded' = job.cfg /\ lock' = 0
           /\ thread'[t].pc = Served /\ \A u \in Threads \ {t} : thread'[u] = thread[u]
<1> USE ServersAreTyped, ThreadsAreNumbers
<1>1. Adopted(t) /\ At(t, "wait")
  BY DEF Adopts, AdoptLlama, AdoptVllm
<1>2. /\ thread' \in [Threads -> Requests] /\ thread'[t] = [Resting EXCEPT !.pc = Served]
      /\ \A u \in Threads \ {t} : thread'[u] = thread[u]
  BY <1>1, RestKeepsType, ServedIsPc DEF Adopted
<1>3. thread'[t].pc = Served
  BY <1>2 DEF Resting
<1>4. offload' \in [Models -> Nat]
  <2>1. thread[t].gb \in Nat /\ offload \in [Models -> Nat]
    BY DEF Requests, TypeOK
  <2> QED
    BY <2>1 DEF Adopts, AdoptLlama, AdoptVllm
<1>5. job.cfg \in Configured
  BY DEF Jobs
<1>6. /\ UNCHANGED <<backend, server, proc, job, main, recorded, faults, crashes>>
      /\ loaded' = job.cfg /\ lock' = 0
  BY <1>1 DEF Adopted
<1>7. TypeOK'
  BY <1>2, <1>4, <1>5, <1>6, TypeFromParts DEF TypeOK
<1> QED
  BY <1>2, <1>3, <1>6, <1>7

LEMMA GivesUpKeepType ==
    ASSUME TypeOK, OwnServersAreKnown, CallIsUnderWay, NEW t \in Threads, GivesUp(t)
    PROVE  /\ TypeOK' /\ UNCHANGED <<backend, offload, job, main, recorded, faults, crashes>>
           /\ server' \in Stopped(server) /\ proc' = 0 /\ loaded' = Nothing /\ lock' = 0
           /\ thread'[t].pc = "error" /\ \A u \in Threads \ {t} : thread'[u] = thread[u]
<1> USE ServersAreTyped, ThreadsAreNumbers
<1>1. StopAndRaise(t) /\ At(t, "wait")
  BY DEF GivesUp, LoadTimesOut, RefuseServer
<1>2. /\ thread' \in [Threads -> Requests] /\ thread'[t] = [Resting EXCEPT !.pc = "error"]
      /\ \A u \in Threads \ {t} : thread'[u] = thread[u]
  BY <1>1, RestKeepsType DEF StopAndRaise, Raise, Pcs
<1>3. thread'[t].pc = "error"
  BY <1>2 DEF Resting
<1>4. server' \in Stopped(server)
  BY <1>1 DEF StopAndRaise
<1>5. server' \in [Ids -> Servers]
  BY <1>4, StopFades
<1>6. /\ UNCHANGED <<backend, offload, job, main, recorded, faults, crashes>>
      /\ proc' = 0 /\ loaded' = Nothing /\ lock' = 0
  BY <1>1 DEF StopAndRaise, Raise, CallIsUnderWay
<1>7. TypeOK'
  BY <1>2, <1>5, <1>6, TypeFromParts DEF TypeOK, Configured
<1> QED
  BY <1>2, <1>3, <1>4, <1>6, <1>7

LEMMA AskAllAsks ==
    ASSUME AskAll
    PROVE  /\ thread' \in [Threads -> Requests]
           /\ \A t \in Threads : thread'[t].pc = IF t \in Crew' THEN "check" ELSE "idle"
<1>1. /\ [Resting EXCEPT !.pc = "check"] \in Requests
      /\ [Resting EXCEPT !.pc = "check"].pc = "check" /\ Resting.pc = "idle"
  BY ConstantsAreTyped DEF Requests, Pcs, Resting
<1> QED
  BY <1>1, ConstantsAreTyped DEF AskAll

LEMMA ShutDownFades ==
    ASSUME TypeOK, NEW s \in ShutDown(server)
    PROVE  /\ s \in [Ids -> Servers] /\ s[0] = server[0]
           /\ \A i \in Ids : Fades(server[i], s[i])
           /\ \A i \in Ids \ {0} : s[i].life \in {"gone", "dying"}
<1> USE ServersAreTyped, ThreadsAreNumbers
<1>1. /\ \A i \in Ids \ {0} : s[i] \in Ends(server[i])
      /\ s[0] = server[0] /\ DOMAIN s = Ids /\ s = [i \in Ids |-> s[i]]
  BY DEF ShutDown
<1>2. \A i \in Ids \ {0} : Fades(server[i], s[i]) /\ s[i].life \in {"gone", "dying"}
  <2> SUFFICES ASSUME NEW i \in Ids \ {0}
               PROVE  Fades(server[i], s[i]) /\ s[i].life \in {"gone", "dying"}
    OBVIOUS
  <2>1. server[i] \in Servers /\ s[i] \in Ends(server[i])
    BY <1>1
  <2> DEFINE r == server[i]
             e == s[i]
  <2> HIDE DEF r, e
  <2>2. /\ e \in Servers /\ e.life \in {"gone", "dying"}
        /\ e = Gone \/ e = [r EXCEPT !.life = "dying"]
        /\ e.life = "dying" => r.life \in {"loading", "healthy", "ending", "dying"}
    BY <2>1, EndsAreRemainders DEF r, e
  <2>3. r \in Servers
    BY <2>1 DEF r
  <2>4. Fades(r, e)
    BY <2>2, <2>3 DEF Fades, Servers
  <2> QED
    BY <2>2, <2>4 DEF r, e
<1>3. Fades(server[0], s[0])
  BY <1>1 DEF Fades
<1>4. \A i \in Ids : s[i] \in Servers
  BY <1>2, <1>3 DEF Fades
<1> QED
  BY <1>1, <1>2, <1>3, <1>4

LEMMA WorkloadKeepsType ==
    ASSUME TypeOK, OwnServersAreKnown, CallIsUnderWay, Workload
    PROVE  TypeOK'
<1> USE ServersAreTyped, ThreadsAreNumbers
<1>1. ASSUME NEW kind \in {"warmup", "prepare", "measured"}, NEW c \in Configurations,
             Call(kind, c)
      PROVE  TypeOK'
  <2>1. job' \in Jobs
    BY <1>1 DEF Call, Jobs, Configured
  <2> QED
    BY <1>1, <2>1, AskAllAsks, TypeFromParts DEF Call, engineVars, TypeOK
<1>2. CASE Again
  <2>1. job' \in Jobs
    <3>1. job.retries + 1 \in Nat
      BY DEF Jobs
    <3> QED
      BY <1>2, <3>1 DEF Again, Jobs
  <2> QED
    BY <1>2, <2>1, AskAllAsks, TypeFromParts DEF Again, engineVars, TypeOK
<1>3. CASE Settle
  <2>1. recorded' \subseteq Models
    <3>1. job.cfg.model \in Models
      BY <1>3 DEF Settle, Ended, CallIsUnderWay
    <3> QED
      BY <1>3, <3>1 DEF Settle, Record, TypeOK
  <2>2. thread' \in [Threads -> Requests] /\ job' \in Jobs
    BY <1>3, ConstantsAreTyped DEF Settle
  <2> QED
    BY <1>3, <2>1, <2>2, TypeFromParts DEF Settle, engineVars, TypeOK
<1>4. CASE Unload \/ ReleasePort
  <2>1. server' \in [Ids -> Servers]
    BY <1>4, StopFades DEF Unload, ReleasePort
  <2> QED
    BY <1>4, <2>1, TypeFromParts DEF Unload, ReleasePort, TypeOK, Configured
<1>5. CASE CleanUp
  <2>1. server' \in [Ids -> Servers]
    BY <1>5, ShutDownFades DEF CleanUp
  <2>2. thread' \in [Threads -> Requests] /\ job' \in Jobs
    BY <1>5, ConstantsAreTyped DEF CleanUp
  <2>3. faults' \in Nat
    BY <1>5 DEF CleanUp, Interruption, TypeOK
  <2> QED
    BY <1>5, <2>1, <2>2, <2>3, TypeFromParts DEF CleanUp, TypeOK, Configured
<1> QED
  BY <1>1, <1>2, <1>3, <1>4, <1>5 DEF Workload

LEMMA EngineTypeStep ==
    ASSUME TypeOK, EngineInv, [Next]_vars
    PROVE  TypeOK'
<1> USE DEF EngineInv, ServersInv
<1>1. CASE Environment
  BY <1>1, EnvironmentKeepsType
<1>2. ASSUME NEW t \in Threads, Request(t)
      PROVE  TypeOK'
  <2>1. CASE Walks(t)
    BY <2>1, WalksKeepType
  <2>2. CASE Starts(t)
    BY <2>2, StartsKeepType
  <2>3. CASE Adopts(t)
    BY <2>3, AdoptsKeepType
  <2>4. CASE GivesUp(t)
    BY <2>4, GivesUpKeepType
  <2> QED
    BY <1>2, <2>1, <2>2, <2>3, <2>4, RequestKinds
<1>3. CASE Workload
  BY <1>3, WorkloadKeepsType
<1>4. CASE UNCHANGED vars
  BY <1>4 DEF vars, TypeOK
<1> QED
  BY <1>1, <1>2, <1>3, <1>4 DEF Next

-------------------------------------------------------------------------------
(***************************************************************************)
(* The servers: who holds the port, which the engine knows.                *)
(***************************************************************************)
Holding == {"loading", "healthy", "ending", "dying"}

LEMMA HoldingIs == \A i \in Ids : HoldsPort(i) <=> server[i].life \in Holding
BY DEF HoldsPort, Life, Holding

\* A step from the parts: the servers fade but for one, which did not hold the
\* port or which nobody else holds it beside.
LEMMA PortStep ==
    ASSUME PortIsExclusive,
           NEW k \in Ids,
           \A i \in Ids \ {k} : server'[i].life \in Holding => server[i].life \in Holding,
           server'[k].life \in Holding =>
               \/ server[k].life \in Holding
               \/ \A j \in Ids : server[j].life \notin Holding
    PROVE  PortIsExclusive'
BY DEF PortIsExclusive, HoldsPort, Life, Holding

LEMMA EnvironmentServers ==
    ASSUME TypeOK, ServersInv, Environment
    PROVE  ServersInv'
<1> USE ServersAreTyped, ThreadsAreNumbers DEF ServersInv
<1>1. ASSUME NEW i \in Ids, NEW r \in Servers, server' = [server EXCEPT ![i] = r],
             UNCHANGED <<backend, proc>>,
             r.life \in Holding => \/ server[i].life \in Holding
                                   \/ \A j \in Ids : server[j].life \notin Holding,
             r.life # "ending" \/ i = 0,
             i \in {0, proc} \/ r.life \in {"gone", "dying"},
             i = 0 => /\ r.life \in {"gone", "healthy", "ending"}
                      /\ backend \notin Strangers => r.life = "gone"
      PROVE  ServersInv'
  <2>1. server'[i] = r /\ \A j \in Ids \ {i} : server'[j] = server[j]
    BY <1>1
  <2>2. PortIsExclusive'
    BY <1>1, <2>1, PortStep
  <2>3. OwnServersAreKnown'
    BY <1>1, <2>1 DEF OwnServersAreKnown, Life
  <2>4. OtherIsExternal'
    BY <1>1, <2>1 DEF OtherIsExternal, Life
  <2> QED
    BY <2>2, <2>3, <2>4
<1>2. Gone.life = "gone"
  BY DEF Gone
<1>3. ASSUME NEW i \in Ids, NEW life \in {"gone", "loading", "healthy", "dying"}, Become(i, life)
      PROVE  \E r \in Servers : server' = [server EXCEPT ![i] = r] /\ r.life = life
  <2>1. [server[i] EXCEPT !.life = life] \in Servers
    BY DEF Servers, Lives
  <2>2. [server[i] EXCEPT !.life = life].life = life
    BY DEF Servers
  <2> QED
    BY <1>2, <1>3, <2>1, <2>2, ConstantsAreTyped DEF Become
<1>4. ASSUME NEW i \in Ids, Bind(i)
      PROVE  ServersInv'
  <2>1. i # 0 /\ i = proc /\ UNCHANGED <<backend, proc>>
    BY <1>4 DEF Bind, OtherIsExternal, OwnServersAreKnown, engineVars, Life
  <2>2. CASE \E j \in Ids : HoldsPort(j)
    <3>1. PICK r \in Servers : server' = [server EXCEPT ![i] = r] /\ r.life = "gone"
      BY <1>3, <1>4, <2>2 DEF Bind
    <3> QED
      BY <1>1, <2>1, <3>1 DEF Holding
  <2>3. CASE ~\E j \in Ids : HoldsPort(j)
    <3>1. PICK r \in Servers : server' = [server EXCEPT ![i] = r] /\ r.life = "loading"
      BY <1>3, <1>4, <2>3 DEF Bind
    <3> QED
      BY <1>1, <2>1, <2>3, <3>1, HoldingIs
  <2> QED
    BY <2>2, <2>3
<1>5. ASSUME NEW i \in Ids, Load(i)
      PROVE  ServersInv'
  <2>1. i # 0 /\ i = proc /\ UNCHANGED <<backend, proc>> /\ server[i].life \in Holding
    BY <1>5 DEF Load, OtherIsExternal, OwnServersAreKnown, engineVars, Life, Holding
  <2>2. \E r \in Servers : server' = [server EXCEPT ![i] = r] /\ r.life \in {"healthy", "gone"}
    <3>1. CASE Become(i, "healthy") \/ Become(i, "gone")
      BY <1>3, <3>1
    <3>2. CASE server' = [server EXCEPT ![i].life = "healthy", ![i].gpu = FALSE]
      <4> DEFINE r == [server[i] EXCEPT !.life = "healthy", !.gpu = FALSE]
      <4>1. r \in Servers /\ r.life = "healthy"
        BY DEF Servers, Lives
      <4>2. server' = [server EXCEPT ![i] = r]
        BY <3>2
      <4> QED
        BY <4>1, <4>2
    <3> QED
      BY <1>5, <3>1, <3>2 DEF Load
  <2> QED
    BY <1>1, <2>1, <2>2
<1>6. ASSUME NEW i \in Ids, Crash(i)
      PROVE  ServersInv'
  <2>1. i # 0 /\ i = proc /\ UNCHANGED <<backend, proc>> /\ server[i].life \in Holding
    BY <1>6 DEF Crash, OwnServersAreKnown, engineVars, Life, Holding
  <2>2. PICK r \in Servers : server' = [server EXCEPT ![i] = r] /\ r.life = "dying"
    BY <1>3, <1>6 DEF Crash
  <2> QED
    BY <1>1, <2>1, <2>2
<1>7. ASSUME NEW i \in Ids, End(i)
      PROVE  ServersInv'
  <2>1. UNCHANGED <<backend, proc>>
    BY <1>7 DEF End, engineVars
  <2>2. PICK r \in Servers : server' = [server EXCEPT ![i] = r] /\ r.life = "gone"
    BY <1>3, <1>7 DEF End
  <2> QED
    BY <1>1, <2>1, <2>2 DEF Holding
<1>8. CASE Stranger
  <2>1. PICK c \in Configurations :
           server' = [server EXCEPT ![0] = [@ EXCEPT !.cfg = c, !.life = "healthy"]]
    BY <1>8 DEF Stranger
  <2> DEFINE r == [server[0] EXCEPT !.cfg = c, !.life = "healthy"]
  <2>2. r \in Servers /\ r.life = "healthy"
    BY DEF Servers, Lives, Configured
  <2>3. server' = [server EXCEPT ![0] = r]
    BY <2>1
  <2>4. /\ UNCHANGED <<backend, proc>> /\ backend \in Strangers
        /\ \A j \in Ids : server[j].life \notin Holding
    BY <1>8, HoldingIs DEF Stranger, engineVars
  <2> HIDE DEF r
  <2> QED
    BY <1>1, <2>2, <2>3, <2>4
<1> QED
  BY <1>4, <1>5, <1>6, <1>7, <1>8 DEF Environment

\* Stopping, starting and shutting down.
LEMMA StoppingServers ==
    ASSUME TypeOK, ServersInv, server' \in [Ids -> Servers], backend' = backend,
           \A i \in Ids \ {0, proc'} : server'[i].life \in {"gone", "dying"},
           server'[0] = server[0] \/ server'[0] = Swept(server)[0],
           \A i \in Ids \ {proc'} : Fades(server[i], server'[i]),
           \/ proc' = 0
           \/ proc' \in Ids \ {0} /\ server'[proc'].life = "starting"
    PROVE  ServersInv'
<1> USE ServersAreTyped, ThreadsAreNumbers DEF ServersInv
<1>1. /\ server'[0].life \in {"gone", "healthy", "ending"}
      /\ server[0].life = "gone" => server'[0].life = "gone"
      /\ server'[0].life \in Holding => server[0].life \in Holding
  <2>1. server[0].life \in {"gone", "healthy", "ending"} /\ server[0] \in Servers
    BY DEF OtherIsExternal, Life
  <2>2. /\ Swept(server)[0].life \in {"gone", "ending"}
        /\ server[0].life = "gone" => Swept(server)[0].life = "gone"
    BY <2>1 DEF Swept, Servers
  <2> QED
    BY <2>1, <2>2 DEF Holding
<1>2. \A i \in Ids \ {0} : server'[i].life \in Holding => server[i].life \in Holding
  BY DEF Fades, Holding
<1>3. PortIsExclusive'
  BY <1>1, <1>2, PortStep
<1>4. OwnServersAreKnown'
  BY DEF OwnServersAreKnown, Life
<1>5. OtherIsExternal'
  BY <1>1 DEF OtherIsExternal, Life
<1> QED
  BY <1>3, <1>4, <1>5

LEMMA ServersStep ==
    ASSUME TypeOK, ServersInv, CallIsUnderWay, [Next]_vars
    PROVE  ServersInv'
<1> USE ServersAreTyped, ThreadsAreNumbers
<1>1. CASE Environment
  BY <1>1, EnvironmentServers
<1>2. CASE UNCHANGED <<backend, server, proc>>
  BY <1>2 DEF ServersInv, PortIsExclusive, OwnServersAreKnown, OtherIsExternal, HoldsPort, Life
<1>3. ASSUME server' \in Stopped(server) \cup StopAll(server), proc' = 0, backend' = backend
      PROVE  ServersInv'
  BY <1>3, StopFades, StoppingServers DEF ServersInv
<1>4. ASSUME NEW t \in Threads, Request(t)
      PROVE  ServersInv'
  <2>1. CASE Walks(t)
    BY <1>2, <2>1, WalksKeepType
  <2>2. CASE Starts(t)
    <3>1. TypeOK'
      BY <2>2, StartsKeepType DEF ServersInv
    <3>2. server' \in [Ids -> Servers] /\ proc' \in Ids
      BY <3>1 DEF TypeOK, Servers
    <3> QED
      BY <2>2, <3>2, StartsKeepType, StoppingServers DEF ServersInv
  <2>3. CASE Adopts(t)
    BY <1>2, <2>3, AdoptsKeepType
  <2>4. CASE GivesUp(t)
    BY <1>3, <2>4, GivesUpKeepType DEF ServersInv
  <2> QED
    BY <1>4, <2>1, <2>2, <2>3, <2>4, RequestKinds
<1>5. CASE Workload
  <2>1. CASE Unload \/ ReleasePort
    BY <1>3, <2>1 DEF Unload, ReleasePort
  <2>2. CASE CleanUp
    BY <2>2, ShutDownFades, StoppingServers DEF CleanUp
  <2>3. CASE ~(Unload \/ ReleasePort \/ CleanUp)
    BY <1>2, <1>5, <2>3 DEF Workload, Call, Again, Settle, engineVars
  <2> QED
    BY <2>1, <2>2, <2>3
<1>6. CASE UNCHANGED vars
  BY <1>2, <1>6 DEF vars
<1> QED
  BY <1>1, <1>4, <1>5, <1>6 DEF Next

-------------------------------------------------------------------------------
(***************************************************************************)
(* The threads of a call, and what they wait for.                          *)
(***************************************************************************)

\* What the environment does to a server of the run, and to another's in a call.
LEMMA EnvironmentKeeps ==
    ASSUME TypeOK, ServersInv, Environment
    PROVE  /\ UNCHANGED <<backend, proc, loaded, offload, lock, thread, job, main, recorded>>
           /\ \A i \in Ids \ {0} :
                 /\ \/ server'[i].life = "gone"
                    \/ /\ server[i].life # "gone" /\ server'[i].cfg = server[i].cfg
                       /\ server'[i].offload = server[i].offload
                 /\ server[i].life \in {"gone", "healthy", "dying"} =>
                       server'[i].life \in {"gone", "healthy", "dying"}
           /\ main = "calling" /\ server[0].life = "gone" => server'[0].life = "gone"
<1> USE ServersAreTyped, ThreadsAreNumbers
<1>1. UNCHANGED <<backend, proc, loaded, offload, lock, thread, job, main, recorded>>
  BY DEF Environment, Bind, Load, Crash, End, Stranger, engineVars
<1>2. Gone.life = "gone"
  BY DEF Gone
<1>3. CASE Stranger
  <2>1. \A i \in Ids \ {0} : server'[i] = server[i]
    BY <1>3 DEF Stranger
  <2> QED
    BY <1>1, <1>3, <2>1 DEF Stranger
<1>4. ASSUME NEW i \in Ids, Bind(i) \/ Load(i) \/ Crash(i) \/ End(i)
      PROVE  /\ server[i].life # "gone" /\ \A j \in Ids \ {i} : server'[j] = server[j]
             /\ \/ server'[i].life = "gone"
                \/ /\ server'[i].cfg = server[i].cfg /\ server'[i].offload = server[i].offload
                   /\ server'[i].life \in {"loading", "healthy", "dying"}
             /\ server'[i].life = "loading" => server[i].life = "starting"
  <2>1. server[i].life # "gone"
    BY <1>4 DEF Bind, Load, Crash, End, Life
  <2>2. ASSUME NEW life \in {"gone", "loading", "healthy", "dying"}, Become(i, life)
        PROVE  /\ \A j \in Ids \ {i} : server'[j] = server[j]
               /\ \/ server'[i].life = "gone"
                  \/ /\ server'[i].cfg = server[i].cfg /\ server'[i].offload = server[i].offload
                     /\ server'[i].life = life
               /\ server'[i].life \in {life, "gone"}
    BY <1>2, <2>2 DEF Become, Servers
  <2>3. CASE Load(i) /\ server' = [server EXCEPT ![i].life = "healthy", ![i].gpu = FALSE]
    BY <2>1, <2>3 DEF Servers
  <2>4. CASE Bind(i)
    <3>1. Become(i, "gone") \/ Become(i, "loading")
      BY <2>4 DEF Bind
    <3>2. server[i].life = "starting"
      BY <2>4 DEF Bind, Life
    <3> QED
      BY <2>1, <2>2, <3>1, <3>2
  <2>5. CASE Load(i) /\ (Become(i, "healthy") \/ Become(i, "gone"))
    BY <2>1, <2>2, <2>5
  <2>6. CASE Crash(i)
    BY <2>1, <2>2, <2>6 DEF Crash
  <2>7. CASE End(i)
    BY <2>1, <2>2, <2>7 DEF End
  <2> QED
    BY <1>4, <2>3, <2>4, <2>5, <2>6, <2>7 DEF Load
<1>5. ASSUME NEW i \in Ids, Bind(i) \/ Load(i) \/ Crash(i) \/ End(i)
      PROVE  /\ \A j \in Ids \ {0} :
                   /\ \/ server'[j].life = "gone"
                      \/ /\ server[j].life # "gone" /\ server'[j].cfg = server[j].cfg
                         /\ server'[j].offload = server[j].offload
                   /\ server[j].life \in {"gone", "healthy", "dying"} =>
                         server'[j].life \in {"gone", "healthy", "dying"}
             /\ server[0].life = "gone" => server'[0].life = "gone"
  BY <1>4, <1>5
<1> QED
  BY <1>1, <1>3, <1>5 DEF Environment

LEMMA CallStep ==
    ASSUME TypeOK, ServersInv, CallIsUnderWay, [Next]_vars
    PROVE  CallIsUnderWay'
<1> USE ServersAreTyped, ThreadsAreNumbers
<1>0. \A t \in Threads : thread[t] = Resting => At(t, "idle")
  BY DEF At, Resting
<1>1. CASE UNCHANGED <<lock, thread, job, main>>
  BY <1>1 DEF CallIsUnderWay, At, Crew
<1>2. ASSUME NEW t \in Threads, Request(t)
      PROVE  CallIsUnderWay'
  <2>1. ~At(t, "idle")
    BY <1>2 DEF Request, Check, LockAndCheck, RespawnLlama, RespawnVllm, RefuseOffload, AdoptLlama,
         AdoptVllm, OffloadMore, LoadFailsLlama, LoadFailsVllm, LoadTimesOut, RefuseServer, Send,
         Answer, At
  <2>2. main = "calling" /\ job.cfg \in Configurations /\ t \in Crew
    BY <2>1, WorkingIsCalling
  <2>3. ASSUME main' = main, job' = job, \A u \in Threads \ {t} : thread'[u] = thread[u],
               \A u \in Threads : At(u, "wait")' <=> lock' = u
        PROVE  CallIsUnderWay'
    <3>1. Crew' = Crew
      BY <2>3 DEF Crew
    <3>2. \A u \in Threads \ Crew : At(u, "idle")
      BY <2>2 DEF CallIsUnderWay
    <3> QED
      BY <2>2, <2>3, <3>1, <3>2 DEF CallIsUnderWay, At
  <2>4. \A u \in Threads : At(u, "wait") <=> lock = u
    BY DEF CallIsUnderWay
  <2>5. CASE Walks(t)
    <3>1. thread'[t].pc # "wait" /\ \A u \in Threads \ {t} : thread'[u] = thread[u]
      BY <2>5, WalksKeepType
    <3>2. lock' # t /\ (lock = t => lock' = 0) /\ (lock # t => lock' = lock)
      BY <2>4, <2>5, WalksKeepType
    <3>3. \A u \in Threads : At(u, "wait")' <=> lock' = u
      BY <2>4, <3>1, <3>2 DEF At
    <3> QED
      BY <2>3, <2>5, <3>3, WalksKeepType
  <2>6. CASE Starts(t)
    <3>1. lock \in {0, t}
      BY <2>4, <2>6 DEF Starts, RespawnLlama, RespawnVllm, OffloadMore
    <3>2. /\ thread'[t].pc = "wait" /\ \A u \in Threads \ {t} : thread'[u] = thread[u]
          /\ lock' = t /\ main' = main /\ job' = job
      BY <2>6, StartsKeepType DEF ServersInv
    <3>3. \A u \in Threads : At(u, "wait")' <=> lock' = u
      BY <2>4, <3>1, <3>2 DEF At
    <3> QED
      BY <2>3, <3>2, <3>3
  <2>7. CASE Adopts(t) \/ GivesUp(t)
    <3>1. lock = t
      BY <2>4, <2>7 DEF Adopts, AdoptLlama, AdoptVllm, GivesUp, LoadTimesOut, RefuseServer
    <3>2. /\ thread'[t].pc # "wait" /\ \A u \in Threads \ {t} : thread'[u] = thread[u]
          /\ lock' = 0 /\ main' = main /\ job' = job
      BY <2>7, AdoptsKeepType, GivesUpKeepType, ServedIsPc DEF ServersInv
    <3>3. \A u \in Threads : At(u, "wait")' <=> lock' = u
      BY <2>4, <3>1, <3>2 DEF At
    <3> QED
      BY <2>3, <3>2, <3>3
  <2> QED
    BY <1>2, <2>5, <2>6, <2>7, RequestKinds
<1>3. ASSUME Ended \/ main # "calling"
      PROVE  \A t \in Threads : ~At(t, "wait") /\ lock # t
  <2>1. ASSUME NEW t \in Threads
        PROVE  ~At(t, "wait")
    <3>1. CASE main # "calling"
      BY <1>0, <3>1 DEF CallIsUnderWay, At
    <3>2. CASE Ended
      <4>1. CASE t \in Crew
        BY <3>2, <4>1 DEF Ended, At
      <4>2. CASE t \notin Crew
        BY <3>2, <4>2 DEF Ended, CallIsUnderWay, At
      <4> QED
        BY <4>1, <4>2
    <3> QED
      BY <1>3, <3>1, <3>2
  <2> QED
    BY <2>1 DEF CallIsUnderWay
<1>4. ASSUME NEW kind \in {"warmup", "prepare", "measured"}, NEW c \in Configurations,
             Call(kind, c)
      PROVE  CallIsUnderWay'
  <2>1. main' = "calling" /\ job'.cfg = c /\ lock' = lock /\ main # "calling"
    BY <1>4 DEF Call, engineVars
  <2>2. \A t \in Threads : thread'[t].pc = IF t \in Crew' THEN "check" ELSE "idle"
    BY <1>4, AskAllAsks DEF Call
  <2> QED
    BY <1>3, <2>1, <2>2 DEF CallIsUnderWay, At
<1>5. CASE Again
  <2>1. main' = "calling" /\ main = "calling" /\ Ended /\ job'.cfg = job.cfg /\ lock' = lock
    BY <1>5 DEF Again, Ended, engineVars, Jobs
  <2>2. \A t \in Threads : thread'[t].pc = IF t \in Crew' THEN "check" ELSE "idle"
    BY <1>5, AskAllAsks DEF Again
  <2> QED
    BY <1>3, <2>1, <2>2 DEF CallIsUnderWay, At
<1>6. CASE Settle
  <2>1. main' = "free" /\ Ended /\ lock' = lock /\ \A t \in Threads : thread'[t] = Resting
    BY <1>6 DEF Settle, engineVars
  <2>2. \A t \in Threads : ~At(t, "wait")'
    <3>1. Resting.pc = "idle"
      BY DEF Resting
    <3> QED
      BY <2>1, <3>1 DEF At
  <2> QED
    BY <1>3, <2>1, <2>2 DEF CallIsUnderWay
<1>7. CASE Unload \/ ReleasePort
  BY <1>1, <1>7 DEF Unload, ReleasePort
<1>8. CASE CleanUp
  <2>1. main' = "over" /\ lock' = 0 /\ \A t \in Threads : thread'[t] = Resting
    BY <1>8 DEF CleanUp
  <2>2. \A t \in Threads : ~At(t, "wait")'
    <3>1. Resting.pc = "idle"
      BY DEF Resting
    <3> QED
      BY <2>1, <3>1 DEF At
  <2> QED
    BY <2>1, <2>2 DEF CallIsUnderWay
<1>9. CASE Environment
  BY <1>1, <1>9, EnvironmentKeeps
<1>10. CASE UNCHANGED vars
  BY <1>1, <1>10 DEF vars
<1> QED
  BY <1>2, <1>4, <1>5, <1>6, <1>7, <1>8, <1>9, <1>10 DEF Next, Workload

\* A run that is over stays so, and starts no server.
LEMMA OverStep ==
    ASSUME TypeOK, ServersInv, CallIsUnderWay, OverIsOver, [Next]_vars
    PROVE  OverIsOver'
<1> USE DEF OverIsOver
<1>1. CASE Environment
  BY <1>1, EnvironmentKeeps
<1>2. ASSUME NEW t \in Threads, Request(t)
      PROVE  OverIsOver'
  <2>1. ~At(t, "idle") /\ main' = main
    BY <1>2 DEF Request, Check, LockAndCheck, RespawnLlama, RespawnVllm, RefuseOffload, AdoptLlama,
         AdoptVllm, Adopted, OffloadMore, LoadFailsLlama, LoadFailsVllm, LoadTimesOut,
         RefuseServer, StopAndRaise, Send, Answer, At
  <2>2. main = "calling"
    BY <2>1, WorkingIsCalling
  <2> QED
    BY <2>1, <2>2
<1>3. CASE Workload
  BY <1>3 DEF Workload, Call, Again, Settle, Unload, ReleasePort, CleanUp, engineVars
<1>4. CASE UNCHANGED vars
  BY <1>4 DEF vars
<1> QED
  BY <1>1, <1>2, <1>3, <1>4 DEF Next

LEMMA WaitsStep ==
    ASSUME TypeOK, ServersInv, CallIsUnderWay, WaitsForOwn, [Next]_vars
    PROVE  WaitsForOwn'
<1> USE ServersAreTyped, ThreadsAreNumbers
<1>1. CASE Environment
  <2>1. /\ UNCHANGED <<backend, proc, loaded, offload, thread, job>>
        /\ \A i \in Ids \ {0} : \/ server'[i].life = "gone"
                              \/ /\ server[i].life # "gone" /\ server'[i].cfg = server[i].cfg
                                 /\ server'[i].offload = server[i].offload
    BY <1>1, EnvironmentKeeps
  <2>2. proc \in Ids
    BY DEF TypeOK
  <2> QED
    BY <2>1, <2>2 DEF WaitsForOwn, At, Alive, Life
<1>2. CASE UNCHANGED <<backend, server, proc, loaded, offload, thread, job>>
  BY <1>2 DEF WaitsForOwn, At, Alive, Life
<1>3. ASSUME NEW t \in Threads, Request(t)
      PROVE  WaitsForOwn'
  <2>0. \A u \in Threads : At(u, "wait") <=> lock = u
    BY DEF CallIsUnderWay
  <2>1. CASE Walks(t)
    <3>1. /\ UNCHANGED <<backend, server, proc, loaded, offload, job>>
          /\ \A u \in Threads \ {t} : thread'[u] = thread[u]
          /\ thread'[t].pc # "wait"
      BY <2>1, WalksKeepType
    <3> QED
      BY <3>1 DEF WaitsForOwn, At, Alive, Life
  <2>2. CASE Starts(t)
    <3>1. /\ proc' # 0 /\ loaded' = Nothing /\ server'[proc'].cfg = job.cfg
          /\ thread'[t].pc = "wait" /\ \A u \in Threads \ {t} : thread'[u] = thread[u]
          /\ UNCHANGED <<backend, offload, job>>
          /\ backend = "vllm" => /\ server'[proc'].offload = thread'[t].gb
                                 /\ RespawnVllm(t) => thread'[t].gb = offload[job.cfg.model]
                                 /\ OffloadMore(t) => thread'[t].gb > thread[t].gb
      BY <2>2, StartsKeepType DEF ServersInv
    <3>2. \A u \in Threads \ {t} : ~At(u, "wait")'
      BY <2>0, <2>2, <3>1 DEF At, Starts, RespawnLlama, RespawnVllm, OffloadMore
    <3>3. backend = "vllm" => offload[job.cfg.model] <= thread'[t].gb
      <4>1. job.cfg.model \in Models
        BY <2>2, WorkingIsCalling DEF At, Starts, RespawnLlama, RespawnVllm, OffloadMore
      <4>2. offload[job.cfg.model] \in Nat /\ thread[t].gb \in Nat
        BY <4>1 DEF TypeOK, Requests
      <4>3. thread'[t].gb \in Nat
        <5>1. TypeOK'
          BY <2>2, StartsKeepType DEF ServersInv
        <5> QED
          BY <5>1 DEF TypeOK
      <4>4. OffloadMore(t) => At(t, "wait") /\ backend = "vllm"
        BY DEF OffloadMore
      <4>5. OffloadMore(t) => offload[job.cfg.model] <= thread[t].gb
        BY <4>4 DEF WaitsForOwn
      <4>6. RespawnLlama(t) => backend # "vllm"
        BY DEF RespawnLlama
      <4> QED
        BY <2>2, <3>1, <4>2, <4>3, <4>5, <4>6 DEF Starts
    <3> QED
      BY <3>1, <3>2, <3>3 DEF WaitsForOwn, At
  <2>3. CASE Adopts(t) \/ GivesUp(t)
    <3>1. lock = t
      BY <2>0, <2>3 DEF Adopts, AdoptLlama, AdoptVllm, GivesUp, LoadTimesOut, RefuseServer
    <3>2. thread'[t].pc # "wait" /\ \A u \in Threads \ {t} : thread'[u] = thread[u]
      BY <2>3, AdoptsKeepType, GivesUpKeepType, ServedIsPc DEF ServersInv
    <3>3. \A u \in Threads : ~At(u, "wait")'
      BY <2>0, <3>1, <3>2 DEF At
    <3> QED
      BY <3>3 DEF WaitsForOwn
  <2> QED
    BY <1>3, <2>1, <2>2, <2>3, RequestKinds
<1>4. CASE Workload
  <2>1. \A t \in Threads : ~At(t, "wait")'
    <3>1. Resting.pc = "idle" /\ \A t \in Threads : thread[t] = Resting => thread[t].pc = "idle"
      BY DEF Resting
    <3>2. CASE AskAll
      BY <3>2, AskAllAsks DEF At
    <3>3. CASE thread' = [t \in Threads |-> Resting]
      BY <3>1, <3>3 DEF At
    <3>4. CASE main # "calling" /\ thread' = thread
      BY <3>1, <3>4 DEF At, CallIsUnderWay
    <3> QED
      BY <1>4, <3>2, <3>3, <3>4 DEF Workload, Call, Again, Settle, Unload, ReleasePort, CleanUp
  <2> QED
    BY <2>1 DEF WaitsForOwn
<1>5. CASE UNCHANGED vars
  BY <1>2, <1>5 DEF vars
<1> QED
  BY <1>1, <1>3, <1>4, <1>5 DEF Next

LEMMA LoadedStep ==
    ASSUME TypeOK, ServersInv, CallIsUnderWay, WaitsForOwn, LoadedIsTrue, [Next]_vars
    PROVE  LoadedIsTrue'
<1> USE ServersAreTyped, ThreadsAreNumbers
<1>1. CASE Environment
  <2>1. /\ UNCHANGED <<backend, proc, loaded>>
        /\ \A i \in Ids \ {0} :
              /\ \/ server'[i].life = "gone"
                 \/ server[i].life # "gone" /\ server'[i].cfg = server[i].cfg
              /\ server[i].life \in {"gone", "healthy", "dying"} =>
                    server'[i].life \in {"gone", "healthy", "dying"}
    BY <1>1, EnvironmentKeeps
  <2>2. proc \in Ids
    BY DEF TypeOK
  <2> QED
    BY <2>1, <2>2 DEF LoadedIsTrue, Alive, Life
<1>2. CASE UNCHANGED <<backend, server, proc, loaded>>
  BY <1>2 DEF LoadedIsTrue, Alive, Life
<1>3. CASE loaded' = Nothing
  BY <1>3 DEF LoadedIsTrue
<1>4. ASSUME NEW t \in Threads, Adopts(t)
      PROVE  LoadedIsTrue'
  <2>1. At(t, "wait")
    BY <1>4 DEF Adopts, AdoptLlama, AdoptVllm
  <2>2. proc # 0 /\ (Alive(proc) => server[proc].cfg = job.cfg)
    BY <2>1 DEF WaitsForOwn
  <2>3. UNCHANGED <<backend, server, proc>> /\ loaded' = job.cfg
    BY <1>4, AdoptsKeepType
  <2>4. backend = "gpu" => Life(proc) = "healthy"
    BY <1>4 DEF Adopts, AdoptLlama, AdoptVllm, Evidence
  <2> QED
    BY <2>2, <2>3, <2>4 DEF LoadedIsTrue, Alive, Life
<1>5. ASSUME NEW t \in Threads, Request(t)
      PROVE  LoadedIsTrue'
  <2>1. CASE Walks(t)
    BY <1>2, <2>1, WalksKeepType
  <2>2. CASE Starts(t) \/ GivesUp(t)
    BY <1>3, <2>2, StartsKeepType, GivesUpKeepType DEF ServersInv
  <2> QED
    BY <1>4, <1>5, <2>1, <2>2, RequestKinds
<1>6. CASE Workload
  BY <1>2, <1>3, <1>6 DEF Workload, Call, Again, Settle, Unload, ReleasePort, CleanUp, engineVars
<1>7. CASE UNCHANGED vars
  BY <1>2, <1>7 DEF vars
<1> QED
  BY <1>1, <1>5, <1>6, <1>7 DEF Next

LEMMA EngineInit == Init => EngineInv
<1> SUFFICES ASSUME Init PROVE EngineInv
  OBVIOUS
<1> USE ThreadsAreNumbers
<1>1. \A i \in Ids : server[i].life \in {"gone", "healthy"}
  <2>1. \A c \in Configurations : [Gone EXCEPT !.cfg = c, !.life = "healthy"].life = "healthy"
    BY DEF Gone
  <2>2. Gone.life = "gone"
    BY DEF Gone
  <2> DEFINE Others == {[Gone EXCEPT !.cfg = c, !.life = "healthy"] : c \in Configurations}
  <2>3. server \in [Ids -> {Gone} \cup Others]
    BY DEF Init
  <2>4. \A r \in Others : r.life = "healthy"
    BY <2>1
  <2> HIDE DEF Others
  <2> QED
    BY <2>2, <2>3, <2>4
<1>2. \A i \in Ids \ {0} : server[i].life = "gone"
  BY <1>1 DEF Init, Life
<1>3. ServersInv
  BY <1>1, <1>2 DEF Init, ServersInv, PortIsExclusive, OwnServersAreKnown, OtherIsExternal,
                    HoldsPort, Life
<1>4. \A t \in Threads : thread[t] = Resting /\ ~At(t, "wait")
  BY DEF Init, At, Resting
<1>5. CallIsUnderWay
  BY <1>4 DEF Init, CallIsUnderWay
<1>6. WaitsForOwn /\ LoadedIsTrue /\ OverIsOver
  BY <1>4 DEF Init, WaitsForOwn, LoadedIsTrue, OverIsOver
<1> QED
  BY <1>3, <1>5, <1>6 DEF EngineInv

LEMMA EngineStep ==
    ASSUME TypeOK, EngineInv, [Next]_vars
    PROVE  EngineInv'
BY ServersStep, CallStep, OverStep, WaitsStep, LoadedStep DEF EngineInv

\* Every variable keeps its type.
THEOREM EngineTypeCorrect == Spec => []TypeOK
<1>1. Init => TypeOK /\ EngineInv
  BY EngineTypeInit, EngineInit
<1>2. TypeOK /\ EngineInv /\ [Next]_vars => TypeOK' /\ EngineInv'
  BY EngineTypeStep, EngineStep
<1> QED
  BY <1>1, <1>2, PTL DEF Spec

LEMMA EngineIsInvariant == Spec => []EngineInv
<1>1. Init => EngineInv
  BY EngineInit
<1>2. TypeOK /\ EngineInv /\ [Next]_vars => EngineInv'
  BY EngineStep
<1> QED
  BY <1>1, <1>2, EngineTypeCorrect, PTL DEF Spec

\* No server that the run started is left running after it, whatever crashed and
\* wherever the run was interrupted.
THEOREM NoServerSurvives == Spec => []NoServerOutlivesTheRun
<1>1. EngineInv => NoServerOutlivesTheRun
  BY DEF EngineInv, OverIsOver, ServersInv, OwnServersAreKnown, NoServerOutlivesTheRun
<1> QED
  BY <1>1, EngineIsInvariant, PTL

-------------------------------------------------------------------------------
(***************************************************************************)
(* Who asks is served as asked.                                            *)
(***************************************************************************)

\* A server of the engine that is adopted, or was, keeps others from the port.
LEMMA OtherIsGone ==
    ASSUME TypeOK, StrangersAreTold, ServersInv,
           backend = "gpu" => proc # 0 /\ Life(proc) \in {"healthy", "dying"}
    PROVE  Life(0) = "gone"
<1> USE ThreadsAreNumbers
<1>1. CASE backend # "gpu"
  BY <1>1 DEF StrangersAreTold, ServersInv, OtherIsExternal
<1>2. CASE backend = "gpu"
  <2>1. proc \in Ids /\ proc # 0 /\ HoldsPort(proc)
    BY <1>2 DEF TypeOK, HoldsPort
  <2>2. ~HoldsPort(0)
    BY <2>1 DEF ServersInv, PortIsExclusive
  <2> QED
    BY <2>2 DEF ServersInv, OtherIsExternal, HoldsPort
<1> QED
  BY <1>1, <1>2

LEMMA ReadyIsOwn ==
    ASSUME TypeOK, StrangersAreTold, EngineInv, job.cfg \in Configurations, Ready
    PROVE  Life(0) = "gone" /\ server[proc].cfg = job.cfg
<1>1. loaded = job.cfg /\ loaded # Nothing /\ Alive(proc)
  BY ThreadsAreNumbers DEF Ready
<1>2. backend = "gpu" => proc # 0 /\ Life(proc) \in {"healthy", "dying"}
  BY <1>1 DEF EngineInv, LoadedIsTrue, Alive
<1> QED
  BY <1>1, <1>2, OtherIsGone DEF EngineInv, LoadedIsTrue

LEMMA AdoptedIsOwn ==
    ASSUME TypeOK, StrangersAreTold, EngineInv, NEW t \in Threads, Adopts(t)
    PROVE  Life(0) = "gone" /\ (Alive(proc) => server[proc].cfg = job.cfg)
<1>1. At(t, "wait")
  BY DEF Adopts, AdoptLlama, AdoptVllm
<1>2. proc # 0 /\ (Alive(proc) => server[proc].cfg = job.cfg)
  BY <1>1 DEF EngineInv, WaitsForOwn
<1>3. backend = "gpu" => Life(proc) = "healthy"
  BY DEF Adopts, AdoptLlama, AdoptVllm, Evidence
<1> QED
  BY <1>2, <1>3, OtherIsGone DEF EngineInv

\* Of the servers that may answer only the engine's own is left.
LEMMA OnlyOwnAnswers ==
    ASSUME TypeOK, ServersInv, Life(0) = "gone", NEW i \in Ids, MayAnswer(i)
    PROVE  i = proc /\ i # 0 /\ Alive(proc)
BY ThreadsAreNumbers DEF ServersInv, OwnServersAreKnown, MayAnswer, Alive

LEMMA WalksServed ==
    ASSUME TypeOK, StrangersAreTold, EngineInv, SentToOwn, NEW t \in Threads, Walks(t)
    PROVE  SentToOwn'
<1> USE ServersAreTyped, ThreadsAreNumbers
<1>1. /\ UNCHANGED <<backend, server, proc, loaded, offload, job, main>>
      /\ \A u \in Threads \ {t} : thread'[u] = thread[u]
  BY WalksKeepType
<1>2. ~At(t, "idle")
  BY DEF Walks, Check, LockAndCheck, RefuseOffload, Send, Answer, LoadFailsLlama, LoadFailsVllm, At
<1>3. job.cfg \in Configurations
  BY <1>2, WorkingIsCalling DEF EngineInv
<1>4. ASSUME thread'[t].pc = "send"
      PROVE  Life(0) = "gone" /\ (Alive(proc) => server[proc].cfg = job.cfg)
  <2>1. Ready
    <3>1. CASE Check(t) \/ LockAndCheck(t)
      <4>1. CASE Ready
        BY <4>1
      <4>2. CASE ~Ready
        <5>1. Goto(t, "lock")
          BY <3>1, <4>2 DEF Check, LockAndCheck
        <5>2. thread'[t].pc = "lock"
          BY <5>1 DEF Goto, Requests
        <5> QED
          BY <1>4, <5>2
      <4> QED
        BY <4>1, <4>2
    <3>2. CASE RefuseOffload(t) \/ LoadFailsLlama(t) \/ LoadFailsVllm(t)
      <4>1. thread'[t].pc = "error"
        BY <3>2 DEF RefuseOffload, LoadFailsLlama, LoadFailsVllm, Goto, Raise, Requests, Resting
      <4> QED
        BY <1>4, <4>1
    <3>3. CASE Send(t) \/ Answer(t)
      <4>1. thread'[t].pc # "send"
        BY <3>3 DEF Send, Answer, Goto, Requests
      <4> QED
        BY <1>4, <4>1
    <3> QED
      BY <3>1, <3>2, <3>3 DEF Walks
  <2> QED
    BY <1>3, <2>1, ReadyIsOwn
<1>5. ASSUME thread'[t].pc \in {"asked", "ok"}, job.kind # "prepare"
      PROVE  thread'[t].from = job.cfg
  <2>1. CASE Send(t)
    <3>1. At(t, "send") /\ Life(0) = "gone" /\ (Alive(proc) => server[proc].cfg = job.cfg)
      BY <2>1 DEF Send, SentToOwn
    <3>2. ~Goto(t, "crash")
      BY <1>5 DEF Goto, Requests
    <3>3. PICK i \in Ids : MayAnswer(i) /\
             thread' = [thread EXCEPT ![t] = [@ EXCEPT !.pc = "asked", !.by = i,
                                                               !.from = server[i].cfg]]
      BY <2>1, <3>2 DEF Send
    <3>4. thread'[t].from = server[i].cfg
      BY <3>3 DEF Requests
    <3>5. i = proc /\ Alive(proc)
      BY <3>1, <3>3, OnlyOwnAnswers DEF EngineInv
    <3> QED
      BY <3>1, <3>4, <3>5
  <2>2. CASE Answer(t)
    <3>1. At(t, "asked") /\ \E pc \in {"ok", "error", "crash"} : Goto(t, pc)
      BY <2>2 DEF Answer
    <3>2. thread'[t].from = thread[t].from
      BY <3>1 DEF Goto, Requests
    <3> QED
      BY <1>5, <3>1, <3>2 DEF SentToOwn, At
  <2>3. CASE Check(t) \/ LockAndCheck(t)
    <3>1. Goto(t, "send") \/ Goto(t, "lock")
      BY <1>5, <2>3 DEF Check, LockAndCheck, Served
    <3>2. thread'[t].pc \in {"send", "lock"}
      BY <3>1 DEF Goto, Requests
    <3> QED
      BY <1>5, <3>2
  <2>4. CASE RefuseOffload(t) \/ LoadFailsLlama(t) \/ LoadFailsVllm(t)
    <3>1. thread'[t].pc = "error"
      BY <2>4 DEF RefuseOffload, LoadFailsLlama, LoadFailsVllm, Goto, Raise, Requests, Resting
    <3> QED
      BY <1>5, <3>1
  <2> QED
    BY <2>1, <2>2, <2>3, <2>4 DEF Walks
<1> QED
  BY <1>1, <1>4, <1>5 DEF SentToOwn, At, Alive, Life

LEMMA SentStep ==
    ASSUME TypeOK, StrangersAreTold, EngineInv, SentToOwn, [Next]_vars
    PROVE  SentToOwn'
<1> USE ServersAreTyped, ThreadsAreNumbers
<1>1. CASE Environment
  <2>1. /\ UNCHANGED <<proc, thread, job>>
        /\ \A i \in Ids \ {0} :
              server'[i].life = "gone"
              \/ (server[i].life # "gone" /\ server'[i].cfg = server[i].cfg)
        /\ main = "calling" /\ server[0].life = "gone" => server'[0].life = "gone"
    BY <1>1, EnvironmentKeeps DEF EngineInv
  <2>2. proc \in Ids /\ \A t \in Threads : At(t, "send") => main = "calling"
    BY WorkingIsCalling DEF TypeOK, EngineInv, At
  <2>3. ASSUME NEW t \in Threads, At(t, "send")
        PROVE  Life(0)' = "gone" /\ (Alive(proc)' => server'[proc'].cfg = job'.cfg)
    <3>1. Life(0) = "gone" /\ (Alive(proc) => server[proc].cfg = job.cfg)
      BY <2>3 DEF SentToOwn
    <3> QED
      BY <2>1, <2>2, <2>3, <3>1 DEF Alive, Life
  <2> QED
    BY <2>1, <2>3 DEF SentToOwn, At
<1>2. CASE UNCHANGED <<server, proc, thread, job>>
  BY <1>2 DEF SentToOwn, At, Alive, Life
<1>3. ASSUME NEW t \in Threads, Walks(t)
      PROVE  SentToOwn'
  BY <1>3, WalksServed
<1>4. ASSUME server'[0] = server[0] \/ server'[0] = Swept(server)[0], Life(0) = "gone"
      PROVE  Life(0)' = "gone"
  BY <1>4 DEF Life, Swept
<1>5. ASSUME NEW t \in Threads, Starts(t)
      PROVE  SentToOwn'
  <2>1. /\ server'[0] = server[0] \/ server'[0] = Swept(server)[0]
        /\ server'[proc'].cfg = job.cfg /\ job' = job
        /\ thread'[t].pc = "wait" /\ \A u \in Threads \ {t} : thread'[u] = thread[u]
    BY <1>5, StartsKeepType DEF EngineInv, ServersInv
  <2> QED
    BY <1>4, <2>1 DEF SentToOwn, At
<1>6. ASSUME NEW t \in Threads, GivesUp(t)
      PROVE  SentToOwn'
  <2>1. /\ server' \in Stopped(server) /\ proc' = 0 /\ job' = job
        /\ thread'[t].pc = "error" /\ \A u \in Threads \ {t} : thread'[u] = thread[u]
    BY <1>6, GivesUpKeepType DEF EngineInv, ServersInv
  <2>2. server'[0] = server[0] \/ server'[0] = Swept(server)[0]
    BY <2>1, StopFades DEF EngineInv, ServersInv
  <2> QED
    BY <1>4, <2>1, <2>2 DEF SentToOwn, At, Alive
<1>7. ASSUME NEW t \in Threads, Adopts(t)
      PROVE  SentToOwn'
  <2>1. /\ UNCHANGED <<server, proc, job>> /\ thread'[t].pc = Served
        /\ \A u \in Threads \ {t} : thread'[u] = thread[u]
    BY <1>7, AdoptsKeepType DEF EngineInv
  <2>2. Life(0) = "gone" /\ (Alive(proc) => server[proc].cfg = job.cfg)
    BY <1>7, AdoptedIsOwn
  <2>3. thread'[t].pc # "asked" /\ (thread'[t].pc = "ok" => job.kind = "prepare")
    BY <2>1 DEF Served
  <2> QED
    BY <2>1, <2>2, <2>3 DEF SentToOwn, At, Alive, Life
<1>8. CASE Workload
  <2>1. \A t \in Threads : thread'[t].pc \in {"idle", "check"}
    <3>1. Resting.pc = "idle" /\ \A t \in Threads : thread[t] = Resting => thread[t].pc = "idle"
      BY DEF Resting
    <3>2. CASE AskAll
      BY <3>2, AskAllAsks
    <3>3. CASE thread' = [t \in Threads |-> Resting]
      BY <3>1, <3>3
    <3>4. CASE main # "calling" /\ thread' = thread
      BY <3>1, <3>4 DEF EngineInv, CallIsUnderWay
    <3> QED
      BY <1>8, <3>2, <3>3, <3>4 DEF Workload, Call, Again, Settle, Unload, ReleasePort, CleanUp
  <2> QED
    BY <2>1 DEF SentToOwn, At
<1>9. CASE UNCHANGED vars
  BY <1>2, <1>9 DEF vars
<1> QED
  BY <1>1, <1>3, <1>5, <1>6, <1>7, <1>8, <1>9, RequestKinds DEF Next

LEMMA SentIsInvariant ==
    ASSUME StrangersAreTold
    PROVE  Spec => []SentToOwn
<1>1. ASSUME Init
      PROVE  SentToOwn
  <2>1. Resting.pc = "idle"
    BY DEF Resting
  <2>2. \A t \in Threads : thread[t] = Resting
    BY <1>1 DEF Init
  <2> QED
    BY <2>1, <2>2 DEF SentToOwn, At
<1>2. TypeOK /\ EngineInv /\ SentToOwn /\ [Next]_vars => SentToOwn'
  BY SentStep
<1> QED
  BY <1>1, <1>2, EngineTypeCorrect, EngineIsInvariant, PTL DEF Spec

\* Where no stranger is adopted, every answer comes from a server with the
\* configuration that was asked for, and what the engine believes loaded is.
THEOREM AnswersAreAsAsked ==
    ASSUME StrangersAreTold
    PROVE  Spec => []ServedAsAsked
<1>1. ASSUME TypeOK, EngineInv, SentToOwn
      PROVE  ServedAsAsked
  <2> USE <1>1, ThreadsAreNumbers
  <2>1. ASSUME NEW t \in Threads, At(t, "ok"), job.kind # "prepare"
        PROVE  thread[t].from = job.cfg
    BY <2>1 DEF SentToOwn, At
  <2>2. ASSUME loaded # Nothing, Alive(proc), NEW i \in Ids, Life(i) = "healthy"
        PROVE  Life(proc) = "healthy" /\ server[proc].cfg = loaded
    <3>1. server[proc].cfg = loaded /\ proc # 0 /\ Life(proc) # "gone"
      BY <2>2 DEF EngineInv, LoadedIsTrue, Alive
    <3>2. backend = "gpu" => Life(proc) \in {"healthy", "dying"}
      BY <2>2, <3>1 DEF EngineInv, LoadedIsTrue
    <3>3. Life(0) = "gone"
      BY <3>1, <3>2, OtherIsGone DEF EngineInv
    <3>4. i = proc
      BY <2>2, <3>3, OnlyOwnAnswers DEF EngineInv, MayAnswer
    <3> QED
      BY <2>2, <3>1, <3>4
  <2> QED
    BY <2>1, <2>2 DEF ServedAsAsked, MustAnswer
<1>2. TypeOK /\ EngineInv /\ SentToOwn => ServedAsAsked
  BY <1>1
<1> QED
  BY <1>2, EngineTypeCorrect, EngineIsInvariant, SentIsInvariant, PTL

\* An offload is remembered, and only grows, when a server of the model has just
\* loaded with it.
THEOREM RememberedOffloadsWereEnough ==
    ASSUME StrangersAreTold
    PROVE  Spec => OffloadWasEnough
<1>1. ASSUME TypeOK, EngineInv, [Next]_vars
      PROVE  \A m \in Models : offload'[m] # offload[m] =>
                /\ offload'[m] > offload[m]
                /\ \E i \in Ids : /\ MayAnswer(i) /\ server[i].cfg.model = m
                                 /\ server[i].offload = offload'[m]
  <2> USE <1>1, ServersAreTyped, ThreadsAreNumbers
  <2>1. ASSUME NEW t \in Threads, AdoptVllm(t)
        PROVE  \A m \in Models : offload'[m] # offload[m] =>
                /\ offload'[m] > offload[m]
                /\ \E i \in Ids : /\ MayAnswer(i) /\ server[i].cfg.model = m
                                 /\ server[i].offload = offload'[m]
    <3> SUFFICES ASSUME NEW m \in Models, offload'[m] # offload[m]
                 PROVE  /\ offload'[m] > offload[m]
                        /\ \E i \in Ids : /\ MayAnswer(i) /\ server[i].cfg.model = m
                                         /\ server[i].offload = offload'[m]
      OBVIOUS
    <3>1. At(t, "wait") /\ backend = "vllm" /\ \E i \in Ids : MayAnswer(i)
      BY <2>1 DEF AdoptVllm
    <3>2. /\ offload' = [offload EXCEPT ![job.cfg.model] = thread[t].gb]
          /\ offload \in [Models -> Nat] /\ thread[t].gb \in Nat
      BY <2>1 DEF AdoptVllm, TypeOK, Requests
    <3>3. m = job.cfg.model /\ offload'[m] = thread[t].gb
      BY <3>2
    <3>4. offload[job.cfg.model] <= thread[t].gb
      BY <3>1 DEF EngineInv, WaitsForOwn
    <3>5. Life(0) = "gone"
      BY <2>1, AdoptedIsOwn DEF Adopts
    <3>6. PICK i \in Ids : MayAnswer(i)
      BY <3>1
    <3>7. i = proc /\ Alive(proc)
      BY <3>5, <3>6, OnlyOwnAnswers DEF EngineInv
    <3>8. server[i].cfg = job.cfg /\ server[i].offload = thread[t].gb
      BY <3>1, <3>7 DEF EngineInv, WaitsForOwn
    <3>9. offload[m] \in Nat /\ offload'[m] \in Nat
      BY <3>2
    <3> QED
      BY <3>3, <3>4, <3>6, <3>8, <3>9
  <2>2. CASE offload' = offload
    BY <2>2
  <2>3. offload' = offload \/ \E t \in Threads : AdoptVllm(t)
    <3>1. CASE Environment
      BY <3>1, EnvironmentKeeps DEF EngineInv
    <3>2. ASSUME NEW t \in Threads, Request(t)
          PROVE  offload' = offload \/ AdoptVllm(t)
      BY <3>2, RequestKinds, WalksKeepType, StartsKeepType, GivesUpKeepType
         DEF Adopts, AdoptLlama, EngineInv, ServersInv
    <3>3. CASE Workload \/ UNCHANGED vars
      BY <3>3 DEF Workload, Call, Again, Settle, Unload, ReleasePort, CleanUp, engineVars, vars
    <3> QED
      BY <3>1, <3>2, <3>3 DEF Next
  <2> QED
    BY <2>1, <2>2, <2>3
<1>2. TypeOK /\ EngineInv /\ [Next]_vars =>
        [\A m \in Models : offload'[m] # offload[m] =>
           /\ offload'[m] > offload[m]
           /\ \E i \in Ids : /\ MayAnswer(i) /\ server[i].cfg.model = m
                            /\ server[i].offload = offload'[m]]_vars
  BY <1>1
<1> QED
  BY <1>2, EngineTypeCorrect, EngineIsInvariant, PTL DEF Spec, OffloadWasEnough
===============================================================================
