------------------------- MODULE ResumeIdentityProofs -------------------------
(***************************************************************************)
(* What a recovery measures with is what the journal identifies, for every *)
(* number of models, jobs, processes, stages and changes of files.         *)
(***************************************************************************)
EXTENDS ResumeIdentity, TLAPS

\* A stamp that was read is not later than the file's.
StampsAreBehind ==
    /\ \A i \in Items : file[i].stamp >= 1 /\ cache[i].stamp <= file[i].stamp
    /\ \A p \in Procs, i \in Items : proc[p].copy[i].stamp <= file[i].stamp
    /\ \A p \in Procs : proc[p].pc \in {"hash", "enter"} =>
            proc[p].stat <= file[proc[p].item].stamp

\* What the cache promises holds of the copies as well, and of the digest
\* about to be entered.
CopiesAreTrue ==
    /\ \A p \in Procs, i \in Items :
            proc[p].copy[i].stamp = file[i].stamp => proc[p].copy[i].digest = file[i].bytes
    /\ \A p \in Procs : proc[p].pc = "enter" /\ proc[p].stat = file[proc[p].item].stamp =>
            proc[p].identity[proc[p].item] = file[proc[p].item].bytes

AtWork == \A p \in Procs : proc[p].pc # "idle" => proc[p].job \in Jobs

OneWorker ==
    \A p, q \in Procs :
        proc[p].pc # "idle" /\ proc[q].pc # "idle" /\ proc[p].job = proc[q].job => p = q

Recovers(r) == r.mode \in {"resume", "retry"}

\* While its job is undisturbed, a process has taken the identities of the
\* files as they are; a new job is unborn until then.
Identifies(r) ==
    r.pc \in {"identify", "hash", "enter"} =>
        /\ Recovers(r) => job[r.job].state # "none" /\ r.todo \subseteq {Runtime}
        /\ ~Recovers(r) => job[r.job].state = "none"
        /\ \A i \in r.todo : r.identity[i] = Absent
        /\ r.pc \in {"hash", "enter"} => r.item \notin r.todo
        /\ r.job \notin disturbed =>
            /\ r.pc \in {"hash", "enter"} => r.stat = file[r.item].stamp
            /\ \A i \in Items \ r.todo :
                 (Recovers(r) => i = Runtime) /\ ~(r.pc = "hash" /\ i = r.item)
                    => r.identity[i] = file[i].bytes

\* A process at work on a job has the identity in its journal, and one that
\* recovers leaves a mark there.
Works(r) ==
    r.pc \in {"stages", "runner", "load", "measure"} =>
        /\ r.mode # "run"
        /\ r.pc # "stages" \/ Recovers(r) => job[r.job].state # "none"
        /\ job[r.job].state # "none" => job[r.job].identity = r.identity
        /\ r.mode = "resume" \/ (r.mode = "retry" /\ r.pc # "stages")
             => job[r.job].marks # {}
        /\ r.mode = "retry" /\ r.pc = "stages" =>
             /\ r.stage + 1 \in Stages
             /\ job[r.job].stages[r.stage + 1] \notin {"pending", "complete"}

\* While its job is undisturbed, what it uses is what that identity says.
Matches(r) ==
    r.pc \in {"stages", "runner", "load", "measure"} /\ r.job \notin disturbed =>
        /\ r.identity[Runtime] = file[Runtime].bytes
        /\ \A m \in Models : ~Recovers(r) \/ (r.pc # "stages" /\ m \in r.verified)
                                \/ (r.pc = "load" /\ m = r.item)
                => r.identity[m] = file[m].bytes
        /\ r.pc = "measure" => /\ r.loaded.weights = r.identity[r.loaded.model]
                               /\ r.loaded.runtime = r.identity[Runtime]

RecordInv(r) == Identifies(r) /\ Works(r) /\ Matches(r)

UnbornIsEmpty == \A j \in Jobs : job[j].state = "none" => job[j].samples = {}

CacheInv == TypeOK /\ AtWork /\ StampsAreBehind /\ CopiesAreTrue /\ CacheEntriesAreTrue

IInv ==
    /\ OneWorker
    /\ UnbornIsEmpty
    /\ \A p \in Procs : RecordInv(proc[p])
    /\ MeasuredAsIdentified
-------------------------------------------------------------------------------
USE IdentityAssumption DEF Items, Stages, Contents, JobMark

LEMMA TypeStarts == Init => TypeOK
<1> SUFFICES ASSUME Init PROVE TypeOK
  OBVIOUS
<1>1. NoIdentity \in Identities /\ NoEntry \in Entries /\ NothingLoaded \in Uses
  BY DEF NoIdentity, Identities, NoEntry, Entries, NothingLoaded, Uses
<1>2. Unborn \in Journals
  BY <1>1 DEF Unborn, Journals
<1>3. Idle \in Processes
  BY <1>1 DEF Idle, Processes
<1> QED
  BY <1>1, <1>2, <1>3 DEF Init, TypeOK

LEMMA InitialRecords ==
    /\ NoIdentity \in Identities /\ NoEntry \in Entries /\ NothingLoaded \in Uses
    /\ Idle \in Processes
<1>1. NoIdentity \in Identities /\ NoEntry \in Entries /\ NothingLoaded \in Uses
  BY DEF NoIdentity, Identities, NoEntry, Entries, NothingLoaded, Uses
<1> QED
  BY <1>1 DEF Idle, Processes

\* A process record of its type keeps it when a step gives fields of it other
\* values of their types.
LEMMA Updated ==
    ASSUME NEW p \in Procs, proc \in [Procs -> Processes], NEW r \in Processes, Update(p, r)
    PROVE  proc' \in [Procs -> Processes]
BY DEF Update

LEMMA ProcessTypes ==
    ASSUME TypeOK, AtWork, NEW p \in Procs, Step(p)
    PROVE  proc' \in [Procs -> Processes]
<1> DEFINE r == proc[p]
<1>0. r \in Processes /\ proc \in [Procs -> Processes] /\ cache \in [Items -> Entries]
      /\ file \in [Items -> [bytes : Contents, stamp : Nat]] /\ job \in [Jobs -> Journals]
  BY DEF TypeOK
<1>1. CASE BeginRun(p) \/ BeginRecovery(p)
  <2>1. PICK mode \in {"run", "fork", "resume", "retry"}, j \in Jobs, items \in SUBSET Items :
            Begin(p, mode, j, items)
    <3>1. CASE BeginRun(p)
      <4>1. Items \in SUBSET Items
        OBVIOUS
      <4> QED
        BY <3>1, <4>1 DEF BeginRun
    <3>2. CASE BeginRecovery(p)
      <4>1. {Runtime} \in SUBSET Items
        OBVIOUS
      <4> QED
        BY <3>2, <4>1 DEF BeginRecovery
    <3> QED
      BY <1>1, <3>1, <3>2
  <2>2. [Idle EXCEPT !.pc = "identify", !.mode = mode, !.job = j, !.todo = items,
                     !.copy = IF mode = "run" THEN cache ELSE @] \in Processes
    <3>1. Idle.copy \in [Items -> Entries]
      BY InitialRecords DEF Processes
    <3>2. (IF mode = "run" THEN cache ELSE Idle.copy) \in [Items -> Entries]
      BY <1>0, <3>1
    <3> QED
      BY <3>2, InitialRecords DEF Processes
  <2> QED
    BY <1>0, <2>1, <2>2, Updated DEF Begin
<1>2. CASE Stat(p)
  <2>1. PICK i \in r.todo :
          LET s == [proc[p] EXCEPT !.todo = @ \ {i}]
          IN  Update(p, CASE file[i].bytes = Absent -> s
                            [] Cached(p) /\ proc[p].copy[i].stamp = file[i].stamp ->
                                   [s EXCEPT !.identity[i] = proc[p].copy[i].digest]
                            [] OTHER -> [s EXCEPT !.pc = "hash", !.item = i,
                                                  !.stat = file[i].stamp])
    BY <1>2 DEF Stat
  <2> DEFINE s == [proc[p] EXCEPT !.todo = @ \ {i}]
  <2>2. i \in Items
    BY <1>0 DEF Processes
  <2>3. s \in Processes
    BY <1>0 DEF Processes
  <2>4. [s EXCEPT !.identity[i] = proc[p].copy[i].digest] \in Processes
    <3>1. s.identity \in Identities /\ r.copy[i].digest \in Contents
      BY <1>0, <2>2, <2>3 DEF Processes, Entries
    <3>2. [s.identity EXCEPT ![i] = r.copy[i].digest] \in Identities
      BY <3>1 DEF Identities
    <3> HIDE DEF s
    <3> QED
      BY <2>3, <3>2 DEF Processes
  <2>5. [s EXCEPT !.pc = "hash", !.item = i, !.stat = file[i].stamp] \in Processes
    <3> HIDE DEF s
    <3> QED
      BY <1>0, <2>2, <2>3 DEF Processes
  <2> HIDE DEF s
  <2> QED
    BY <1>0, <2>1, <2>3, <2>4, <2>5, Updated DEF s
<1>3. CASE Hash(p)
  <2>1. CASE Update(p, Idle)
    BY <1>0, <2>1, InitialRecords, Updated
  <2>2. CASE \E b \in Bytes : Update(p, [proc[p] EXCEPT !.pc = "enter", !.identity[r.item] = b])
    <3>1. PICK b \in Bytes : Update(p, [proc[p] EXCEPT !.pc = "enter", !.identity[r.item] = b])
      BY <2>2
    <3>2. [proc[p] EXCEPT !.pc = "enter", !.identity[r.item] = b] \in Processes
      BY <1>0 DEF Processes, Identities
    <3> QED
      BY <1>0, <3>1, <3>2, Updated
  <2>3. file[r.item].bytes \in Contents
    BY <1>0 DEF Processes
  <2> QED
    BY <1>3, <2>1, <2>2, <2>3 DEF Hash
<1>4. CASE Enter(p)
  <2> DEFINE e == IF Cached(p) THEN [r.copy EXCEPT ![r.item] = Entry(r.item, r.identity[r.item], r.stat)]
                  ELSE r.copy
  <2>1. [r.copy EXCEPT ![r.item] = Entry(r.item, r.identity[r.item], r.stat)] \in [Items -> Entries]
    BY <1>0 DEF Processes, Entries, Entry, Identities
  <2>2. [proc[p] EXCEPT
           !.pc = "identify", !.item = Runtime, !.stat = 0,
           !.copy[r.item] = IF Cached(p) THEN Entry(r.item, proc[p].identity[r.item], proc[p].stat)
                            ELSE @] \in Processes
    BY <1>0, <2>1 DEF Processes
  <2> QED
    BY <1>0, <1>4, <2>2, Updated DEF Enter
<1>5. CASE IdentifiedRun(p)
  <2>1. [proc[p] EXCEPT !.pc = "stages", !.mode = "rerun", !.copy = Idle.copy] \in Processes
    BY <1>0, InitialRecords DEF Processes
  <2>2. [proc[p] EXCEPT !.mode = "rerun", !.todo = Items, !.copy = proc[p].copy,
                                       !.identity = NoIdentity] \in Processes
    BY <1>0, InitialRecords DEF Processes
  <2> QED
    BY <1>0, <1>5, <2>1, <2>2, Updated DEF IdentifiedRun
<1>6. CASE IdentifiedFork(p)
  <2>1. [proc[p] EXCEPT !.pc = "stages"] \in Processes
    BY <1>0 DEF Processes
  <2> QED
    BY <1>0, <1>6, <2>1, Updated DEF IdentifiedFork
<1>7. CASE IdentifiedRecovery(p)
  <2> DEFINE identity == [job[r.job].identity EXCEPT ![Runtime] = r.identity[Runtime]]
  <2>1. r.job \in Jobs
    BY <1>7 DEF IdentifiedRecovery, Identified, AtWork
  <2>2. identity \in Identities
    BY <1>0, <2>1 DEF Journals, Processes, Identities
  <2>3. \/ Update(p, Idle)
        \/ Update(p, [proc[p] EXCEPT !.pc = "stages", !.identity = identity])
        \/ \E s \in Stages : Update(p, [proc[p] EXCEPT !.pc = "stages", !.identity = identity,
                                                       !.stage = s - 1])
    BY <1>7 DEF IdentifiedRecovery
  <2> HIDE DEF identity
  <2>4. [proc[p] EXCEPT !.pc = "stages", !.identity = identity] \in Processes
    BY <1>0, <2>2 DEF Processes
  <2>5. ASSUME NEW s \in Stages
        PROVE  [proc[p] EXCEPT !.pc = "stages", !.identity = identity, !.stage = s - 1] \in Processes
    <3>1. s - 1 \in Stages \cup {0}
      OBVIOUS
    <3> QED
      BY <1>0, <2>2, <3>1 DEF Processes
  <2> QED
    BY <1>0, <2>3, <2>4, <2>5, InitialRecords, Updated
<1>8. CASE StartStage(p)
  <2>1. PICK s \in Stages :
          Update(p, [proc[p] EXCEPT !.pc = "runner", !.stage = s, !.left = Models,
                                    !.verified = {}, !.loaded = NothingLoaded])
    BY <1>8 DEF StartStage
  <2>2. [proc[p] EXCEPT !.pc = "runner", !.stage = s, !.left = Models,
                        !.verified = {}, !.loaded = NothingLoaded] \in Processes
    BY <1>0, InitialRecords DEF Processes
  <2> QED
    BY <1>0, <2>1, <2>2, Updated
<1>9. CASE TakeModel(p)
  <2>1. PICK m \in r.left :
          \/ Update(p, [proc[p] EXCEPT !.left = @ \ {m}])
          \/ Update(p, [proc[p] EXCEPT !.pc = "load", !.item = m,
                                       !.verified = @ \cup {m}])
          \/ Update(p, [proc[p] EXCEPT !.pc = "load", !.item = m, !.verified = @])
    BY <1>9 DEF TakeModel
  <2>2. /\ [proc[p] EXCEPT !.left = @ \ {m}] \in Processes
        /\ [proc[p] EXCEPT !.pc = "load", !.item = m, !.verified = @ \cup {m}] \in Processes
        /\ [proc[p] EXCEPT !.pc = "load", !.item = m, !.verified = @] \in Processes
    BY <1>0 DEF Processes
  <2> QED
    BY <1>0, <2>1, <2>2, Updated
<1>10. CASE Load(p)
  <2>1. [proc[p] EXCEPT !.pc = "runner", !.item = Runtime, !.left = @ \ {r.item}] \in Processes
    BY <1>0 DEF Processes
  <2>2. [model |-> r.item, weights |-> file[r.item].bytes, runtime |-> file[Runtime].bytes] \in Uses
    BY <1>0 DEF Processes, Uses
  <2>3. [proc[p] EXCEPT !.pc = "measure",
           !.loaded = [model |-> r.item, weights |-> file[r.item].bytes,
                       runtime |-> file[Runtime].bytes]] \in Processes
    BY <1>0, <2>2 DEF Processes
  <2> QED
    BY <1>0, <1>10, <2>1, <2>3, Updated DEF Load
<1>11. CASE Measure(p)
  <2>1. PICK more \in BOOLEAN :
          Update(p, [proc[p] EXCEPT !.pc = "runner", !.loaded = NothingLoaded, !.item = Runtime,
                                    !.left = IF more THEN @ ELSE @ \ {proc[p].item}])
    BY <1>11 DEF Measure
  <2>2. [proc[p] EXCEPT !.pc = "runner", !.loaded = NothingLoaded, !.item = Runtime,
                        !.left = IF more THEN @ ELSE @ \ {proc[p].item}] \in Processes
    BY <1>0, InitialRecords DEF Processes
  <2> QED
    BY <1>0, <2>1, <2>2, Updated
<1>12. CASE EndStage(p) \/ Stop(p)
  <2>1. Idle \in Processes /\ [proc[p] EXCEPT !.pc = "stages"] \in Processes
    BY <1>0, InitialRecords DEF Processes
  <2> QED
    BY <1>0, <1>12, <2>1, Updated DEF EndStage, Stop
<1> QED
  BY <1>1, <1>2, <1>3, <1>4, <1>5, <1>6, <1>7, <1>8, <1>9, <1>10, <1>11, <1>12 DEF Step

LEMMA StartedType ==
    ASSUME NEW a \in Journals, NEW s \in Stages, NEW identity \in Identities
    PROVE  Started(a, s, identity) \in Journals
<1> DEFINE stages == [a.stages EXCEPT ![s] = "running"]
           marks == IF a.stages[s] = "pending" THEN a.marks ELSE a.marks \cup {s, JobMark}
           identity2 == IF a.state = "none" THEN identity ELSE a.identity
<1>1. identity2 \in Identities
  BY DEF Journals
<1>2. stages \in [Stages -> {"pending", "running", "complete"}]
  BY DEF Journals
<1>3. marks \in SUBSET (Stages \cup {JobMark})
  BY DEF Journals
<1>4. Started(a, s, identity) = [a EXCEPT !.identity = identity2, !.state = "open",
                                          !.stages = stages, !.marks = marks]
  BY DEF Started
<1> HIDE DEF stages, marks, identity2
<1> QED
  BY <1>1, <1>2, <1>3, <1>4 DEF Journals

LEMMA EndedType ==
    ASSUME NEW a \in Journals, NEW s, NEW last
    PROVE  Ended(a, s, last) \in Journals
<1> DEFINE stages == [a.stages EXCEPT ![s] = "complete"]
           state == IF last THEN "complete" ELSE a.state
<1>1. stages \in [Stages -> {"pending", "running", "complete"}]
  BY DEF Journals
<1>2. state \in {"none", "open", "complete"}
  BY DEF Journals
<1>3. Ended(a, s, last) = [a EXCEPT !.stages = stages, !.state = state]
  BY DEF Ended
<1> HIDE DEF stages, state
<1> QED
  BY <1>1, <1>2, <1>3 DEF Journals

\* What a step of a process does to the cache and the journals.
LEMMA OtherTypes ==
    ASSUME TypeOK, AtWork, NEW p \in Procs, Step(p)
    PROVE  /\ cache' \in [Items -> Entries] /\ job' \in [Jobs -> Journals]
           /\ starts' \in Nat /\ UNCHANGED <<file, disturbed>>
<1> DEFINE r == proc[p]
<1>0. /\ r \in Processes /\ cache \in [Items -> Entries] /\ job \in [Jobs -> Journals]
      /\ starts \in Nat /\ r.copy \in [Items -> Entries]
  BY DEF TypeOK, Processes
<1>1. CASE BeginRun(p) \/ BeginRecovery(p)
  <2>1. starts' = starts + 1 /\ UNCHANGED <<file, cache, job, disturbed>>
    <3>1. CASE BeginRun(p)
      BY <3>1 DEF BeginRun, Begin
    <3>2. CASE BeginRecovery(p)
      BY <3>2 DEF BeginRecovery, Begin
    <3> QED
      BY <1>1, <3>1, <3>2
  <2> QED
    BY <1>0, <2>1
<1>2. CASE Stat(p) \/ Hash(p) \/ Enter(p) \/ IdentifiedFork(p) \/ TakeModel(p) \/ Load(p) \/ Stop(p)
  BY <1>0, <1>2 DEF Stat, Hash, Enter, IdentifiedFork, TakeModel, Load, Stop
<1>3. CASE IdentifiedRun(p)
  BY <1>0, <1>3 DEF IdentifiedRun
<1>4. CASE IdentifiedRecovery(p)
  <2>1. r.job \in Jobs
    BY <1>4 DEF IdentifiedRecovery, Identified, AtWork
  <2>2. job[r.job] \in Journals
    BY <1>0, <2>1
  <2>3. [job[r.job] EXCEPT !.marks = @ \cup {JobMark}] \in Journals
    BY <2>2 DEF Journals
  <2>4. \/ UNCHANGED job
        \/ job' = [job EXCEPT ![r.job] = [job[r.job] EXCEPT !.marks = @ \cup {JobMark}]]
    BY <1>4 DEF IdentifiedRecovery
  <2>5. UNCHANGED <<file, cache, starts, disturbed>>
    BY <1>4 DEF IdentifiedRecovery
  <2> QED
    BY <1>0, <2>3, <2>4, <2>5
<1>5. CASE StartStage(p)
  <2>1. r.job \in Jobs
    BY <1>5 DEF StartStage, AtWork
  <2>2. job[r.job] \in Journals /\ r.identity \in Identities
    BY <1>0, <2>1 DEF Processes
  <2>3. PICK s \in Stages : job' = [job EXCEPT ![r.job] = Started(job[r.job], s, r.identity)]
    BY <1>5 DEF StartStage
  <2>4. Started(job[r.job], s, r.identity) \in Journals
    BY <2>2, StartedType
  <2>6. UNCHANGED <<file, cache, starts, disturbed>>
    BY <1>5 DEF StartStage
  <2> QED
    BY <1>0, <2>3, <2>4, <2>6
<1>6. CASE Measure(p)
  <2>1. r.job \in Jobs
    BY <1>6 DEF Measure, AtWork
  <2>2. [job[r.job] EXCEPT !.samples = @ \cup {r.loaded}] \in Journals
    <3>1. job[r.job] \in Journals /\ r.loaded \in Uses
      BY <1>0, <2>1 DEF Processes
    <3> QED
      BY <3>1 DEF Journals
  <2>3. job' = [job EXCEPT ![r.job] = [job[r.job] EXCEPT !.samples = @ \cup {r.loaded}]]
    BY <1>6 DEF Measure
  <2> QED
    BY <1>0, <1>6, <2>2, <2>3 DEF Measure
<1>7. CASE EndStage(p)
  <2>1. r.job \in Jobs
    BY <1>7 DEF EndStage, AtWork
  <2> DEFINE last == r.mode = "retry" \/ r.stage = MaxStage
  <2>2. job' = [job EXCEPT ![r.job] = Ended(job[r.job], r.stage, last)]
    BY <1>7 DEF EndStage
  <2> HIDE DEF last
  <2>3. Ended(job[r.job], r.stage, last) \in Journals
    BY <1>0, <2>1, EndedType
  <2> QED
    BY <1>0, <1>7, <2>2, <2>3 DEF EndStage
<1> QED
  BY <1>1, <1>2, <1>3, <1>4, <1>5, <1>6, <1>7 DEF Step
-------------------------------------------------------------------------------
\* A step of a process leaves the others alone.
LEMMA Others ==
    ASSUME TypeOK, NEW p \in Procs, Step(p), NEW q \in Procs, q # p
    PROVE  proc'[q] = proc[q]
<1>1. ASSUME NEW r, Update(p, r) PROVE proc'[q] = proc[q]
  BY <1>1 DEF Update, TypeOK
<1>2. \E r : Update(p, r)
  <2>1. CASE BeginRun(p) \/ BeginRecovery(p)
    BY <2>1 DEF BeginRun, BeginRecovery, Begin
  <2>2. CASE Stat(p) \/ Hash(p) \/ Enter(p)
    BY <2>2 DEF Stat, Hash, Enter
  <2>3. CASE IdentifiedRun(p) \/ IdentifiedFork(p) \/ IdentifiedRecovery(p)
    BY <2>3 DEF IdentifiedRun, IdentifiedFork, IdentifiedRecovery
  <2>4. CASE StartStage(p) \/ TakeModel(p) \/ Load(p)
    BY <2>4 DEF StartStage, TakeModel, Load
  <2>5. CASE Measure(p) \/ EndStage(p) \/ Stop(p)
    BY <2>5 DEF Measure, EndStage, Stop
  <2> QED
    BY <2>1, <2>2, <2>3, <2>4, <2>5 DEF Step
<1> QED
  BY <1>1, <1>2

\* Where an entry may come from, and what is known of a digest that is taken.
LEMMA EntrySteps ==
    ASSUME TypeOK, NEW p \in Procs, Step(p)
    PROVE  /\ \A i \in Items : cache'[i] \in {cache[i], proc[p].copy[i]}
           /\ \A i \in Items :
                \/ proc'[p].copy[i] \in {proc[p].copy[i], cache[i], NoEntry}
                \/ /\ proc[p].pc = "enter" /\ i = proc[p].item
                   /\ proc'[p].copy[i] = [stamp |-> proc[p].stat, digest |-> proc[p].identity[i]]
           /\ proc'[p].pc = "hash" =>
                /\ proc'[p].item \in Items
                /\ proc'[p].stat = file[proc'[p].item].stamp
           /\ proc'[p].pc = "enter" =>
                /\ proc[p].pc = "hash" /\ proc'[p].item = proc[p].item /\ proc'[p].stat = proc[p].stat
                /\ proc[p].stat = file[proc[p].item].stamp =>
                     proc'[p].identity[proc[p].item] = file[proc[p].item].bytes
<1> DEFINE r == proc[p]
<1>0. r \in Processes /\ r.item \in Items /\ cache \in [Items -> Entries]
      /\ r.copy \in [Items -> Entries] /\ r.todo \subseteq Items
      /\ r.identity \in [Items -> Contents]
  BY DEF TypeOK, Processes, Identities
<1>i. Idle.copy = [i \in Items |-> NoEntry] /\ Idle.pc = "idle" /\ Idle \in Processes
  BY InitialRecords DEF Idle
<1>u. ASSUME NEW s, Update(p, s) PROVE proc'[p] = s
  BY <1>u DEF Update, TypeOK
<1>1. CASE BeginRun(p) \/ BeginRecovery(p)
  <2>1. PICK mode, j, items :
            /\ Update(p, [Idle EXCEPT !.pc = "identify", !.mode = mode, !.job = j, !.todo = items,
                              !.copy = IF mode = "run" THEN cache ELSE @])
            /\ cache' = cache
    BY <1>1 DEF BeginRun, BeginRecovery, Begin
  <2>2. proc'[p] = [Idle EXCEPT !.pc = "identify", !.mode = mode, !.job = j, !.todo = items,
                              !.copy = IF mode = "run" THEN cache ELSE @]
    BY <2>1, <1>u
  <2>3. proc'[p].pc = "identify" /\ proc'[p].copy = IF mode = "run" THEN cache ELSE Idle.copy
    BY <1>i, <2>2 DEF Processes
  <2> QED
    BY <1>i, <2>1, <2>3
<1>2. CASE Stat(p)
  <2>1. PICK i \in r.todo :
          LET s == [proc[p] EXCEPT !.todo = @ \ {i}]
          IN  Update(p, CASE file[i].bytes = Absent -> s
                            [] Cached(p) /\ proc[p].copy[i].stamp = file[i].stamp ->
                                   [s EXCEPT !.identity[i] = proc[p].copy[i].digest]
                            [] OTHER -> [s EXCEPT !.pc = "hash", !.item = i,
                                                  !.stat = file[i].stamp])
    BY <1>2 DEF Stat
  <2>2. i \in Items /\ r.pc = "identify" /\ cache' = cache
    BY <1>0, <1>2 DEF Stat
  <2> DEFINE s == [proc[p] EXCEPT !.todo = @ \ {i}]
  <2>3. \/ proc'[p] = s
        \/ proc'[p] = [s EXCEPT !.identity[i] = proc[p].copy[i].digest]
        \/ proc'[p] = [s EXCEPT !.pc = "hash", !.item = i, !.stat = file[i].stamp]
    BY <1>u, <2>1
  <2>4. /\ s.copy = r.copy /\ s.pc = "identify"
        /\ [s EXCEPT !.identity[i] = proc[p].copy[i].digest].copy = r.copy
        /\ [s EXCEPT !.identity[i] = proc[p].copy[i].digest].pc = "identify"
        /\ [s EXCEPT !.pc = "hash", !.item = i, !.stat = file[i].stamp].copy = r.copy
        /\ [s EXCEPT !.pc = "hash", !.item = i, !.stat = file[i].stamp].pc = "hash"
        /\ [s EXCEPT !.pc = "hash", !.item = i, !.stat = file[i].stamp].item = i
        /\ [s EXCEPT !.pc = "hash", !.item = i, !.stat = file[i].stamp].stat = file[i].stamp
    BY <1>0, <2>2 DEF Processes
  <2> HIDE DEF s
  <2> QED
    BY <2>2, <2>3, <2>4
<1>3. CASE Hash(p)
  <2>1. cache' = cache /\ r.pc = "hash"
    BY <1>3 DEF Hash
  <2>2. CASE Update(p, Idle)
    BY <1>i, <1>u, <2>1, <2>2
  <2>3. CASE \E b \in IF file[r.item].stamp = r.stat THEN {file[r.item].bytes} \ {Absent} ELSE Bytes :
                Update(p, [proc[p] EXCEPT !.pc = "enter", !.identity[r.item] = b])
    <3>1. PICK b \in IF file[r.item].stamp = r.stat THEN {file[r.item].bytes} \ {Absent} ELSE Bytes :
                proc'[p] = [proc[p] EXCEPT !.pc = "enter", !.identity[r.item] = b]
      BY <1>u, <2>3
    <3>2. /\ proc'[p].copy = r.copy /\ proc'[p].pc = "enter" /\ proc'[p].item = r.item
          /\ proc'[p].stat = r.stat /\ proc'[p].identity[r.item] = b
      BY <1>0, <3>1 DEF Processes
    <3> QED
      BY <2>1, <3>1, <3>2
  <2> QED
    BY <1>3, <2>2, <2>3 DEF Hash
<1>4. CASE Enter(p)
  <2> DEFINE e == IF Cached(p) THEN Entry(r.item, r.identity[r.item], r.stat) ELSE r.copy[r.item]
  <2>1. proc'[p] = [proc[p] EXCEPT !.pc = "identify", !.item = Runtime, !.stat = 0,
                                   !.copy[r.item] = e]
    BY <1>4, <1>u DEF Enter
  <2>2. proc'[p].pc = "identify" /\ proc'[p].copy = [r.copy EXCEPT ![r.item] = e]
    BY <1>0, <2>1 DEF Processes
  <2>3. cache' = cache /\ r.pc = "enter"
    BY <1>4 DEF Enter
  <2>4. e \in {r.copy[r.item], [stamp |-> r.stat, digest |-> r.identity[r.item]]}
    BY DEF Entry
  <2> HIDE DEF e
  <2> QED
    BY <1>0, <2>2, <2>3, <2>4
<1>5. CASE IdentifiedRun(p)
  <2>1. cache' = r.copy
    BY <1>5 DEF IdentifiedRun
  <2>2. \/ proc'[p] = [proc[p] EXCEPT !.pc = "stages", !.mode = "rerun", !.copy = Idle.copy]
        \/ proc'[p] = [proc[p] EXCEPT !.mode = "rerun", !.todo = Items, !.copy = cache',
                                       !.identity = NoIdentity]
    BY <1>5, <1>u DEF IdentifiedRun
  <2>3. r.pc = "identify"
    BY <1>5 DEF IdentifiedRun, Identified
  <2>4. proc'[p].pc \in {"stages", "identify"} /\ proc'[p].copy \in {Idle.copy, r.copy}
    BY <1>0, <2>1, <2>2, <2>3 DEF Processes
  <2> QED
    BY <1>i, <2>1, <2>4
<1>6. CASE ~BeginRun(p) /\ ~BeginRecovery(p) /\ ~Stat(p) /\ ~Hash(p) /\ ~Enter(p) /\ ~IdentifiedRun(p)
  <2>1. cache' = cache
    BY <1>6 DEF Step, IdentifiedFork, IdentifiedRecovery, StartStage, TakeModel, Load, Measure,
       EndStage, Stop
  <2>2. proc'[p].pc \notin {"hash", "enter"} /\ proc'[p].copy \in {r.copy, Idle.copy}
    <3>1. CASE IdentifiedFork(p)
      BY <1>0, <1>u, <3>1 DEF IdentifiedFork, Processes
    <3>2. CASE IdentifiedRecovery(p)
      <4>1. PICK identity, t : proc'[p] \in
                {Idle, [proc[p] EXCEPT !.pc = "stages", !.identity = identity],
                 [proc[p] EXCEPT !.pc = "stages", !.identity = identity, !.stage = t]}
        BY <1>u, <3>2 DEF IdentifiedRecovery
      <4> QED
        BY <1>0, <1>i, <4>1 DEF Processes
    <3>3. CASE StartStage(p)
      <4>1. PICK t : proc'[p] = [proc[p] EXCEPT !.pc = "runner", !.stage = t, !.left = Models,
                                          !.verified = {}, !.loaded = NothingLoaded]
        BY <1>u, <3>3 DEF StartStage
      <4> QED
        BY <1>0, <4>1 DEF Processes
    <3>4. CASE TakeModel(p)
      <4>1. PICK m, v : proc'[p] \in
                {[proc[p] EXCEPT !.left = @ \ {m}],
                 [proc[p] EXCEPT !.pc = "load", !.item = m, !.verified = v]}
        BY <1>u, <3>4 DEF TakeModel
      <4>2. r.pc = "runner"
        BY <3>4 DEF TakeModel
      <4> QED
        BY <1>0, <4>1, <4>2 DEF Processes
    <3>5. CASE Load(p)
      BY <1>0, <1>u, <3>5 DEF Load, Processes
    <3>6. CASE Measure(p)
      <4>1. PICK l : proc'[p] = [proc[p] EXCEPT !.pc = "runner", !.loaded = NothingLoaded,
                                                !.item = Runtime, !.left = l]
        BY <1>u, <3>6 DEF Measure
      <4> QED
        BY <1>0, <4>1 DEF Processes
    <3>7. CASE EndStage(p)
      BY <1>0, <1>i, <1>u, <3>7 DEF EndStage, Processes
    <3>8. CASE Stop(p)
      BY <1>0, <1>i, <1>u, <3>8 DEF Stop, Processes
    <3> QED
      BY <1>6, <3>1, <3>2, <3>3, <3>4, <3>5, <3>6, <3>7, <3>8 DEF Step
  <2> QED
    BY <1>0, <1>i, <2>1, <2>2
<1> QED
  BY <1>1, <1>2, <1>3, <1>4, <1>5, <1>6

\* A process keeps its job until it is idle, and begins one nobody works on.
LEMMA JobSteps ==
    ASSUME TypeOK, NEW p \in Procs, Step(p)
    PROVE  \/ proc'[p].pc = "idle"
           \/ proc[p].pc # "idle" /\ proc'[p].job = proc[p].job
           \/ proc'[p].job \in Jobs /\ ~Busy(proc'[p].job)
<1> DEFINE r == proc[p]
<1>0. r \in Processes
  BY DEF TypeOK
<1>i. Idle.pc = "idle" /\ Idle \in Processes
  BY InitialRecords DEF Idle
<1>u. ASSUME NEW s, Update(p, s) PROVE proc'[p] = s
  BY <1>u DEF Update, TypeOK
<1>1. CASE BeginRun(p) \/ BeginRecovery(p)
  <2>1. PICK mode, j, items :
            /\ Update(p, [Idle EXCEPT !.pc = "identify", !.mode = mode, !.job = j, !.todo = items,
                              !.copy = IF mode = "run" THEN cache ELSE @])
            /\ j \in Jobs /\ ~Busy(j)
    BY <1>1 DEF BeginRun, BeginRecovery, Begin
  <2>2. proc'[p] = [Idle EXCEPT !.pc = "identify", !.mode = mode, !.job = j, !.todo = items,
                              !.copy = IF mode = "run" THEN cache ELSE @]
    BY <2>1, <1>u
  <2>3. proc'[p].job = j
    BY <1>i, <2>2 DEF Processes
  <2> QED
    BY <2>1, <2>3
<1>2. CASE Stat(p)
  <2>1. PICK i, d, st : proc'[p] \in
            {[proc[p] EXCEPT !.todo = @ \ {i}],
             [[proc[p] EXCEPT !.todo = @ \ {i}] EXCEPT !.identity[i] = d],
             [[proc[p] EXCEPT !.todo = @ \ {i}] EXCEPT !.pc = "hash", !.item = i, !.stat = st]}
    BY <1>2, <1>u DEF Stat
  <2>2. proc[p].pc # "idle"
    BY <1>2 DEF Stat
  <2> QED
    BY <1>0, <2>1, <2>2 DEF Processes
<1>3. CASE Hash(p) \/ Enter(p)
  <2>1. proc[p].pc # "idle"
    BY <1>3 DEF Hash, Enter
  <2>2. CASE Hash(p)
    <3>1. PICK i, d : proc'[p] \in {Idle, [proc[p] EXCEPT !.pc = "enter", !.identity[i] = d]}
      BY <2>2, <1>u DEF Hash
    <3> QED
      BY <1>0, <1>i, <2>1, <3>1 DEF Processes
  <2>3. CASE Enter(p)
    <3>1. PICK i, e : proc'[p] = [proc[p] EXCEPT !.pc = "identify", !.item = Runtime, !.stat = 0,
                                                 !.copy[i] = e]
      BY <2>3, <1>u DEF Enter
    <3> QED
      BY <1>0, <2>1, <3>1 DEF Processes
  <2> QED
    BY <1>3, <2>2, <2>3
<1>4. CASE IdentifiedRun(p) \/ IdentifiedFork(p) \/ IdentifiedRecovery(p)
  <2>1. proc[p].pc # "idle"
    BY <1>4 DEF IdentifiedRun, IdentifiedFork, IdentifiedRecovery, Identified
  <2>2. CASE IdentifiedRun(p)
    <3>1. proc'[p] \in
            {[proc[p] EXCEPT !.pc = "stages", !.mode = "rerun", !.copy = Idle.copy],
             [proc[p] EXCEPT !.mode = "rerun", !.todo = Items, !.copy = cache',
                             !.identity = NoIdentity]}
      BY <2>2, <1>u DEF IdentifiedRun
    <3> QED
      BY <1>0, <2>1, <3>1 DEF Processes
  <2>3. CASE IdentifiedFork(p)
    <3>1. proc'[p] = [proc[p] EXCEPT !.pc = "stages"]
      BY <2>3, <1>u DEF IdentifiedFork
    <3> QED
      BY <1>0, <2>1, <3>1 DEF Processes
  <2>4. CASE IdentifiedRecovery(p)
    <3>1. PICK identity, t : proc'[p] \in
            {Idle, [proc[p] EXCEPT !.pc = "stages", !.identity = identity],
             [proc[p] EXCEPT !.pc = "stages", !.identity = identity, !.stage = t]}
      BY <2>4, <1>u DEF IdentifiedRecovery
    <3> QED
      BY <1>0, <1>i, <2>1, <3>1 DEF Processes
  <2> QED
    BY <1>4, <2>2, <2>3, <2>4
<1>5. CASE StartStage(p) \/ TakeModel(p) \/ Load(p)
  <2>1. proc[p].pc # "idle"
    BY <1>5 DEF StartStage, TakeModel, Load
  <2>2. PICK s, m, l, v, x : proc'[p] \in
            {[proc[p] EXCEPT !.pc = "runner", !.stage = s, !.left = Models,
                             !.verified = {}, !.loaded = NothingLoaded],
             [proc[p] EXCEPT !.left = l],
             [proc[p] EXCEPT !.pc = "load", !.item = m, !.verified = v],
             [proc[p] EXCEPT !.pc = "runner", !.item = Runtime, !.left = l],
             [proc[p] EXCEPT !.pc = "measure", !.loaded = x]}
    <3>1. CASE StartStage(p)
      BY <3>1, <1>u DEF StartStage
    <3>2. CASE TakeModel(p)
      <4>1. \E m, l, v : proc'[p] \in
                {[proc[p] EXCEPT !.left = l],
                 [proc[p] EXCEPT !.pc = "load", !.item = m, !.verified = v]}
        BY <3>2, <1>u DEF TakeModel
      <4> QED
        BY <4>1
    <3>3. CASE Load(p)
      BY <3>3, <1>u DEF Load
    <3> QED
      BY <1>5, <3>1, <3>2, <3>3
  <2> QED
    BY <1>0, <2>1, <2>2 DEF Processes
<1>6. CASE Measure(p) \/ EndStage(p) \/ Stop(p)
  <2>1. proc[p].pc # "idle"
    BY <1>6 DEF Measure, EndStage, Stop
  <2>2. PICK l : proc'[p] \in
            {Idle, [proc[p] EXCEPT !.pc = "stages"],
             [proc[p] EXCEPT !.pc = "runner", !.loaded = NothingLoaded, !.item = Runtime, !.left = l]}
    BY <1>6, <1>u DEF Measure, EndStage, Stop
  <2> QED
    BY <1>0, <1>i, <2>1, <2>2 DEF Processes
<1> QED
  BY <1>1, <1>2, <1>3, <1>4, <1>5, <1>6 DEF Step

LEMMA WorkerSteps ==
    ASSUME TypeOK, AtWork, OneWorker, NEW p \in Procs, Step(p)
    PROVE  AtWork' /\ OneWorker'
<1>1. AtWork'
  BY JobSteps, Others DEF AtWork
<1>2. ASSUME NEW q \in Procs, q # p, proc'[p].pc # "idle", proc'[q].pc # "idle"
      PROVE  proc'[p].job # proc'[q].job
  <2>1. proc'[q] = proc[q] /\ proc[q].pc # "idle"
    BY <1>2, Others
  <2>2. CASE proc[p].pc # "idle" /\ proc'[p].job = proc[p].job
    BY <1>2, <2>1, <2>2 DEF OneWorker
  <2>3. CASE ~Busy(proc'[p].job)
    BY <1>2, <2>1, <2>3 DEF Busy
  <2> QED
    BY <1>2, <2>2, <2>3, JobSteps
<1>3. ASSUME NEW q \in Procs, NEW s \in Procs, q # s, proc'[q].pc # "idle", proc'[s].pc # "idle"
      PROVE  proc'[q].job # proc'[s].job
  <2>1. CASE q = p \/ s = p
    BY <1>2, <1>3, <2>1
  <2>2. CASE q # p /\ s # p
    BY <1>3, <2>2, Others DEF OneWorker
  <2> QED
    BY <2>1, <2>2
<1> QED
  BY <1>1, <1>3 DEF OneWorker

LEMMA CacheSteps ==
    ASSUME CacheInv, NEW p \in Procs, Step(p)
    PROVE  StampsAreBehind' /\ CopiesAreTrue' /\ CacheEntriesAreTrue'
<1> USE DEF CacheInv
<1>0. UNCHANGED file
  BY OtherTypes
<1>t. /\ file \in [Items -> [bytes : Contents, stamp : Nat]] /\ cache \in [Items -> Entries]
      /\ \A i \in Items : proc[p].copy[i] \in Entries
      /\ \A i \in Items : cache[i].stamp \in Nat /\ file[i].stamp \in Nat
  BY DEF TypeOK, Processes, Entries
<1>1. \A i \in Items : /\ cache'[i].stamp <= file[i].stamp
                       /\ cache'[i].stamp = file[i].stamp => cache'[i].digest = file[i].bytes
  BY EntrySteps DEF StampsAreBehind, CopiesAreTrue, CacheEntriesAreTrue
<1>2. \A i \in Items :
          /\ proc'[p].copy[i].stamp <= file[i].stamp
          /\ proc'[p].copy[i].stamp = file[i].stamp => proc'[p].copy[i].digest = file[i].bytes
  <2> SUFFICES ASSUME NEW i \in Items
               PROVE  /\ proc'[p].copy[i].stamp <= file[i].stamp
                      /\ proc'[p].copy[i].stamp = file[i].stamp => proc'[p].copy[i].digest = file[i].bytes
    OBVIOUS
  <2>1. CASE proc'[p].copy[i] \in {proc[p].copy[i], cache[i]}
    BY <2>1 DEF StampsAreBehind, CopiesAreTrue, CacheEntriesAreTrue
  <2>2. CASE proc'[p].copy[i] = NoEntry
    <3>1. proc'[p].copy[i].stamp = 0
      BY <2>2 DEF NoEntry
    <3>2. file[i].stamp >= 1 /\ file[i].stamp \in Nat
      BY <1>t DEF StampsAreBehind
    <3> QED
      BY <3>1, <3>2
  <2>3. CASE /\ proc[p].pc = "enter" /\ i = proc[p].item
             /\ proc'[p].copy[i] = [stamp |-> proc[p].stat, digest |-> proc[p].identity[i]]
    <3>1. proc'[p].copy[i].stamp = proc[p].stat /\ proc'[p].copy[i].digest = proc[p].identity[i]
      BY <2>3
    <3> QED
      BY <2>3, <3>1 DEF StampsAreBehind, CopiesAreTrue
  <2> QED
    BY <2>1, <2>2, <2>3, EntrySteps
<1>3. proc'[p].pc \in {"hash", "enter"} => proc'[p].stat <= file[proc'[p].item].stamp
  BY <1>t, EntrySteps DEF StampsAreBehind
<1>4. proc'[p].pc = "enter" /\ proc'[p].stat = file[proc'[p].item].stamp =>
            proc'[p].identity[proc'[p].item] = file[proc'[p].item].bytes
  BY EntrySteps
<1>5. StampsAreBehind'
  BY <1>0, <1>1, <1>2, <1>3, Others DEF StampsAreBehind
<1>6. CopiesAreTrue'
  BY <1>0, <1>2, <1>4, Others DEF CopiesAreTrue
<1>7. CacheEntriesAreTrue'
  BY <1>0, <1>1 DEF CacheEntriesAreTrue
<1> QED
  BY <1>5, <1>6, <1>7

LEMMA CacheChanges ==
    ASSUME CacheInv, ~KeepStamps, NEW i \in Items, Change(i)
    PROVE  CacheInv'
<1> USE DEF CacheInv
<1>1. UNCHANGED <<cache, job, proc, starts>>
  BY DEF Change
<1>2. PICK b \in Contents : file' = [file EXCEPT ![i] = [bytes |-> b, stamp |-> @.stamp + 1]]
  <2>1. PICK b \in IF i = Runtime THEN Bytes ELSE Contents, keep \in {FALSE, KeepStamps} :
            file' = [file EXCEPT ![i] = [bytes |-> b, stamp |-> IF keep THEN @.stamp ELSE @.stamp + 1]]
    BY DEF Change
  <2>2. ~keep
    BY <2>1, Zenon
  <2>3. file' = [file EXCEPT ![i] = [bytes |-> b, stamp |-> @.stamp + 1]] /\ b \in Contents
    BY <2>1, <2>2
  <2> QED
    BY <2>3
<1>t. /\ file \in [Items -> [bytes : Contents, stamp : Nat]] /\ cache \in [Items -> Entries]
      /\ \A k \in Items : cache[k].stamp \in Nat /\ file[k].stamp \in Nat
      /\ \A q \in Procs, k \in Items : proc[q].copy[k].stamp \in Nat
      /\ \A q \in Procs : proc[q].stat \in Nat /\ proc[q].item \in Items
  BY DEF TypeOK, Processes, Entries
<1>3. file'[i].stamp = file[i].stamp + 1 /\ \A k \in Items : k # i => file'[k] = file[k]
  BY <1>2, <1>t
<1>4. TypeOK'
  <2>1. file' \in [Items -> [bytes : Contents, stamp : Nat]]
    BY <1>2, <1>t
  <2>2. disturbed' \subseteq Jobs \cup {NoJob}
    BY DEF Change, TypeOK, Processes
  <2> QED
    BY <1>1, <2>1, <2>2 DEF TypeOK
<1>5. StampsAreBehind'
  BY <1>1, <1>3, <1>t DEF StampsAreBehind
<1>6. CopiesAreTrue'
  <2>1. ASSUME NEW q \in Procs, NEW k \in Items, proc[q].copy[k].stamp = file'[k].stamp
        PROVE  proc[q].copy[k].digest = file'[k].bytes
    BY <1>3, <1>t, <2>1 DEF CopiesAreTrue, StampsAreBehind
  <2>2. ASSUME NEW q \in Procs, proc[q].pc = "enter", proc[q].stat = file'[proc[q].item].stamp
        PROVE  proc[q].identity[proc[q].item] = file'[proc[q].item].bytes
    <3>1. proc[q].item \in Items /\ proc[q].stat <= file[proc[q].item].stamp
      BY <1>t, <2>2 DEF StampsAreBehind
    <3>2. proc[q].item # i
      BY <1>3, <1>t, <2>2, <3>1
    <3> QED
      BY <1>3, <2>2, <3>1, <3>2 DEF CopiesAreTrue
  <2> QED
    BY <1>1, <2>1, <2>2 DEF CopiesAreTrue
<1>7. CacheEntriesAreTrue'
  BY <1>1, <1>3, <1>t DEF CacheEntriesAreTrue, StampsAreBehind
<1> QED
  BY <1>1, <1>4, <1>5, <1>6, <1>7 DEF AtWork
-------------------------------------------------------------------------------
\* A step of a process changes the journal of its own job only.
LEMMA JournalSteps ==
    ASSUME TypeOK, NEW p \in Procs, Step(p), NEW j \in Jobs, j # proc[p].job
    PROVE  job'[j] = job[j]
<1>1. CASE UNCHANGED job
  BY <1>1
<1>2. CASE IdentifiedRecovery(p)
  <2>1. UNCHANGED job \/ job' = [job EXCEPT ![proc[p].job].marks = @ \cup {JobMark}]
    BY <1>2 DEF IdentifiedRecovery
  <2> QED
    BY <2>1 DEF TypeOK
<1>3. CASE StartStage(p)
  <2>1. \E a : job' = [job EXCEPT ![proc[p].job] = a]
    BY <1>3 DEF StartStage
  <2> QED
    BY <2>1 DEF TypeOK
<1>4. CASE Measure(p) \/ EndStage(p)
  <2>1. CASE Measure(p)
    BY <2>1 DEF Measure, TypeOK
  <2>2. CASE EndStage(p)
    BY <2>2 DEF EndStage, TypeOK
  <2> QED
    BY <1>4, <2>1, <2>2
<1>5. CASE BeginRun(p) \/ BeginRecovery(p)
  BY <1>1, <1>5 DEF BeginRun, BeginRecovery, Begin
<1> QED
  BY <1>1, <1>2, <1>3, <1>4, <1>5 DEF Step, Stat, Hash, Enter, IdentifiedRun, IdentifiedFork,
     TakeModel, Load, Stop

\* What holds of the other processes still does.
LEMMA OtherRecords ==
    ASSUME CacheInv, IInv, NEW p \in Procs, Step(p), NEW q \in Procs, q # p
    PROVE  RecordInv(proc[q])'
<1> USE DEF CacheInv, IInv
<1>1. proc'[q] = proc[q] /\ UNCHANGED <<file, disturbed>>
  BY Others, OtherTypes
<1>2. CASE proc[q].pc = "idle"
  BY <1>1, <1>2 DEF RecordInv, Identifies, Works, Matches
<1>3. CASE proc[q].pc # "idle"
  <2>1. proc[q].job \in Jobs
    BY <1>3 DEF AtWork
  <2>2. CASE proc[p].pc # "idle"
    <3>1. proc[q].job # proc[p].job
      BY <1>3, <2>2 DEF OneWorker
    <3>2. job'[proc[q].job] = job[proc[q].job]
      BY <2>1, <3>1, JournalSteps
    <3> QED
      BY <1>1, <3>2 DEF RecordInv, Identifies, Works, Matches, Recovers
  <2>3. CASE proc[p].pc = "idle"
    <3>1. UNCHANGED job
      <4>1. BeginRun(p) \/ BeginRecovery(p)
        BY <2>3 DEF Step, Stat, Hash, Enter, IdentifiedRun, IdentifiedFork, IdentifiedRecovery,
           Identified, StartStage, TakeModel, Load, Measure, EndStage, Stop
      <4> QED
        BY <4>1 DEF BeginRun, BeginRecovery, Begin
    <3> QED
      BY <1>1, <3>1 DEF RecordInv, Identifies, Works, Matches, Recovers
  <2> QED
    BY <2>2, <2>3
<1> QED
  BY <1>2, <1>3

LEMMA IdleRecord ==
    ASSUME NEW p \in Procs, proc'[p] = Idle
    PROVE  RecordInv(proc[p])'
<1>1. proc'[p].pc = "idle"
  BY DEF Idle
<1> QED
  BY <1>1 DEF RecordInv, Identifies, Works, Matches

\* A process that takes identities.
LEMMA IdentifyRecord ==
    ASSUME CacheInv, IInv, NEW p \in Procs,
           BeginRun(p) \/ BeginRecovery(p) \/ Stat(p) \/ Hash(p) \/ Enter(p)
    PROVE  RecordInv(proc[p])'
<1> USE DEF CacheInv, IInv
<1> DEFINE r == proc[p]
           s == proc'[p]
<1>0. /\ r \in Processes /\ r.item \in Items /\ r.identity \in [Items -> Contents] /\ r.todo \subseteq Items
      /\ proc \in [Procs -> Processes]
  BY DEF TypeOK, Processes, Identities
<1>i. Idle \in Processes /\ Idle.identity = NoIdentity
  BY InitialRecords DEF Idle
<1>u. ASSUME NEW t, Update(p, t) PROVE s = t
  BY <1>0, <1>u DEF Update
<1>c. UNCHANGED <<file, job, disturbed>>
  <2>1. CASE BeginRun(p) \/ BeginRecovery(p)
    BY <2>1 DEF BeginRun, BeginRecovery, Begin
  <2>2. CASE Stat(p) \/ Hash(p) \/ Enter(p)
    BY <2>2 DEF Stat, Hash, Enter
  <2> QED
    BY <2>1, <2>2
<1>1. CASE BeginRun(p) \/ BeginRecovery(p)
  <2>1. PICK j \in Jobs, mode \in {"run", "fork", "resume", "retry"}, items \in SUBSET Items :
            /\ Begin(p, mode, j, items)
            /\ mode \in {"run", "fork"} => job[j].state = "none" /\ items = Items
            /\ mode \in {"resume", "retry"} => job[j].state # "none" /\ items = {Runtime}
    <3>1. CASE BeginRun(p)
      <4>1. PICK j \in Jobs, mode \in {"run", "fork"} :
              job[j].state = "none" /\ Begin(p, mode, j, Items)
        BY <3>1 DEF BeginRun
      <4>2. Items \in SUBSET Items /\ mode \notin {"resume", "retry"}
        BY <4>1
      <4> QED
        BY <4>1, <4>2
    <3>2. CASE BeginRecovery(p)
      <4>1. PICK j \in Jobs, mode \in {"resume", "retry"} :
              job[j].state # "none" /\ Begin(p, mode, j, {Runtime})
        BY <3>2 DEF BeginRecovery
      <4>2. {Runtime} \in SUBSET Items /\ mode \notin {"run", "fork"}
        BY <4>1
      <4> QED
        BY <4>1, <4>2
    <3> QED
      BY <1>1, <3>1, <3>2
  <2>2. s = [Idle EXCEPT !.pc = "identify", !.mode = mode, !.job = j, !.todo = items,
                              !.copy = IF mode = "run" THEN cache ELSE @]
    BY <2>1, <1>u DEF Begin
  <2>3. /\ s.pc = "identify" /\ s.mode = mode /\ s.job = j /\ s.todo = items
        /\ s.identity = NoIdentity
    BY <1>i, <2>2 DEF Processes
  <2>4. \A i \in Items : s.identity[i] = Absent
    BY <2>3 DEF NoIdentity
  <2> QED
    BY <1>c, <2>1, <2>3, <2>4 DEF RecordInv, Identifies, Works, Matches, Recovers
<1>2. CASE Stat(p)
  <2>1. PICK i \in r.todo :
          /\ i = Runtime => r.todo = {Runtime}
          /\ LET x == [proc[p] EXCEPT !.todo = @ \ {i}]
             IN  Update(p, CASE file[i].bytes = Absent -> x
                            [] Cached(p) /\ proc[p].copy[i].stamp = file[i].stamp ->
                                   [x EXCEPT !.identity[i] = proc[p].copy[i].digest]
                            [] OTHER -> [x EXCEPT !.pc = "hash", !.item = i,
                                                  !.stat = file[i].stamp])
    BY <1>2 DEF Stat
  <2>2. i \in Items /\ r.pc = "identify"
    BY <1>0, <1>2 DEF Stat
  <2>3. Identifies(r)
    BY DEF RecordInv
  <2> DEFINE x == [proc[p] EXCEPT !.todo = @ \ {i}]
  <2>x. /\ x.pc = "identify" /\ x.mode = r.mode /\ x.job = r.job /\ x.todo = r.todo \ {i}
        /\ x.identity = r.identity /\ x \in Processes
    BY <1>0, <2>2 DEF Processes
  <2> HIDE DEF x
  <2>4. CASE s = x /\ file[i].bytes = Absent
    <3>1. s.identity[i] = Absent
      BY <2>2, <2>3, <2>4, <2>x DEF Identifies
    <3> QED
      BY <1>c, <2>2, <2>3, <2>4, <2>x, <3>1 DEF RecordInv, Identifies, Works, Matches, Recovers
  <2>5. CASE s = [x EXCEPT !.identity[i] = r.copy[i].digest] /\ r.copy[i].stamp = file[i].stamp
    <3>1. r.copy[i].digest = file[i].bytes
      BY <2>2, <2>5 DEF CopiesAreTrue
    <3>2. /\ s.pc = "identify" /\ s.mode = r.mode /\ s.job = r.job /\ s.todo = r.todo \ {i}
          /\ s.identity = [r.identity EXCEPT ![i] = r.copy[i].digest]
      BY <2>5, <2>x DEF Processes
    <3>3. \A k \in Items : s.identity[k] = IF k = i THEN file[i].bytes ELSE r.identity[k]
      BY <1>0, <2>2, <3>1, <3>2
    <3> QED
      BY <1>0, <1>c, <2>2, <2>3, <3>2, <3>3 DEF RecordInv, Identifies, Works, Matches, Recovers
  <2>6. CASE s = [x EXCEPT !.pc = "hash", !.item = i, !.stat = file[i].stamp]
    <3>1. /\ s.pc = "hash" /\ s.mode = r.mode /\ s.job = r.job /\ s.todo = r.todo \ {i}
          /\ s.identity = r.identity /\ s.item = i /\ s.stat = file[i].stamp
      BY <2>6, <2>x DEF Processes
    <3> QED
      BY <1>c, <2>2, <2>3, <3>1 DEF RecordInv, Identifies, Works, Matches, Recovers
  <2> QED
    BY <1>u, <2>1, <2>4, <2>5, <2>6 DEF x
<1>3. CASE Hash(p)
  <2>1. CASE Update(p, Idle)
    BY <1>u, <2>1, IdleRecord
  <2>2. ASSUME NEW b \in IF file[r.item].stamp = r.stat THEN {file[r.item].bytes} \ {Absent} ELSE Bytes,
               Update(p, [proc[p] EXCEPT !.pc = "enter", !.identity[r.item] = b])
        PROVE  RecordInv(proc[p])'
    <3>1. s = [proc[p] EXCEPT !.pc = "enter", !.identity[r.item] = b]
      BY <1>u, <2>2
    <3>2. /\ s.pc = "enter" /\ s.mode = r.mode /\ s.job = r.job /\ s.todo = r.todo
          /\ s.identity = [r.identity EXCEPT ![r.item] = b] /\ s.item = r.item /\ s.stat = r.stat
      BY <1>0, <3>1 DEF Processes
    <3>3. Identifies(r) /\ r.pc = "hash"
      BY <1>3 DEF Hash, RecordInv
    <3>4. r.item \notin r.todo
      BY <3>3 DEF Identifies
    <3>5. \A k \in Items : s.identity[k] = IF k = r.item THEN b ELSE r.identity[k]
      BY <1>0, <3>2
    <3>6. r.job \notin disturbed => b = file[r.item].bytes
      BY <2>2, <3>3 DEF Identifies
    <3> QED
      BY <1>0, <1>c, <3>2, <3>3, <3>4, <3>5, <3>6 DEF RecordInv, Identifies, Works, Matches, Recovers
  <2> QED
    BY <1>3, <2>1, <2>2 DEF Hash
<1>4. CASE Enter(p)
  <2> DEFINE e == IF Cached(p) THEN Entry(r.item, r.identity[r.item], r.stat) ELSE r.copy[r.item]
  <2>1. s = [proc[p] EXCEPT !.pc = "identify", !.item = Runtime, !.stat = 0, !.copy[r.item] = e]
    BY <1>4, <1>u DEF Enter
  <2>2. /\ s.pc = "identify" /\ s.mode = r.mode /\ s.job = r.job /\ s.todo = r.todo
        /\ s.identity = r.identity
    BY <1>0, <2>1 DEF Processes
  <2>3. r.pc = "enter" /\ Identifies(r)
    BY <1>4 DEF Enter, RecordInv
  <2> QED
    BY <1>c, <2>2, <2>3 DEF RecordInv, Identifies, Works, Matches, Recovers
<1> QED
  BY <1>1, <1>2, <1>3, <1>4

\* A process that has taken them.
LEMMA IdentifiedRecord ==
    ASSUME CacheInv, IInv, NEW p \in Procs,
           IdentifiedRun(p) \/ IdentifiedFork(p) \/ IdentifiedRecovery(p)
    PROVE  RecordInv(proc[p])'
<1> USE DEF CacheInv, IInv
<1> DEFINE r == proc[p]
           s == proc'[p]
<1>0. /\ r \in Processes /\ proc \in [Procs -> Processes] /\ job \in [Jobs -> Journals]
      /\ r.identity \in Identities
  BY DEF TypeOK, Processes
<1>u. ASSUME NEW t, Update(p, t) PROVE s = t
  BY <1>0, <1>u DEF Update
<1>1. Identified(p) /\ UNCHANGED <<file, disturbed>>
  BY DEF IdentifiedRun, IdentifiedFork, IdentifiedRecovery
<1>2. r.pc = "identify" /\ r.todo = {} /\ Identifies(r) /\ r.job \in Jobs
  BY <1>1 DEF Identified, RecordInv, AtWork
<1>3. r.job \notin disturbed =>
        \A i \in Items : (Recovers(r) => i = Runtime) => r.identity[i] = file[i].bytes
  BY <1>2 DEF Identifies
<1>4. CASE IdentifiedRun(p)
  <2>1. UNCHANGED job /\ ~Recovers(r)
    BY <1>4 DEF IdentifiedRun, Cached, Recovers
  <2>2. CASE s = [proc[p] EXCEPT !.pc = "stages", !.mode = "rerun", !.copy = Idle.copy]
    <3>1. s.pc = "stages" /\ s.mode = "rerun" /\ s.job = r.job /\ s.identity = r.identity
      BY <1>0, <2>2 DEF Processes
    <3> QED
      BY <1>1, <1>2, <1>3, <2>1, <3>1 DEF RecordInv, Identifies, Works, Matches, Recovers
  <2>3. CASE s = [proc[p] EXCEPT !.mode = "rerun", !.todo = Items, !.copy = cache',
                                       !.identity = NoIdentity]
    <3>1. /\ s.pc = "identify" /\ s.mode = "rerun" /\ s.job = r.job /\ s.todo = Items
          /\ s.identity = NoIdentity
      BY <1>0, <1>2, <2>3 DEF Processes
    <3>2. \A i \in Items : s.identity[i] = Absent
      BY <3>1 DEF NoIdentity
    <3> QED
      BY <1>1, <1>2, <2>1, <3>1, <3>2 DEF RecordInv, Identifies, Works, Matches, Recovers
  <2> QED
    BY <1>4, <1>u, <2>2, <2>3 DEF IdentifiedRun
<1>5. CASE IdentifiedFork(p)
  <2>1. UNCHANGED job /\ ~Recovers(r) /\ r.mode = "fork"
    BY <1>5 DEF IdentifiedFork, Recovers
  <2>2. s = [proc[p] EXCEPT !.pc = "stages"]
    BY <1>5, <1>u DEF IdentifiedFork
  <2>3. s.pc = "stages" /\ s.mode = "fork" /\ s.job = r.job /\ s.identity = r.identity
    BY <1>0, <2>1, <2>2 DEF Processes
  <2> QED
    BY <1>1, <1>2, <1>3, <2>1, <2>3 DEF RecordInv, Identifies, Works, Matches, Recovers
<1>6. CASE IdentifiedRecovery(p)
  <2> DEFINE j == r.job
             identity == [job[j].identity EXCEPT ![Runtime] = r.identity[Runtime]]
  <2>1. Recovers(r) /\ job[j] \in Journals /\ job[j].identity \in [Items -> Contents]
    BY <1>0, <1>2, <1>6 DEF IdentifiedRecovery, Recovers, Journals, Identities
  <2>2. job[j].state # "none"
    BY <1>2, <2>1 DEF Identifies
  <2>3. CASE Update(p, Idle)
    BY <1>u, <2>3, IdleRecord
  <2>4. ASSUME ~Update(p, Idle) PROVE identity = job[j].identity
    BY <1>6, <2>4 DEF IdentifiedRecovery
  <2>5. CASE /\ r.mode = "resume" /\ identity = job[j].identity
             /\ job' = [job EXCEPT ![j].marks = @ \cup {JobMark}]
             /\ Update(p, [proc[p] EXCEPT !.pc = "stages", !.identity = identity])
    <3>1. s = [proc[p] EXCEPT !.pc = "stages", !.identity = identity]
      BY <1>u, <2>5
    <3>2. identity[Runtime] = r.identity[Runtime]
      BY <2>1
    <3> HIDE DEF identity
    <3>3. s.pc = "stages" /\ s.mode = "resume" /\ s.job = j /\ s.identity = identity
      BY <1>0, <2>5, <3>1 DEF Processes
    <3>4. /\ job'[j].identity = job[j].identity /\ job'[j].state = job[j].state
          /\ JobMark \in job'[j].marks
      BY <1>0, <1>2, <2>1, <2>5 DEF Journals
    <3> QED
      BY <1>1, <1>2, <1>3, <2>1, <2>2, <2>5, <3>2, <3>3, <3>4
      DEF RecordInv, Identifies, Works, Matches, Recovers
  <2>6. ASSUME NEW t \in Stages, r.mode = "retry", identity = job[j].identity, UNCHANGED job,
               job[j].stages[t] \notin {"pending", "complete"},
               Update(p, [proc[p] EXCEPT !.pc = "stages", !.identity = identity, !.stage = t - 1])
        PROVE  RecordInv(proc[p])'
    <3>1. s = [proc[p] EXCEPT !.pc = "stages", !.identity = identity, !.stage = t - 1]
      BY <1>u, <2>6
    <3>2. identity[Runtime] = r.identity[Runtime]
      BY <2>1
    <3> HIDE DEF identity
    <3>3. /\ s.pc = "stages" /\ s.mode = "retry" /\ s.job = j /\ s.identity = identity
          /\ s.stage = t - 1
      BY <1>0, <2>6, <3>1 DEF Processes
    <3>4. s.stage + 1 = t
      BY <3>3
    <3> QED
      BY <1>1, <1>2, <1>3, <2>1, <2>2, <2>6, <3>2, <3>3, <3>4
      DEF RecordInv, Identifies, Works, Matches, Recovers
  <2> QED
    BY <1>6, <2>3, <2>5, <2>6 DEF IdentifiedRecovery
<1> QED
  BY <1>4, <1>5, <1>6

\* A process at work on a stage.
LEMMA WorkRecord ==
    ASSUME CacheInv, IInv, NEW p \in Procs,
           StartStage(p) \/ TakeModel(p) \/ Load(p) \/ Measure(p) \/ EndStage(p)
    PROVE  RecordInv(proc[p])'
<1> USE DEF CacheInv, IInv
<1> DEFINE r == proc[p]
           s == proc'[p]
           j == r.job
<1>0. /\ r \in Processes /\ proc \in [Procs -> Processes] /\ job \in [Jobs -> Journals]
      /\ r.identity \in Identities /\ r.left \subseteq Models /\ r.item \in Items
  BY DEF TypeOK, Processes
<1>u. ASSUME NEW t, Update(p, t) PROVE s = t
  BY <1>0, <1>u DEF Update
<1>1. /\ r.pc \in {"stages", "runner", "load", "measure"} /\ UNCHANGED <<file, disturbed>>
  BY DEF StartStage, TakeModel, Load, Measure, EndStage
<1>2. Works(r) /\ Matches(r) /\ j \in Jobs /\ job[j] \in Journals
  BY <1>0, <1>1 DEF RecordInv, AtWork
<1>3. CASE StartStage(p)
  <2>1. PICK t \in {x \in Stages : x > r.stage /\ job[j].stages[x] # "complete"} :
          /\ \A x \in {x \in Stages : x > r.stage /\ job[j].stages[x] # "complete"} : t <= x
          /\ job[j].state = "none" \/ job[j].identity = r.identity
          /\ job' = [job EXCEPT ![j] = Started(job[j], t, r.identity)]
          /\ Update(p, [proc[p] EXCEPT !.pc = "runner", !.stage = t, !.left = Models,
                                       !.verified = {}, !.loaded = NothingLoaded])
    BY <1>3 DEF StartStage
  <2>2. s = [proc[p] EXCEPT !.pc = "runner", !.stage = t, !.left = Models,
                                       !.verified = {}, !.loaded = NothingLoaded]
    BY <1>u, <2>1
  <2>3. /\ s.pc = "runner" /\ s.mode = r.mode /\ s.job = j /\ s.identity = r.identity
        /\ s.verified = {}
    BY <1>0, <2>2 DEF Processes
  <2>4. /\ job'[j].state = "open"
        /\ job'[j].identity = r.identity
        /\ job'[j].marks = IF job[j].stages[t] = "pending" THEN job[j].marks
                           ELSE job[j].marks \cup {t, JobMark}
    <3>1. job'[j] = Started(job[j], t, r.identity)
      BY <1>0, <1>2, <2>1
    <3> DEFINE a == job[j]
    <3>2. a \in Journals /\ job'[j] = Started(a, t, r.identity)
      BY <1>2, <3>1
    <3>3. a.state = "none" \/ a.identity = r.identity
      BY <2>1
    <3> HIDE DEF a
    <3>4. /\ Started(a, t, r.identity).state = "open"
          /\ Started(a, t, r.identity).marks = IF a.stages[t] = "pending" THEN a.marks
                                                ELSE a.marks \cup {t, JobMark}
          /\ Started(a, t, r.identity).identity = IF a.state = "none" THEN r.identity ELSE a.identity
      BY <3>2 DEF Started, Journals
    <3>5. job'[j].identity = r.identity
      BY <3>2, <3>3, <3>4
    <3> QED
      BY <3>2, <3>4, <3>5 DEF a
  <2>5. r.pc = "stages"
    BY <1>3 DEF StartStage
  <2>6. r.mode = "retry" => job'[j].marks # {}
    <3>1. ASSUME r.mode = "retry" PROVE t = r.stage + 1
      <4>1. r.stage + 1 \in Stages /\ job[j].stages[r.stage + 1] \notin {"pending", "complete"}
        BY <1>2, <2>5, <3>1 DEF Works
      <4>2. r.stage \in Nat /\ t \in Nat /\ t > r.stage
        BY <1>0, <2>1 DEF Processes
      <4>3. t <= r.stage + 1
        BY <2>1, <4>1, <4>2
      <4> QED
        BY <4>2, <4>3
    <3> QED
      BY <1>2, <2>4, <2>5, <3>1 DEF Works
  <2>7. r.mode = "resume" => job'[j].marks # {}
    BY <1>2, <2>4, <2>5 DEF Works
  <2>8. r.mode # "run"
    BY <1>2, <2>5 DEF Works
  <2> QED
    BY <1>1, <1>2, <2>3, <2>4, <2>5, <2>6, <2>7, <2>8
    DEF RecordInv, Identifies, Works, Matches, Recovers
<1>4. CASE TakeModel(p)
  <2>1. PICK m \in r.left :
         LET here == file[m].bytes
             verify == IsMarked(p) /\ m \notin r.verified
             skip == here = Absent \/ (verify /\ here # job[j].identity[m])
         IN  Update(p, IF skip THEN [proc[p] EXCEPT !.left = @ \ {m}]
                       ELSE [proc[p] EXCEPT !.pc = "load", !.item = m,
                                !.verified = IF verify THEN @ \cup {m} ELSE @])
    BY <1>4 DEF TakeModel
  <2>2. UNCHANGED job /\ r.pc = "runner" /\ m \in Models
    BY <1>0, <1>4 DEF TakeModel
  <2>3. /\ job[j].identity = r.identity /\ job[j].state # "none"
        /\ Recovers(r) => IsMarked(p)
    BY <1>2, <2>2 DEF Works, IsMarked, Recovers
  <2>4. CASE s = [proc[p] EXCEPT !.left = @ \ {m}]
    <3>1. /\ s.pc = "runner" /\ s.mode = r.mode /\ s.job = j /\ s.identity = r.identity
          /\ s.verified = r.verified
      BY <1>0, <2>2, <2>4 DEF Processes
    <3> QED
      BY <1>1, <1>2, <2>2, <2>3, <3>1 DEF RecordInv, Identifies, Works, Matches, Recovers
  <2>5. ASSUME IsMarked(p), m \notin r.verified, file[m].bytes = job[j].identity[m],
               s = [proc[p] EXCEPT !.pc = "load", !.item = m, !.verified = @ \cup {m}]
        PROVE  RecordInv(proc[p])'
    <3>1. /\ s.pc = "load" /\ s.mode = r.mode /\ s.job = j /\ s.identity = r.identity
          /\ s.verified = r.verified \cup {m} /\ s.item = m
      BY <1>0, <2>5 DEF Processes
    <3> QED
      BY <1>1, <1>2, <2>2, <2>3, <2>5, <3>1 DEF RecordInv, Identifies, Works, Matches, Recovers
  <2>6. ASSUME ~(IsMarked(p) /\ m \notin r.verified),
               s = [proc[p] EXCEPT !.pc = "load", !.item = m]
        PROVE  RecordInv(proc[p])'
    <3>1. /\ s.pc = "load" /\ s.mode = r.mode /\ s.job = j /\ s.identity = r.identity
          /\ s.verified = r.verified /\ s.item = m
      BY <1>0, <2>6 DEF Processes
    <3> QED
      BY <1>1, <1>2, <2>2, <2>3, <2>6, <3>1 DEF RecordInv, Identifies, Works, Matches, Recovers
  <2>7. [proc[p] EXCEPT !.pc = "load", !.item = m, !.verified = @]
          = [proc[p] EXCEPT !.pc = "load", !.item = m]
    BY <1>0 DEF Processes
  <2> QED
    BY <1>u, <2>1, <2>4, <2>5, <2>6, <2>7
<1>5. CASE Load(p)
  <2>1. UNCHANGED job /\ r.pc = "load"
    BY <1>5 DEF Load
  <2>2. CASE s = [proc[p] EXCEPT !.pc = "runner", !.item = Runtime, !.left = @ \ {r.item}]
    <3>1. /\ s.pc = "runner" /\ s.mode = r.mode /\ s.job = j /\ s.identity = r.identity
          /\ s.verified = r.verified
      BY <1>0, <2>2 DEF Processes
    <3> QED
      BY <1>1, <1>2, <2>1, <3>1 DEF RecordInv, Identifies, Works, Matches, Recovers
  <2>3. CASE s = [proc[p] EXCEPT !.pc = "measure",
                    !.loaded = [model |-> r.item, weights |-> file[r.item].bytes,
                                runtime |-> file[Runtime].bytes]]
    <3>1. /\ s.pc = "measure" /\ s.mode = r.mode /\ s.job = j /\ s.identity = r.identity
          /\ s.verified = r.verified /\ s.loaded.model = r.item
          /\ s.loaded.weights = file[r.item].bytes /\ s.loaded.runtime = file[Runtime].bytes
      BY <1>0, <2>3 DEF Processes
    <3>2. j \notin disturbed => /\ r.identity[Runtime] = file[Runtime].bytes
                                /\ r.identity[r.item] = file[r.item].bytes
      BY <1>0, <1>2, <2>1 DEF Matches
    <3> QED
      BY <1>1, <1>2, <2>1, <3>1, <3>2 DEF RecordInv, Identifies, Works, Matches, Recovers
  <2> QED
    BY <1>5, <1>u, <2>2, <2>3 DEF Load
<1>6. CASE Measure(p)
  <2>1. PICK l : s = [proc[p] EXCEPT !.pc = "runner", !.loaded = NothingLoaded,
                                     !.item = Runtime, !.left = l]
    BY <1>6, <1>u DEF Measure
  <2>2. /\ s.pc = "runner" /\ s.mode = r.mode /\ s.job = j /\ s.identity = r.identity
        /\ s.verified = r.verified /\ r.pc = "measure"
    BY <1>0, <1>6, <2>1 DEF Processes, Measure
  <2>3. job' = [job EXCEPT ![j].samples = @ \cup {r.loaded}]
    BY <1>6 DEF Measure
  <2>4. /\ job'[j].state = job[j].state /\ job'[j].identity = job[j].identity
        /\ job'[j].marks = job[j].marks
    BY <1>0, <1>2, <2>3 DEF Journals
  <2> QED
    BY <1>1, <1>2, <2>2, <2>4 DEF RecordInv, Identifies, Works, Matches, Recovers
<1>7. CASE EndStage(p)
  <2>1. CASE s = Idle
    BY <2>1, IdleRecord
  <2>2. CASE s = [proc[p] EXCEPT !.pc = "stages"] /\ r.mode # "retry"
    <3>1. s.pc = "stages" /\ s.mode = r.mode /\ s.job = j /\ s.identity = r.identity
      BY <1>0, <2>2 DEF Processes
    <3>2. \E last : job' = [job EXCEPT ![j] = Ended(job[j], r.stage, last)]
      BY <1>7 DEF EndStage
    <3>3. /\ job'[j].state \in {job[j].state, "complete"} /\ job'[j].identity = job[j].identity
          /\ job'[j].marks = job[j].marks
      BY <1>0, <1>2, <3>2 DEF Ended, Journals
    <3>4. r.pc = "runner"
      BY <1>7 DEF EndStage
    <3> QED
      BY <1>1, <1>2, <2>2, <3>1, <3>3, <3>4 DEF RecordInv, Identifies, Works, Matches, Recovers
  <2> QED
    BY <1>7, <1>u, <2>1, <2>2 DEF EndStage
<1> QED
  BY <1>3, <1>4, <1>5, <1>6, <1>7

\* The journals after a step of a process.
LEMMA JournalsMatch ==
    ASSUME CacheInv, IInv, NEW p \in Procs, Step(p)
    PROVE  UnbornIsEmpty' /\ MeasuredAsIdentified'
<1> USE DEF CacheInv, IInv
<1> DEFINE r == proc[p]
           j == r.job
<1>0. job \in [Jobs -> Journals] /\ UNCHANGED disturbed /\ r \in Processes
  BY OtherTypes DEF TypeOK
<1>1. CASE UNCHANGED job
  BY <1>0, <1>1 DEF UnbornIsEmpty, MeasuredAsIdentified
<1>2. ASSUME j \in Jobs,
             /\ job'[j].state = "none" => job'[j].samples = {}
             /\ j \notin disturbed => \A x \in job'[j].samples :
                   /\ x.weights = job'[j].identity[x.model]
                   /\ x.runtime = job'[j].identity[Runtime]
      PROVE  UnbornIsEmpty' /\ MeasuredAsIdentified'
  <2>1. \A k \in Jobs : k # j => job'[k] = job[k]
    BY JournalSteps
  <2>2. UnbornIsEmpty'
    BY <1>2, <2>1 DEF UnbornIsEmpty
  <2>3. MeasuredAsIdentified'
    BY <1>0, <1>2, <2>1 DEF MeasuredAsIdentified
  <2> QED
    BY <2>2, <2>3
<1>3. CASE IdentifiedRecovery(p)
  <2>1. UNCHANGED job \/ job' = [job EXCEPT ![j].marks = @ \cup {JobMark}]
    BY <1>3 DEF IdentifiedRecovery
  <2>2. j \in Jobs
    BY <1>3 DEF IdentifiedRecovery, Identified, AtWork
  <2>3. /\ job'[j].state = job[j].state /\ job'[j].samples = job[j].samples
        /\ job'[j].identity = job[j].identity
    BY <1>0, <2>1, <2>2 DEF Journals
  <2> QED
    BY <1>2, <2>2, <2>3 DEF UnbornIsEmpty, MeasuredAsIdentified
<1>4. CASE StartStage(p)
  <2>1. j \in Jobs
    BY <1>4 DEF StartStage, AtWork
  <2>2. PICK t \in Stages :
          /\ job[j].state = "none" \/ job[j].identity = r.identity
          /\ job' = [job EXCEPT ![j] = Started(job[j], t, r.identity)]
    BY <1>4 DEF StartStage
  <2>3. job[j] \in Journals /\ job'[j] = Started(job[j], t, r.identity)
    BY <1>0, <2>1, <2>2
  <2>4. /\ job'[j].state = "open" /\ job'[j].samples = job[j].samples
        /\ job[j].state # "none" => job'[j].identity = job[j].identity
    BY <2>3 DEF Started, Journals
  <2>5. job[j].state = "none" => job[j].samples = {}
    BY <2>1 DEF UnbornIsEmpty
  <2> QED
    BY <1>2, <2>1, <2>4, <2>5 DEF MeasuredAsIdentified
<1>5. CASE Measure(p)
  <2>1. j \in Jobs /\ Works(r) /\ Matches(r) /\ r.pc = "measure"
    BY <1>5 DEF Measure, AtWork, RecordInv
  <2>2. job' = [job EXCEPT ![j].samples = @ \cup {r.loaded}]
    BY <1>5 DEF Measure
  <2>3. /\ job'[j].state = job[j].state /\ job'[j].identity = job[j].identity
        /\ job'[j].samples = job[j].samples \cup {r.loaded}
    BY <1>0, <2>1, <2>2 DEF Journals
  <2>4. job[j].state # "none" /\ job[j].identity = r.identity
    BY <2>1 DEF Works
  <2>5. j \notin disturbed => /\ r.loaded.weights = job[j].identity[r.loaded.model]
                              /\ r.loaded.runtime = job[j].identity[Runtime]
    BY <2>1, <2>4 DEF Matches
  <2> QED
    BY <1>2, <2>1, <2>3, <2>4, <2>5 DEF MeasuredAsIdentified
<1>6. CASE EndStage(p)
  <2>1. j \in Jobs /\ Works(r) /\ r.pc = "runner"
    BY <1>6 DEF EndStage, AtWork, RecordInv
  <2>2. \E last : job' = [job EXCEPT ![j] = Ended(job[j], r.stage, last)]
    BY <1>6 DEF EndStage
  <2>3. /\ job'[j].state \in {job[j].state, "complete"} /\ job'[j].identity = job[j].identity
        /\ job'[j].samples = job[j].samples
    BY <1>0, <2>1, <2>2 DEF Ended, Journals
  <2>4. job[j].state # "none"
    BY <2>1 DEF Works
  <2> QED
    BY <1>2, <2>1, <2>3, <2>4 DEF MeasuredAsIdentified
<1>7. CASE BeginRun(p) \/ BeginRecovery(p)
  BY <1>1, <1>7 DEF BeginRun, BeginRecovery, Begin
<1> QED
  BY <1>1, <1>3, <1>4, <1>5, <1>6, <1>7 DEF Step, Stat, Hash, Enter, IdentifiedRun,
     IdentifiedFork, TakeModel, Load, Stop

LEMMA Steps ==
    ASSUME CacheInv, IInv, NEW p \in Procs, Step(p)
    PROVE  CacheInv' /\ IInv'
<1>1. CacheInv'
  <2>1. TypeOK'
    BY ProcessTypes, OtherTypes DEF CacheInv, TypeOK
  <2>2. AtWork'
    BY WorkerSteps DEF CacheInv, IInv
  <2> QED
    BY <2>1, <2>2, CacheSteps DEF CacheInv
<1>2. RecordInv(proc[p])'
  <2>1. CASE Stop(p)
    BY <2>1, IdleRecord DEF Stop, Update, CacheInv, TypeOK
  <2> QED
    BY <2>1, IdentifyRecord, IdentifiedRecord, WorkRecord DEF Step
<1>3. \A q \in Procs : RecordInv(proc[q])'
  BY <1>2, OtherRecords
<1>4. OneWorker'
  BY WorkerSteps DEF CacheInv, IInv
<1> QED
  BY <1>1, <1>3, <1>4, JournalsMatch DEF IInv

\* Whoever changes a file disturbs the jobs that are worked on.
LEMMA Changes ==
    ASSUME CacheInv, IInv, ~KeepStamps, NEW i \in Items, Change(i)
    PROVE  CacheInv' /\ IInv'
<1>1. CacheInv'
  BY CacheChanges
<1>2. UNCHANGED <<cache, job, proc, starts>> /\ disturbed' = disturbed \cup {proc[p].job : p \in Procs}
  BY DEF Change
<1>3. \A p \in Procs : RecordInv(proc[p])'
  <2>1. \A p \in Procs : proc[p].job \in disturbed'
    BY <1>2
  <2> QED
    BY <1>2, <2>1 DEF IInv, RecordInv, Identifies, Works, Matches, Recovers
<1>4. OneWorker' /\ UnbornIsEmpty' /\ MeasuredAsIdentified'
  BY <1>2 DEF IInv, OneWorker, UnbornIsEmpty, MeasuredAsIdentified
<1> QED
  BY <1>1, <1>3, <1>4 DEF IInv

\* The invariants hold in every execution, provided that a file that changes
\* gets another stamp (a cached digest is trusted by size and modification
\* time, resume_policy.py:128).
THEOREM IdentityInvariant ==
    ASSUME ~KeepStamps
    PROVE  Spec => [](CacheInv /\ IInv)
<1>1. Init => CacheInv /\ IInv
  <2> SUFFICES ASSUME Init PROVE CacheInv /\ IInv
    OBVIOUS
  <2>1. /\ \A p \in Procs : proc[p] = Idle
        /\ \A i \in Items : cache[i] = NoEntry /\ file[i].stamp = 1
        /\ \A j \in Jobs : job[j] = Unborn
    BY DEF Init
  <2>2. /\ Idle.pc = "idle" /\ \A i \in Items : Idle.copy[i] = NoEntry
        /\ NoEntry.stamp = 0 /\ Unborn.samples = {}
    BY DEF Idle, NoEntry, Unborn
  <2>3. CacheInv
    <3>1. TypeOK
      BY TypeStarts
    <3>2. AtWork
      BY <2>1, <2>2 DEF AtWork
    <3>3. StampsAreBehind
      BY <2>1, <2>2 DEF StampsAreBehind
    <3>4. CopiesAreTrue
      BY <2>1, <2>2 DEF CopiesAreTrue
    <3>5. CacheEntriesAreTrue
      BY <2>1, <2>2 DEF CacheEntriesAreTrue
    <3> QED
      BY <3>1, <3>2, <3>3, <3>4, <3>5 DEF CacheInv
  <2>4. IInv
    BY <2>1, <2>2 DEF IInv, OneWorker, UnbornIsEmpty, MeasuredAsIdentified, RecordInv,
       Identifies, Works, Matches
  <2> QED
    BY <2>3, <2>4
<1>2. CacheInv /\ IInv /\ [Next]_vars => (CacheInv /\ IInv)'
  <2> SUFFICES ASSUME CacheInv, IInv, [Next]_vars PROVE CacheInv' /\ IInv'
    OBVIOUS
  <2>1. CASE \E p \in Procs : Step(p)
    BY <2>1, Steps
  <2>2. CASE \E i \in Items : Change(i)
    BY <2>2, Changes
  <2>3. CASE UNCHANGED vars
    BY <2>3 DEF vars, CacheInv, IInv, TypeOK, AtWork, StampsAreBehind, CopiesAreTrue,
       CacheEntriesAreTrue, OneWorker, UnbornIsEmpty, MeasuredAsIdentified, RecordInv,
       Identifies, Works, Matches, Recovers
  <2> QED
    BY <2>1, <2>2, <2>3 DEF Next
<1> QED
  BY <1>1, <1>2, PTL DEF Spec

\* Entries of the digest cache are true.
THEOREM TrueEntries ==
    ASSUME ~KeepStamps
    PROVE  Spec => []CacheEntriesAreTrue
<1>1. CacheInv => CacheEntriesAreTrue
  BY DEF CacheInv
<1> QED
  BY <1>1, IdentityInvariant, PTL

\* Samples were measured with what the journal identifies.
THEOREM TrueSamples ==
    ASSUME ~KeepStamps
    PROVE  Spec => []MeasuredAsIdentified
<1>1. IInv => MeasuredAsIdentified
  BY DEF IInv
<1> QED
  BY <1>1, IdentityInvariant, PTL
===============================================================================
