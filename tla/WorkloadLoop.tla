----------------------------- MODULE WorkloadLoop -----------------------------
(***************************************************************************)
(* The loop of a workload over its models and depths, in the child process *)
(* that measures one stage.  Its depths are single-shot contexts ("single",*)
(* "cached"), conversation checkpoints ("conv"), concurrency levels        *)
(* ("conc"), questions ("acc"), one batch of embeddings ("emb"), images of *)
(* a resolution ("image"), sizes of vllm bench ("vllm"), rows of           *)
(* llama-bench ("native") or of llama-batched-bench ("batched"), or one    *)
(* soak ("soak").  What it loads, asks, repeats after a crash, records in  *)
(* the journal and leaves out; the crash cache that later runs read; and   *)
(* the process being killed and the stage resumed, whole or for selected   *)
(* cases, or run anew.  The journal is one stage of EventJournal.          *)
(***************************************************************************)
EXTENDS Integers, FiniteSets

CONSTANTS
    Plans,          \* records [kind, models, depths]: the workload, how many models
                    \* in the plan's order, how many depths
    Runs,           \* config.N_RUNS, measured calls of a single-shot case
    CrashRetryMax,  \* Shared.CRASH_RETRY_MAX
    SoftFloor,      \* soft_exit_floor: the level from which slow stops "conc"
    MaxSessions     \* bound: processes started

Kinds == {"single", "cached", "conv", "conc", "acc", "emb", "image", "vllm", "native",
          "batched", "soak"}

\* A model has one batch of embeddings, and one soak.
ASSUME LoopAssumption ==
    /\ Plans \subseteq [kind : Kinds, models : Nat, depths : Nat]
    /\ \A p \in Plans : p.kind \in {"emb", "soak"} => p.depths = 1
    /\ Runs \in Nat \ {0} /\ CrashRetryMax \in Nat /\ MaxSessions \in Nat \ {0}
    /\ SoftFloor \in Nat

Settled == {"complete", "slow"}     \* "slow": complete, with the slow_tps marker
Recorded == Settled \cup {"invalid", "failed", "timed_out"}
MarkStates == {"skipped", "complete", "invalid", "timed_out", "failed"}
OpenMarks == MarkStates \ {"skipped", "complete"}

VARIABLES
    plan,
    retry,     \* RETRY_CRASHED_MODELS
    cases,     \* model -> depth -> state of its case, or "none"
    marks,     \* model -> state -> the model-state case of that state
    stage,     \* "running" until finish() ends it
    picked,    \* selected_case_ids; every case in a run or a whole resume
    selected,  \* recovery_scope
    known,     \* the models in the crash cache file
    cache,     \* the copy this process loaded
    at,        \* where this process is
    session,
    silent,    \* history: models that were left out without a record, other
               \* than by "conv"
    crashers   \* history: models whose crashes earlier processes recorded

journal == <<cases, marks, stage>>
order == <<plan, retry, picked, selected, session, crashers>>
crashCache == <<known, cache>>
vars == <<order, journal, crashCache, at, silent>>

kind == plan.kind
Models == 1 .. plan.models
Depths == 1 .. plan.depths
CaseIds == Models \X Depths

Ended == {"gone", "died"}
Calling == {"load", "prime", "measure", "turn", "ask", "soak"}
Begun == [pc |-> "start", model |-> 1, depth |-> 0, run |-> 0,
          valid |-> FALSE, retries |-> 0, stop |-> "-"]
NoCases == [m \in Models |-> [d \in Depths |-> "none"]]
NoMarks == [m \in Models |-> [s \in MarkStates |-> "none"]]

Init ==
    /\ plan \in Plans /\ retry \in BOOLEAN
    /\ cases = NoCases /\ marks = NoMarks /\ stage = "running"
    /\ picked = CaseIds /\ selected = FALSE
    /\ known = {} /\ cache = {}
    /\ at = Begun /\ session = 1 /\ silent = {} /\ crashers = {}
-------------------------------------------------------------------------------
\* Common parts.

M == at.model
Go(pc) == at' = [at EXCEPT !.pc = pc]
After == [Begun EXCEPT !.pc = "model", !.model = M + 1]
NextModel == at' = After
Stop(why) == [Begun EXCEPT !.pc = "close", !.model = M, !.stop = why]
End == at' = [Begun EXCEPT !.pc = "gone"]
Single == kind \in {"single", "cached"}
Repeated == Single \/ kind = "emb"    \* measured by run_measured_calls, Runs times
Streaming == kind \in {"native", "batched"}     \* a tool prints the rows of a sweep

\* next_context_attempt gives a number: the case is new, or reopened and asked for.
Pending(m, d) ==
    \/ cases[m][d] = "none"
    \/ cases[m][d] = "running" /\ <<m, d>> \in picked

\* Where the loop over the depths goes on after depth d: to the next pending one.
Onward(d) ==
    LET left == {e \in Depths : e > d /\ Pending(M, e)}
        again == CASE kind = "acc" /\ d > 0 -> "ask"
                   [] kind = "image" /\ d > 0 -> "draw"
                   [] OTHER -> "load"      \* the other workloads load for each depth
    IN  IF left = {} THEN Stop("-")
        ELSE [at EXCEPT !.pc = again, !.run = 0, !.valid = FALSE, !.retries = 0,
                        !.depth = CHOOSE e \in left : \A f \in left : e <= f]

\* record_case
RecordCase(state) == cases' = [cases EXCEPT ![M][at.depth] = state]

\* record_model_state: a settled one is left alone, another must be new or
\* reopened; some journals leave that alone, too.  The journal of soaks begins
\* the case of the state, which must be new.
MarkAccepted(s) ==
    IF kind = "soak" THEN marks[M][s] = "none"
    ELSE s \in OpenMarks /\ kind \notin {"acc", "vllm", "batched"} => marks[M][s] # "set"
Mark(s) == marks' = [marks EXCEPT ![M][s] = "set"]

\* A bug: the crash is remembered by this process only.
RecordCrashInMemory ==
    /\ cache' = cache \cup {M}
    /\ UNCHANGED known

\* record_crash: the loaded cache with the model in it becomes the file.
RecordCrash ==
    /\ cache' = cache \cup {M}
    /\ known' = cache'
-------------------------------------------------------------------------------
\* A session: the process starts, and takes one model after the other.

Start ==
    /\ at.pc = "start"
    /\ \/ cache' = known /\ Go("model")         \* ensure_running, load_crash_cache
       \/ UNCHANGED cache /\ End                 \* run returns or raises: nothing is finished
    /\ UNCHANGED <<order, journal, known, silent>>

\* There is no llama-bench: the stage is finished with nothing measured.
NoBinary ==
    /\ at.pc = "start" /\ kind = "native"
    /\ Go("finish")
    /\ silent' = Models
    /\ UNCHANGED <<order, journal, crashCache>>

AtModel == at.pc = "model" /\ M \in Models
SkipsKnown == M \in cache /\ ~retry

\* These look for pending depths before anything else about the model.
HasWork == kind \in {"acc", "emb", "image", "soak"} => \E d \in Depths : Pending(M, d)

\* next_attempt of a soak, outside of any handler: a case that is not settled
\* and was not reopened for this process.
Stray == kind = "soak" /\ cases[M][1] \notin Settled \cup {"none"} /\ ~Pending(M, 1)
MeetStray ==
    /\ AtModel
    /\ Stray
    /\ Go("died")
    /\ UNCHANGED <<order, journal, crashCache, silent>>

\* reachable_or_abort fails: the loop breaks, and the stage is finished.
Unreachable ==
    /\ AtModel /\ kind \notin {"image", "vllm", "soak"} /\ ~Streaming
    /\ Go("finish")
    /\ silent' = IF kind = "conv" THEN {} ELSE silent \cup M .. plan.models
    /\ UNCHANGED <<order, journal, crashCache>>

\* not model_pulled, no checkpoint, or no tool calls: the single-shot tests
\* and the soak record nothing.
NotPulled ==
    /\ AtModel /\ HasWork
    /\ NextModel
    /\ IF Single \/ kind = "soak" THEN silent' = silent \cup {M} /\ UNCHANGED marks
                 ELSE Mark("skipped") /\ UNCHANGED silent
    /\ UNCHANGED <<order, cases, stage, crashCache>>

\* The model is there and its files are not in the catalog or on the disk.
NoFiles ==
    /\ AtModel /\ (kind = "vllm" \/ Streaming)
    /\ IF MarkAccepted("failed") THEN Mark("failed") /\ NextModel
       ELSE Go("raised") /\ UNCHANGED marks
    /\ UNCHANGED <<order, cases, stage, crashCache, silent>>

\* check_crash_cache; a soak also finds that the model's context is too small.
KnownCrash ==
    /\ AtModel /\ HasWork
    /\ SkipsKnown \/ kind = "soak"
    /\ IF kind = "soak" /\ ~MarkAccepted("skipped")
       THEN Go("raised") /\ UNCHANGED marks
       ELSE Mark("skipped") /\ NextModel
    /\ UNCHANGED <<order, cases, stage, crashCache, silent>>

\* To the first depth that is pending; a conversation begins at its first
\* checkpoint if any is.
Take ==
    /\ AtModel /\ ~Stray
    /\ SkipsKnown => ~HasWork
    /\ at' = IF kind # "conv" THEN Onward(0)
             ELSE IF \E d \in Depths : Pending(M, d)
             THEN [at EXCEPT !.pc = "load", !.depth = 1] ELSE After
    /\ UNCHANGED <<order, journal, crashCache, silent>>

\* verify_resume_model finds other weights, or an exception that no call
\* handles: the handler of the loop gets it.  The image test has no handler.
Fail ==
    /\ at.pc = "load"
    /\ Go(IF kind = "image" THEN "died" ELSE "raised")
    /\ UNCHANGED <<order, journal, crashCache, silent>>

\* The handler: the model, or its one batch of embeddings, is failed, and the
\* next one is taken; when the journal refuses the mark, the exception ends
\* the process.
HandleBatch ==
    /\ at.pc = "raised" /\ kind = "emb"
    /\ RecordCase("failed")
    /\ NextModel
    /\ UNCHANGED <<order, marks, stage, crashCache, silent>>

Handle ==
    /\ at.pc = "raised" /\ kind # "emb"
    /\ IF MarkAccepted("failed")
       THEN Mark("failed") /\ NextModel
       ELSE Go("died") /\ UNCHANGED marks
    /\ UNCHANGED <<order, cases, stage, crashCache, silent>>
-------------------------------------------------------------------------------
\* Loading and warming up.

\* The warm-up of embeddings may fail and is not looked at.
LoadedSingle ==
    /\ at.pc = "load" /\ Repeated
    /\ Go(IF kind = "cached" THEN "prime" ELSE "measure")
    /\ UNCHANGED <<order, journal, crashCache, silent>>

\* warmup fails, which puts the model into the crash cache.
WarmupFailsSingle ==
    /\ at.pc = "load" /\ Single
    /\ RecordCrash
    /\ RecordCase("failed")
    /\ at' = Stop("-")
    /\ UNCHANGED <<order, marks, stage, silent>>

LoadedConv ==
    /\ at.pc = "load" /\ kind = "conv"
    /\ Go("turn")
    /\ UNCHANGED <<order, journal, crashCache, silent>>

WarmupFailsConv ==
    /\ at.pc = "load" /\ kind = "conv"
    /\ RecordCrash
    /\ NextModel
    /\ UNCHANGED <<order, journal, silent>>

\* prepare_concurrency and the discarded batches.
LoadedConc ==
    /\ at.pc = "load" /\ kind = "conc"
    /\ Go("measure")
    /\ UNCHANGED <<order, journal, crashCache, silent>>

\* A bug: the next level is tried.
LoadFailsOnward ==
    /\ at.pc = "load" /\ kind = "conc"
    /\ at' = Onward(at.depth)
    /\ UNCHANGED <<order, journal, crashCache, silent>>
\* A bug: the sweep ends with no reason given.
LoadFailsQuietly ==
    /\ at.pc = "load" /\ kind = "conc"
    /\ at' = Stop("-")
    /\ UNCHANGED <<order, journal, crashCache, silent>>

LoadFailsConc ==
    /\ at.pc = "load" /\ kind = "conc"
    /\ at' = Stop("failed")
    /\ UNCHANGED <<order, journal, crashCache, silent>>

WarmupCrashesConc ==
    /\ at.pc = "load" /\ kind = "conc"
    /\ RecordCrash
    /\ at' = Stop("crashed")
    /\ UNCHANGED <<order, journal, silent>>
-------------------------------------------------------------------------------
\* The measured calls of a single-shot case or of an embedding batch:
\* run_measured_calls, for the priming call too.

InCalls == at.pc \in {"prime", "measure"} /\ Repeated

\* A batch of embeddings with one valid call is complete, however it ended.
Ends(state) == IF kind = "emb" /\ at.valid THEN "complete" ELSE state

\* The call gives a sample, valid or not, or an ordinary error, which uses the
\* run up.  An unprimed cached case raises.
Called ==
    /\ InCalls
    /\ \E outcome \in {"valid", "invalid", "error"} :
           at' = CASE at.pc = "measure" ->
                        [at EXCEPT !.run = @ + 1, !.valid = @ \/ outcome = "valid",
                                   !.pc = IF at.run + 1 = Runs THEN "record" ELSE @]
                   [] at.pc = "prime" /\ outcome = "error" -> [at EXCEPT !.pc = "raised"]
                   [] OTHER -> [at EXCEPT !.pc = "measure", !.retries = 0]
    /\ UNCHANGED <<order, journal, crashCache, silent>>

CallTimesOut ==
    /\ InCalls
    /\ RecordCase(Ends("timed_out"))
    /\ at' = Stop("-")
    /\ UNCHANGED <<order, marks, stage, crashCache, silent>>

InBatch == at.pc = "measure" /\ kind = "conc"

\* A bug: the case begins again, and the crash is not counted.
BeginAgain ==
    /\ InCalls \/ InBatch \/ at.pc = "ask"
    /\ at.retries < CrashRetryMax
    /\ at' = [at EXCEPT !.run = 0, !.valid = FALSE]
    /\ UNCHANGED <<order, journal, crashCache, silent>>

\* The runner crashes under the call, and recovers: the same call again.
RetryCall ==
    /\ InCalls \/ InBatch \/ at.pc = "ask"
    /\ at.retries < CrashRetryMax
    /\ at' = [at EXCEPT !.retries = @ + 1]
    /\ UNCHANGED <<order, journal, crashCache, silent>>

\* It crashed once too often, or does not recover.
GiveUp ==
    /\ InCalls
    /\ RecordCrash
    /\ RecordCase(Ends("failed"))
    /\ at' = Stop("-")
    /\ UNCHANGED <<order, marks, stage, silent>>

\* slow_tps_early_exit
MaySlow == Single /\ at.valid /\ at.depth = 1

RecordSingle ==
    /\ at.pc = "record"
    /\ \/ /\ RecordCase(IF at.valid THEN "complete" ELSE IF Single THEN "invalid" ELSE "failed")
          /\ at' = Onward(at.depth)
       \/ MaySlow /\ RecordCase("slow") /\ at' = Stop("-")
    /\ UNCHANGED <<order, marks, stage, crashCache, silent>>
-------------------------------------------------------------------------------
\* A measured batch of a concurrency level (_fire_measured_batch).

BatchDone ==
    /\ InBatch
    /\ RecordCase("complete")
    /\ \/ at' = Onward(at.depth)
       \/ at.depth >= SoftFloor /\ at' = Stop("slow")      \* should_stop_escalating
    /\ UNCHANGED <<order, marks, stage, crashCache, silent>>

BatchUseless ==
    /\ InBatch
    /\ \E why \in {"invalid", "failed"} : RecordCase(why) /\ at' = Stop(why)
    /\ UNCHANGED <<order, marks, stage, crashCache, silent>>

BatchCrashes ==
    /\ InBatch
    /\ RecordCrash
    /\ RecordCase("failed")
    /\ at' = Stop("crashed")
    /\ UNCHANGED <<order, marks, stage, silent>>
-------------------------------------------------------------------------------
\* The turns of a conversation that reach the next checkpoint.  One that an
\* earlier process completed is reached only to rebuild the server's cache.

InTurn == at.pc = "turn"
ToMeasure == Pending(M, at.depth)
RecordTurn(state) == IF ToMeasure THEN RecordCase(state) ELSE UNCHANGED cases

\* should_stop_for_slow_measurement
TurnSlow ==
    /\ InTurn
    /\ ToMeasure
    /\ RecordTurn("complete")
    /\ at' = Stop("slow")
    /\ UNCHANGED <<order, marks, stage, crashCache, silent>>

TurnReaches ==
    /\ InTurn
    /\ \E state \in {"complete", "invalid"} : RecordTurn(state)
    /\ at' = IF at.depth = plan.depths THEN Stop("-") ELSE [at EXCEPT !.depth = @ + 1]
    /\ UNCHANGED <<order, marks, stage, crashCache, silent>>

\* compute_growth_step runs out of room: nothing is recorded.
OutOfRoom ==
    /\ InTurn /\ at.depth > 1
    /\ at' = Stop("-")
    /\ UNCHANGED <<order, journal, crashCache, silent>>

TurnTimesOut ==
    /\ InTurn
    /\ RecordTurn("timed_out")
    /\ at' = Stop("timed_out")
    /\ UNCHANGED <<order, marks, stage, crashCache, silent>>

\* A crash is not repeated: what the server remembered is gone.
TurnCrashes ==
    /\ InTurn
    /\ RecordTurn("failed")
    /\ at' = Stop("crashed")
    /\ UNCHANGED <<order, marks, stage, crashCache, silent>>

\* Another error is recorded for a checkpoint to measure, and for no other.
TurnFails ==
    /\ InTurn
    /\ RecordTurn("failed")
    /\ at' = Stop("-")
    /\ UNCHANGED <<order, marks, stage, crashCache, silent>>
-------------------------------------------------------------------------------
\* The questions of an accuracy test, after one warm-up.

LoadedAcc ==
    /\ at.pc = "load" /\ kind = "acc"
    /\ Go("ask")
    /\ UNCHANGED <<order, journal, crashCache, silent>>

\* The model is left with no record of it.
WarmupFailsAcc ==
    /\ at.pc = "load" /\ kind = "acc"
    /\ RecordCrash
    /\ NextModel
    /\ silent' = silent \cup {M}
    /\ UNCHANGED <<order, journal>>

\* An answer, a part of one, or none: a question that timed out, looped or met
\* an ordinary error is complete.
Answered ==
    /\ at.pc = "ask"
    /\ RecordCase("complete")
    /\ at' = Onward(at.depth)
    /\ UNCHANGED <<order, marks, stage, crashCache, silent>>

AnswerCrashes ==
    /\ at.pc = "ask"
    /\ RecordCrash
    /\ RecordCase("failed")
    /\ at' = Stop("-")
    /\ UNCHANGED <<order, marks, stage, silent>>
-------------------------------------------------------------------------------
\* Image resolutions, after one warm-up in ComfyUI.

LoadedImage ==
    /\ at.pc = "load" /\ kind = "image"
    /\ Go("draw")
    /\ UNCHANGED <<order, journal, crashCache, silent>>

\* Every pending resolution fails; when ComfyUI does not come back either, the
\* exception ends the process (Fail).
WarmupFailsImage ==
    /\ at.pc = "load" /\ kind = "image"
    /\ cases' = [cases EXCEPT ![M] = [d \in Depths |->
                     IF Pending(M, d) THEN "failed" ELSE cases[M][d]]]
    /\ NextModel
    /\ UNCHANGED <<order, marks, stage, crashCache, silent>>

\* A resolution of which no run gave an image is failed, and the next is taken.
Drawn ==
    /\ at.pc = "draw"
    /\ \E state \in {"complete", "failed"} : RecordCase(state)
    /\ at' = Onward(at.depth)
    /\ UNCHANGED <<order, marks, stage, crashCache, silent>>

DrawTimesOut ==
    /\ at.pc = "draw"
    /\ RecordCase("timed_out")
    /\ at' = Stop("-")
    /\ UNCHANGED <<order, marks, stage, crashCache, silent>>
-------------------------------------------------------------------------------
\* Native benchmarks: vllm bench runs a process for each size and kind,
\* llama-bench streams the rows of a sweep.

\* vllm bench may end well and report nothing that can be used.
BenchDone ==
    /\ at.pc = "load" /\ kind = "vllm"
    /\ \E state \in {"complete", "failed"} : RecordCase(state)
    /\ at' = Onward(at.depth)
    /\ UNCHANGED <<order, marks, stage, crashCache, silent>>

BenchFails ==
    /\ at.pc = "load" /\ kind = "vllm"
    /\ \E state \in {"timed_out", "failed"} : RecordCase(state)
    /\ at' = Stop("-")
    /\ UNCHANGED <<order, marks, stage, crashCache, silent>>

RowStreams ==
    /\ at.pc = "load" /\ Streaming
    /\ RecordCase("complete")
    /\ at' = Onward(at.depth)
    /\ UNCHANGED <<order, marks, stage, crashCache, silent>>

\* The sweep goes silent or fails: the model's state says so.
SweepStops ==
    /\ at.pc = "load" /\ Streaming
    /\ \E why \in {"timed_out", "failed"} : at' = Stop(why)
    /\ UNCHANGED <<order, journal, crashCache, silent>>
-------------------------------------------------------------------------------
\* The soak of a model: its case begins in the journal when the load starts,
\* requests are recorded until the time is up.

WarmupFailsSoak ==
    /\ at.pc = "load" /\ kind = "soak"
    /\ RecordCrash
    /\ IF MarkAccepted("failed") THEN Mark("failed") /\ NextModel
       ELSE Go("raised") /\ UNCHANGED marks
    /\ UNCHANGED <<order, cases, stage, silent>>

SoakBegins ==
    /\ at.pc = "load" /\ kind = "soak"
    /\ RecordCase("running")
    /\ Go("soak")
    /\ UNCHANGED <<order, marks, stage, crashCache, silent>>

\* The time is up, or a request fails or crashes: the first is not repeated and
\* the crash is not remembered.
SoakEnds ==
    /\ at.pc = "soak"
    /\ \E state \in {"complete", "failed"} : RecordCase(state)
    /\ NextModel
    /\ UNCHANGED <<order, marks, stage, crashCache, silent>>
-------------------------------------------------------------------------------
\* The end of a model, and of the stage.

MarkFor(why) == CASE why = "slow" -> "complete"
                  [] why \in {"invalid", "timed_out"} -> why
                  [] OTHER -> "failed"

Close ==
    /\ at.pc = "close"
    /\ IF kind = "conv" /\ at.stop = "crashed" THEN RecordCrash ELSE UNCHANGED crashCache
    /\ IF at.stop = "-" THEN NextModel /\ UNCHANGED marks
       ELSE IF MarkAccepted(MarkFor(at.stop)) THEN Mark(MarkFor(at.stop)) /\ NextModel
       ELSE Go("raised") /\ UNCHANGED marks
    /\ UNCHANGED <<order, cases, stage, silent>>

Unresolved ==
    \/ \E c \in CaseIds : cases[c[1]][c[2]] \notin Settled \cup {"none"}
    \/ \E m \in Models : \E s \in OpenMarks : marks[m][s] # "none"

\* journal.finish
Finish ==
    /\ at.pc = "finish" \/ (at.pc = "model" /\ M \notin Models)
    /\ stage' = IF (selected \/ kind = "soak") /\ Unresolved THEN "failed" ELSE "complete"
    /\ End
    /\ UNCHANGED <<order, cases, marks, crashCache, silent>>

RunnerStep ==
    \/ Start \/ NotPulled \/ KnownCrash \/ Take \/ Handle \/ Close \/ Finish
    \/ LoadedSingle \/ WarmupFailsSingle \/ LoadedConv \/ WarmupFailsConv
    \/ LoadedConc \/ LoadFailsConc \/ WarmupCrashesConc
    \/ Called \/ CallTimesOut \/ RetryCall \/ GiveUp \/ RecordSingle
    \/ BatchDone \/ BatchUseless \/ BatchCrashes
    \/ LoadedAcc \/ WarmupFailsAcc \/ Answered \/ AnswerCrashes
    \/ LoadedImage \/ WarmupFailsImage \/ Drawn \/ DrawTimesOut
    \/ BenchDone \/ BenchFails \/ RowStreams \/ SweepStops
    \/ WarmupFailsSoak \/ SoakBegins \/ SoakEnds
    \/ MeetStray \/ NoBinary \/ NoFiles \/ HandleBatch
    \/ TurnSlow \/ TurnReaches \/ OutOfRoom \/ TurnTimesOut \/ TurnCrashes \/ TurnFails
    \/ Unreachable \/ Fail
-------------------------------------------------------------------------------
\* Around the process.

Kill ==
    /\ at.pc \notin Ended
    /\ End
    /\ UNCHANGED <<order, journal, crashCache, silent>>

Session ==
    /\ at.pc \in Ended /\ session < MaxSessions
    /\ session' = session + 1
    /\ at' = Begun /\ cache' = {} /\ stage' = "running"
    /\ crashers' = crashers \cup cache
    /\ UNCHANGED <<plan, known>>

Open(c) == cases[c[1]][c[2]] \notin Settled \cup {"none"}
Reopen(sel) == cases' = [m \in Models |-> [d \in Depths |->
                             IF <<m, d>> \in sel THEN "running" ELSE cases[m][d]]]

\* A bug: the states of models are not reopened.
ResumeCasesOnly ==
    /\ Session /\ stage # "complete"
    /\ Reopen({c \in CaseIds : Open(c)})
    /\ picked' = CaseIds /\ selected' = FALSE
    /\ UNCHANGED <<retry, marks, silent>>

\* prepare_recovery, and a new process, for whatever is not settled.
Resume ==
    /\ Session /\ stage # "complete"
    /\ Reopen({c \in CaseIds : Open(c)})
    /\ marks' = [m \in Models |-> [s \in MarkStates |->
                    IF s \in OpenMarks /\ marks[m][s] = "set" THEN "running" ELSE marks[m][s]]]
    /\ picked' = CaseIds /\ selected' = FALSE
    /\ UNCHANGED <<retry, silent>>

\* The same for selected cases: retryable_case_records offers no state of a
\* model, and nothing of the tools that stream.
RetryCases ==
    /\ Session /\ stage # "complete" /\ ~Streaming
    /\ \E sel \in SUBSET {c \in CaseIds : Open(c)} :
           sel # {} /\ Reopen(sel) /\ picked' = sel
    /\ selected' = TRUE
    /\ UNCHANGED <<retry, marks, silent>>

\* A new job: a new journal, the same crash cache file.
NewRun ==
    /\ Session
    /\ cases' = NoCases /\ marks' = NoMarks
    /\ picked' = CaseIds /\ selected' = FALSE
    /\ retry' \in BOOLEAN /\ silent' = {}

Over == at.pc \in Ended /\ session = MaxSessions /\ UNCHANGED vars

Next == RunnerStep \/ Kill \/ Resume \/ RetryCases \/ NewRun \/ Over

Spec == Init /\ [][Next]_vars /\ WF_vars(RunnerStep)
-------------------------------------------------------------------------------
\* Where a process is: with a case, on the way to one, or at an end.
AtCase == {"load", "prime", "measure", "record", "turn", "ask", "draw", "soak"}
Places == AtCase \cup {"start", "model", "close", "raised", "finish"} \cup Ended
Stops == {"-", "slow", "invalid", "failed", "timed_out", "crashed"}
Positions == [pc : Places, model : 1 .. plan.models + 1, depth : Nat, run : Nat,
              valid : BOOLEAN, retries : Nat, stop : Stops]

TypeOK ==
    /\ plan \in Plans /\ retry \in BOOLEAN /\ selected \in BOOLEAN
    /\ cases \in [Models -> [Depths -> Recorded \cup {"none", "running"}]]
    /\ marks \in [Models -> [MarkStates -> {"none", "running", "set"}]]
    /\ stage \in {"running", "complete", "failed"}
    /\ picked \subseteq CaseIds
    /\ known \subseteq Models /\ cache \subseteq Models /\ silent \subseteq Models
    /\ crashers \subseteq Models
    /\ session \in 1 .. MaxSessions
    /\ at \in Positions

\* A deeper context, checkpoint or level is recorded only when every shallower
\* one of the model is in the journal, through failed loads, retries, kills
\* and resumes (the loops over model_ctx_lengths, checkpoints and levels).
RecordedIsPrefix ==
    \A m \in Models : \A d \in Depths : cases[m][d] \in Recorded =>
        \A e \in 1 .. d : cases[m][e] # "none"

Explained(m) ==
    \/ \E s \in MarkStates : marks[m][s] = "set"
    \/ \E d \in Depths : cases[m][d] \in {"slow", "failed", "timed_out"}

\* When the stage is complete, the journal says why a case of a model was not
\* measured: a state of the model, or a failed, timed-out or slow case.  What
\* records nothing is a model that the single-shot tests find not pulled or
\* that fails the warm-up of an accuracy test, an engine that is gone before
\* the model is taken, a missing llama-bench, and nothing else.
MissingIsExplained ==
    stage = "complete" /\ kind # "conv" => \A m \in Models \ silent :
        (\E d \in Depths : cases[m][d] \notin Recorded) => Explained(m)

\* A model whose crashes an earlier process recorded is not loaded or asked
\* again, in whatever job, unless the run retries such models
\* (docs/project-structure.md:75).
CrashersAreLeftAlone ==
    at.pc \in Calling /\ M \in crashers => retry

\* The process that resumes a whole stage outlives what its models do: the
\* journal accepts each failure it records, also one that is there already.
\* Only the image test lets an exception through, and the journal of soaks
\* accepts no state of a model twice.
ResumeOutlivesItsModels == at.pc = "died" => selected \/ kind \in {"image", "soak"}

\* The same for any process, as docs/workloads.md:31 has it: what goes wrong
\* "stops that model's current workload".
FailureIsTheModelsOwn == at.pc # "died"

-------------------------------------------------------------------------------
\* The inductive invariant behind these, in parts.

\* Each place belongs to some workloads, and has the model and depth it needs.
PlaceFits ==
    /\ at.pc \in AtCase \cup {"close", "raised"} => M \in Models
    /\ at.pc \in AtCase \/ (at.pc = "raised" /\ kind = "emb") => at.depth \in Depths
    /\ at.pc = "close" /\ kind = "emb" => at.stop = "-"
    /\ at.pc = "prime" => kind = "cached"
    /\ at.pc = "measure" => Repeated \/ kind = "conc"
    /\ at.pc = "record" => Repeated
    /\ at.pc = "turn" => kind = "conv"
    /\ at.pc = "ask" => kind = "acc"
    /\ at.pc = "draw" => kind = "image"
    /\ at.pc = "soak" => kind = "soak"

\* The only process has the crash cache file in memory, and what it held when
\* the process began decides which models it loads.
CachesAgree ==
    /\ crashers \subseteq known
    /\ cache \subseteq known
    /\ at.pc = "start" => cache = {}
    /\ at.pc \notin {"start", "finish"} \cup Ended => cache = known
CrashersAreSkipped == at.pc \in AtCase /\ M \in crashers => retry

\* A process works in depth order: nothing shallower is left to do.
ShallowerIsDone ==
    at.pc \in AtCase => \A e \in Depths : e < at.depth =>
        IF kind = "conv" THEN cases[M][e] # "none" ELSE ~Pending(M, e)

\* A process for the whole stage finds the state of no model set that it has
\* not left yet.
MarksAreOpen ==
    ~selected /\ at.pc \notin Ended =>
        \A m \in Models : \A s \in OpenMarks : m >= M => marks[m][s] # "set"

StageFits ==
    /\ stage # "running" => at.pc \in Ended
    /\ ~selected => picked = CaseIds

\* A model that has been left has nothing to do, or a reason in the journal, or
\* is among those left out without a record.
Through(m) == m \in silent \/ Explained(m) \/ \A d \in Depths : ~Pending(m, d)
LeftIsThrough ==
    kind # "conv" =>
        /\ at.pc \notin Ended => \A m \in Models : m < M => Through(m)
        /\ at.pc = "close" /\ at.stop = "-" => Through(M)
        /\ at.pc = "finish" => \A m \in Models : Through(m)

LoopInv == /\ PlaceFits /\ CachesAgree /\ CrashersAreSkipped /\ ShallowerIsDone
           /\ MarksAreOpen /\ StageFits /\ LeftIsThrough
-------------------------------------------------------------------------------
\* export: what a section shows of a model, by depth.  A state of the model adds
\* to what was measured; with questions and images it stands in its place.
Shown(m) ==
    IF kind \in {"acc", "image"} /\ \E s \in MarkStates : marks[m][s] = "set" THEN {}
    ELSE {d \in Depths : cases[m][d] \in Settled}

\* What the journal holds as complete is in the section.
CompleteIsShown ==
    \A m \in Models : \A d \in Depths : cases[m][d] \in Settled => d \in Shown(m)

\* How far a process is, from what takes longest to change to what changes with
\* every call: the model, the part of its work, the depth, the place, the call.
Leg(a) == CASE a.pc = "start" -> 0
            [] a.pc = "finish" -> plan.models + 2
            [] a.pc \in Ended -> plan.models + 3
            [] OTHER -> a.model
Part(a) == CASE a.pc \in AtCase -> 1 [] a.pc = "close" -> 2 [] a.pc = "raised" -> 3 [] OTHER -> 0
DepthOf(a) == IF a.pc \in AtCase THEN a.depth ELSE 0
Place(a) == CASE a.pc = "load" -> 0 [] a.pc = "prime" -> 1 [] a.pc = "record" -> 3 [] OTHER -> 2

Further(a, b) ==
    \/ Leg(a) < Leg(b)
    \/ /\ Leg(a) = Leg(b)
       /\ \/ Part(a) < Part(b)
          \/ /\ Part(a) = Part(b)
             /\ \/ DepthOf(a) < DepthOf(b)
                \/ /\ DepthOf(a) = DepthOf(b)
                   /\ \/ Place(a) < Place(b)
                      \/ /\ Place(a) = Place(b)
                         /\ \/ a.run < b.run
                            \/ a.run = b.run /\ a.retries < b.retries

\* None of these grows without end.
CallsAreCounted ==
    /\ DepthOf(at) <= plan.depths /\ at.run <= Runs /\ at.retries <= CrashRetryMax
    /\ at.pc \in {"start", "model", "load", "prime"} => at.run = 0
    /\ at.pc = "measure" /\ Repeated => at.run < Runs

\* Why a process ends: it never goes back, whatever fails, crashes and is repeated.
ProcessGoesForward == [][session' = session => Further(at, at')]_vars

\* A process ends, however often the runner crashes under its calls.
StageEnds == (at.pc \notin Ended) ~> (at.pc \in Ended)
=============================================================================
