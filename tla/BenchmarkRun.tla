---------------------------- MODULE BenchmarkRun ----------------------------
(***************************************************************************)
(* A run and its recovery, over the two records it leaves behind: the      *)
(* event journal (module EventJournal) and the result JSON (ResultStore).  *)
(*                                                                         *)
(* One parent process at a time works on the result: the first execution   *)
(* (main and execute_stages of scripts/app), a fork, a resume or a retry   *)
(* of selected cases (scripts/results/recovery_executor.py).  The parent   *)
(* is a program: pc says which of its durable steps is next.  Each step    *)
(* commits to one of the two records, or launches or awaits the runner of  *)
(* a stage, so a crash or an exception may fall between any two of them.   *)
(***************************************************************************)
EXTENDS EventJournal, Sequences

CONSTANTS
    Order,          \* plan.stage_order, a sequence of all the Stages
    Faults,         \* what may go wrong besides a runner failing at its work:
                    \*   "preflight"  the runtime preflight raises
                    \*   "parent"     the parent raises around a runner: engine
                    \*                preparation, export, stage cleanup
                    \*   "late"       the runner fails after its last append
                    \*   "engine"     a workload finds its engine not running
                    \*   "interrupt"  Ctrl-C while recovering or forking
                    \*   "signal"     SIGINT or SIGTERM in the first execution
                    \*   "crash"      the machine stops
    MaxRecoveries   \* bound on resumes and retries

ASSUME RunAssumption ==
    /\ Order \in Seq(Stages)
    /\ \A s \in Stages : \E i \in DOMAIN Order : Order[i] = s
    /\ \A i, j \in DOMAIN Order : Order[i] = Order[j] => i = j
    /\ Order # <<>>
    /\ Faults \subseteq {"preflight", "parent", "late", "engine", "interrupt",
                         "signal", "crash"}
    /\ MaxRecoveries \in Nat

VARIABLES
    runStatus,     \* data["run"]["status"] on disk, "none" before the first write
    stageStatus,   \* data["run"]["stages"][s]["status"] on disk
    mode,          \* the entry point the parent was started through
    pc,            \* its next durable step, "idle" when there is no parent
    at,            \* the position in Order it has reached
    ending,        \* the state it is about to give to the job and the run
    chosen,        \* the cases a retry was asked for
    recoveries     \* how many resumes and retries were started

json == <<runStatus, stageStatus>>
parent == <<mode, pc, at, ending, chosen, recoveries>>
runVars == <<vars, json, parent>>

\* "partial" is left out: no caller of ResultStore.finish gives it.
TERMINAL_STATUSES == {"complete", "interrupted", "failed"}
Stage == Order[at]

RunInit ==
    /\ Init
    /\ runStatus = "none"
    /\ stageStatus = [s \in Stages |-> "none"]
    /\ mode = "run" /\ pc = "idle" /\ at = 1
    /\ ending = "complete" /\ chosen = {} /\ recoveries = 0

-----------------------------------------------------------------------------
(***************************************************************************)
(* Starting a parent.                                                      *)
(***************************************************************************)

\* main and fork_journal_run write a manifest that says "running".
Launch(m) ==
    /\ pc = "idle" /\ runStatus = "none"
    /\ m \in {"run", "fork"}
    /\ runStatus' = "running"
    /\ mode' = m
    /\ pc' = IF m = "run" THEN "preflight" ELSE "stage"
    /\ UNCHANGED <<vars, stageStatus, at, ending, chosen, recoveries>>

\* The runtime preflight of main: outside the try block, so when it raises
\* nothing is written.
Preflight ==
    /\ pc = "preflight"
    /\ pc' = "stage"
    /\ UNCHANGED <<vars, json, mode, at, ending, chosen, recoveries>>

PreflightRaises ==
    /\ "preflight" \in Faults
    /\ pc = "preflight"
    /\ pc' = "idle"
    /\ UNCHANGED <<vars, json, mode, at, ending, chosen, recoveries>>

\* inspect_recovery offers recovery: same identity, neither record complete.
CanResume == jobRow /\ jobState # "complete" /\ runStatus \notin {"none", "complete"}

MayRecover == pc = "idle" /\ CanResume /\ recoveries < MaxRecoveries

\* retryable_case_records: measured cases not settled, whatever their stage is.
RetryableCases(s) ==
    {c \in CasesOf(s) \cap Measured : caseState[c] \in RECOVERABLE_STATES \cup {"running"}}

\* Mutant: the job is not resumed.
ResumeWithoutJob ==
    /\ MayRecover
    /\ mode' = "resume" /\ pc' = "begin" /\ at' = 1
    /\ ending' = "complete" /\ chosen' = {}
    /\ recoveries' = recoveries + 1
    /\ UNCHANGED <<vars, json>>

\* resume_journal_run up to and with journal.resume_job
Resume ==
    /\ MayRecover
    /\ \/ ResumeJob
       \/ jobState = "running" /\ jobResumed /\ UNCHANGED vars
    /\ mode' = "resume" /\ pc' = "begin" /\ at' = 1
    /\ ending' = "complete" /\ chosen' = {}
    /\ recoveries' = recoveries + 1
    /\ UNCHANGED json

\* retry_selected_cases up to store.begin_recovery
Retry(i, sel) ==
    /\ MayRecover
    /\ Order[i] \in Retryable
    /\ sel # {} /\ sel \subseteq RetryableCases(Order[i])
    /\ mode' = "retry" /\ pc' = "begin" /\ at' = i
    /\ ending' = "complete" /\ chosen' = sel
    /\ recoveries' = recoveries + 1
    /\ UNCHANGED <<vars, json>>

\* ResultStore.begin_recovery
BeginRecovery ==
    /\ pc = "begin"
    /\ runStatus \in TERMINAL_STATUSES
    /\ runStatus' = "running"
    /\ pc' = "stage"
    /\ UNCHANGED <<vars, stageStatus, mode, at, ending, chosen, recoveries>>

\* "only a terminal run can begin recovery": raised outside the try block.
BeginRecoveryRaises ==
    /\ pc = "begin"
    /\ runStatus \notin TERMINAL_STATUSES
    /\ pc' = "idle"
    /\ UNCHANGED <<vars, json, mode, at, ending, chosen, recoveries>>

-----------------------------------------------------------------------------
(***************************************************************************)
(* One stage.                                                              *)
(***************************************************************************)

\* To the next stage, or to the end of the job.
Advance ==
    /\ at' = IF at = Len(Order) THEN at ELSE at + 1
    /\ pc' = IF at = Len(Order) THEN "job" ELSE "stage"
    /\ UNCHANGED <<mode, ending, chosen, recoveries>>

\* Into the except block that ends the run with e.  The first execution ends
\* the job first, the recoveries the JSON stage.
Fail(e) ==
    /\ ending' = e
    /\ pc' = IF mode = "run" THEN "fail_job" ELSE "fail_stage"
    /\ UNCHANGED <<mode, at, chosen, recoveries>>

\* The runner, if any, goes away: supervisor.cancel() in a finally block.
NoMoreRunner ==
    \/ RunnerExit
    \/ runner = NoRunner /\ UNCHANGED vars

\* resume_journal_run skips what the JSON calls complete.
SkipStage ==
    /\ pc = "stage" /\ mode = "resume"
    /\ stageStatus[Stage] = "complete"
    /\ Advance
    /\ UNCHANGED <<vars, json>>

\* Mutant: a resume opens complete stages too.
OpenAnyStage ==
    /\ pc = "stage"
    /\ stageStatus' = [stageStatus EXCEPT ![Stage] = "running"]
    /\ pc' = "journal"
    /\ UNCHANGED <<vars, runStatus, mode, at, ending, chosen, recoveries>>

\* ResultStore.start_stage or resume_stage; a retry resumes a complete stage too.
OpenStage ==
    /\ pc = "stage"
    /\ stageStatus[Stage] # "running"
    /\ mode = "resume" => stageStatus[Stage] # "complete"
    /\ stageStatus' = [stageStatus EXCEPT ![Stage] = "running"]
    /\ pc' = "journal"
    /\ UNCHANGED <<vars, runStatus, mode, at, ending, chosen, recoveries>>

\* Mutant: a resume prepares a stage that was never started, too.
RecoversAlways == mode \in {"retry", "resume"}

\* The stage is prepared for recovery rather than started.
Recovers ==
    \/ mode = "retry"
    \/ mode = "resume" /\ stageState[Stage] # "none"

\* run_supervised_stage: the constructor of the stage journal, then the runner.
OpenJournal ==
    /\ pc = "journal"
    /\ \/ ~Recovers /\ StartStage(Stage)
       \/ Recovers /\ mode = "resume" /\ PrepareResume(Stage)
       \/ Recovers /\ mode = "retry" /\ PrepareRetry(Stage, chosen)
    /\ pc' = "supervise"
    /\ UNCHANGED <<json, mode, at, ending, chosen, recoveries>>

\* start_stage or prepare_recovery raises.
OpenJournalRaises ==
    /\ pc = "journal"
    /\ IF Recovers THEN ~ReopenAccepted(Stage) ELSE ~StartAccepted(Stage)
    /\ Fail("failed")
    /\ UNCHANGED <<vars, json>>

\* The runner at work, also while a signal handler runs in the parent.
RunnerWorks ==
    /\ pc \in {"supervise", "sig_job", "sig_result", "sig_exit"}
    /\ \/ \E c \in Cases : \/ \E o \in Outcomes : RecordCase(c, o)
                           \/ BeginCase(c)
                           \/ RecordRequest(c)
                           \/ \E state \in TERMINAL_STATES : CompleteCase(c, state)
                           \/ RecordModelState(c)
       \/ \E s \in Stages : FinishStage(s)
    /\ UNCHANGED <<json, parent>>

\* Mutant: the exit status alone says complete.
RunnerSucceedsAnyway ==
    /\ pc = "supervise"
    /\ RunnerExit
    /\ pc' = "record"
    /\ UNCHANGED <<json, mode, at, ending, chosen, recoveries>>

\* The runner says it is complete: it has finished the stage, or it returned
\* early because the engine it had started no longer runs.
RunnerSucceeds ==
    /\ pc = "supervise"
    /\ \/ stageState[Stage] # "running"
       \/ "engine" \in Faults /\ done = {}
    /\ RunnerExit
    /\ pc' = "record"
    /\ UNCHANGED <<json, mode, at, ending, chosen, recoveries>>

\* The runner fails or stops answering and is cancelled.
RunnerFails ==
    /\ pc = "supervise"
    /\ stageState[Stage] = "running" \/ "late" \in Faults
    /\ RunnerExit
    /\ Fail("failed")
    /\ UNCHANGED json

\* ResultStore.update_section and complete_stage
RecordStage ==
    /\ pc = "record"
    /\ mode # "retry"
    /\ stageStatus' = [stageStatus EXCEPT ![Stage] = "complete"]
    /\ Advance
    /\ UNCHANGED <<vars, runStatus>>

\* A retry records the state of the journal's stage, and ends the job and the
\* run with it.
RetryStatus == IF stageState[Stage] = "complete" THEN "complete" ELSE "failed"

RecordRetry ==
    /\ pc = "record"
    /\ mode = "retry"
    /\ stageStatus' = [stageStatus EXCEPT ![Stage] = RetryStatus]
    /\ ending' = RetryStatus
    /\ pc' = "job"
    /\ UNCHANGED <<vars, runStatus, mode, at, chosen, recoveries>>

\* Mutant: the JSON is ended before the journal.
EndRunFirst ==
    /\ pc = "job"
    /\ runStatus' = ending
    /\ pc' = "result"
    /\ UNCHANGED <<vars, stageStatus, mode, at, ending, chosen, recoveries>>

\* finish_event_job / _finish_journal_job, then ResultStore.finish
EndJob ==
    /\ pc = "job"
    /\ FinishJob(ending)
    /\ pc' = "result"
    /\ UNCHANGED <<json, mode, at, ending, chosen, recoveries>>

EndRun ==
    /\ pc = "result"
    /\ runStatus' = ending
    /\ pc' = "idle"
    /\ UNCHANGED <<vars, stageStatus, mode, at, ending, chosen, recoveries>>

-----------------------------------------------------------------------------
(***************************************************************************)
(* Exceptions, signals, crashes.                                           *)
(***************************************************************************)

ParentRaises ==
    /\ "parent" \in Faults
    /\ \/ pc \in {"journal", "record"}
       \/ pc = "job" /\ mode = "run"     \* the final cleanup
    /\ Fail("failed")
    /\ UNCHANGED <<vars, json>>

\* Ctrl-C in the try block of a recovery or a fork.
Interrupt ==
    /\ "interrupt" \in Faults /\ mode # "run"
    /\ \/ pc \in {"journal", "supervise", "record", "job", "result"}
       \/ pc = "stage" /\ mode # "retry"
    /\ NoMoreRunner
    /\ Fail("interrupted")
    /\ UNCHANGED json

\* Ctrl-C before it.
InterruptEarly ==
    /\ "interrupt" \in Faults
    /\ \/ pc = "begin"
       \/ pc = "stage" /\ mode = "retry"
    /\ pc' = "idle"
    /\ UNCHANGED <<vars, json, mode, at, ending, chosen, recoveries>>

\* The running stage, if any, takes the ending.
CloseActive(e) ==
    [s \in Stages |-> IF stageStatus[s] = "running" THEN e ELSE stageStatus[s]]

\* A retry completes its stage again, which raises when it is not running.
FailStageRaises ==
    /\ pc = "fail_stage"
    /\ mode = "retry" /\ stageStatus[Stage] # "running"
    /\ pc' = "idle"
    /\ UNCHANGED <<vars, json, mode, at, ending, chosen, recoveries>>

FailStage ==
    /\ pc = "fail_stage"
    /\ mode = "retry" => stageStatus[Stage] = "running"
    /\ stageStatus' = CloseActive(ending)
    /\ pc' = "fail_job"
    /\ UNCHANGED <<vars, runStatus, mode, at, ending, chosen, recoveries>>

\* Mutant: a failed run completes its job.
FailJobAsComplete ==
    /\ pc = "fail_job"
    /\ FinishJob("complete")
    /\ pc' = "fail_result"
    /\ UNCHANGED <<json, mode, at, ending, chosen, recoveries>>

\* A job that is not running keeps its state (preserve_terminal; the first
\* execution swallows the exception).
FailJob ==
    /\ pc = "fail_job"
    /\ mode = "run" \/ jobState # "none"
    /\ \/ FinishJob(ending)
       \/ jobState # "running" /\ UNCHANGED vars
    /\ pc' = "fail_result"
    /\ UNCHANGED <<json, mode, at, ending, chosen, recoveries>>

\* _finish_journal_job looks the job up: without one it raises in the except
\* block, and the run is not finished.
FailJobRaises ==
    /\ pc = "fail_job"
    /\ mode # "run" /\ jobState = "none"
    /\ pc' = "idle"
    /\ UNCHANGED <<vars, json, mode, at, ending, chosen, recoveries>>

\* Mutant: the run is left running.
FailResultStageOnly ==
    /\ pc = "fail_result"
    /\ stageStatus' = CloseActive(ending)
    /\ pc' = "idle"
    /\ UNCHANGED <<vars, runStatus, mode, at, ending, chosen, recoveries>>

\* ResultStore.finish, or checkpoint_terminal_exception in the first execution.
FailResult ==
    /\ pc = "fail_result"
    /\ runStatus' = ending
    /\ stageStatus' = CloseActive(ending)
    /\ pc' = "idle"
    /\ UNCHANGED <<vars, mode, at, ending, chosen, recoveries>>

\* _cleanup of main, entered at any point of the first execution.
Signal ==
    /\ "signal" \in Faults
    /\ mode = "run"
    /\ pc \in {"preflight", "stage", "journal", "supervise", "record", "job", "result",
               "fail_job", "fail_result"}
    /\ pc' = "sig_job"
    /\ UNCHANGED <<vars, json, mode, at, ending, chosen, recoveries>>

\* finish_event_job; what it raises is logged.
SignalJob ==
    /\ pc = "sig_job"
    /\ \/ FinishJob("interrupted")
       \/ jobState # "running" /\ UNCHANGED vars
    /\ pc' = "sig_result"
    /\ UNCHANGED <<json, mode, at, ending, chosen, recoveries>>

\* atomic_write_json of the interrupted run
SignalResult ==
    /\ pc = "sig_result"
    /\ runStatus' = "interrupted"
    /\ stageStatus' = CloseActive("interrupted")
    /\ pc' = "sig_exit"
    /\ UNCHANGED <<vars, mode, at, ending, chosen, recoveries>>

\* sys.exit: the exception unwinds through supervisor.cancel().
SignalExit ==
    /\ pc = "sig_exit"
    /\ NoMoreRunner
    /\ pc' = "idle"
    /\ UNCHANGED <<json, mode, at, ending, chosen, recoveries>>

\* The machine stops, also between the two commits of create_job and append
\* and between those of resume_job.
Crash ==
    /\ "crash" \in Faults
    /\ \/ pc # "idle" /\ NoMoreRunner
       \/ pc = "journal" /\ ~Recovers /\ CrashAfterCreateJob
       \/ MayRecover /\ CrashInResumeJob
    /\ pc' = "idle"
    /\ UNCHANGED <<json, mode, at, ending, chosen, recoveries>>

-----------------------------------------------------------------------------
Starting ==
    \/ \E m \in {"run", "fork"} : Launch(m)
    \/ Resume
    \/ \E i \in DOMAIN Order : \E sel \in SUBSET Cases : Retry(i, sel)

Proceeding ==
    \/ Preflight \/ BeginRecovery \/ BeginRecoveryRaises
    \/ SkipStage \/ OpenStage \/ OpenJournal \/ OpenJournalRaises
    \/ RunnerSucceeds \/ RecordStage \/ RecordRetry \/ EndJob \/ EndRun
    \/ FailStage \/ FailStageRaises \/ FailJob \/ FailJobRaises \/ FailResult
    \/ SignalJob \/ SignalResult \/ SignalExit

Failing ==
    \/ PreflightRaises \/ RunnerFails \/ ParentRaises
    \/ Interrupt \/ InterruptEarly \/ Signal \/ Crash

RunNext == Starting \/ Proceeding \/ RunnerWorks \/ Failing

RunSpec == RunInit /\ [][RunNext]_runVars

\* Every step of a parent that is not waiting for a user or a fault is taken,
\* and no runner lasts for ever: requests have timeouts, and a runner that
\* stops sending heartbeats is cancelled.
Fairness == WF_runVars(Proceeding \/ RunnerFails)

(***************************************************************************)
(* The moments at which the code leaves the records apart for good, or the *)
(* JSON running, when something befalls the parent or its runner just then *)
(* (README, "Where the code and its documentation part").                  *)
(***************************************************************************)

\* No handler ends the JSON: before the try block, or nothing left to run it.
RunIsAbandoned ==
    runStatus = "running" /\ (PreflightRaises \/ InterruptEarly \/ Crash)

\* The journal is ahead of the JSON by an end of the stage or of the job, the
\* JSON ahead of the journal by the end of a retried stage, or there is no job
\* yet that could be resumed.
BetweenCommits ==
    \/ pc \in {"supervise", "record"} /\ stageState[Stage] \in Settled
    \/ pc = "result"
    \/ pc = "job" /\ mode = "retry"
    \/ jobState = "none"

FailsBetweenCommits ==
    BetweenCommits /\ (RunnerFails \/ ParentRaises \/ Interrupt \/ Signal)

\* The runner settles its stage under the signal handler.
FinishesUnderHandler ==
    pc \in {"sig_job", "sig_result", "sig_exit"} /\ \E s \in Stages : FinishStage(s)

\* Cases are picked from a stage the journal has settled: it is not reopened.
RetriesSettledStage ==
    \E i \in DOMAIN Order : \E sel \in SUBSET Cases :
        Retry(i, sel) /\ stageState[Order[i]] \in Settled

Untimely ==
    RunIsAbandoned \/ FailsBetweenCommits \/ FinishesUnderHandler \/ RetriesSettledStage

\* Every fault, but at another moment; what a parent does by itself is free.
TimelySpec == RunInit /\ [][RunNext /\ (Untimely => Proceeding)]_runVars

FairTimelySpec == TimelySpec /\ Fairness

-----------------------------------------------------------------------------
(***************************************************************************)
(* Properties.                                                             *)
(***************************************************************************)

\* Every variable keeps its type.
RunTypeOK ==
    /\ TypeOK
    /\ runStatus \in {"none", "running"} \cup TERMINAL_STATUSES
    /\ stageStatus \in [Stages -> {"none", "running"} \cup TERMINAL_STATUSES]
    /\ mode \in {"run", "fork", "resume", "retry"}
    /\ pc \in {"idle", "preflight", "begin", "stage", "journal", "supervise", "record",
               "job", "result", "fail_stage", "fail_job", "fail_result",
               "sig_job", "sig_result", "sig_exit"}
    /\ at \in DOMAIN Order
    /\ ending \in TERMINAL_STATUSES
    /\ chosen \in SUBSET Cases
    /\ recoveries \in 0 .. MaxRecoveries

\* A run that has ended on disk has no stage that still runs, so that
\* resume_stage never finds a stage it cannot reopen, wherever the parent
\* before it was stopped.
EndedRunHasEndedStages ==
    runStatus \in TERMINAL_STATUSES => \A s \in Stages : stageStatus[s] # "running"

\* "Portable JSON becomes complete only after the journal transition succeeds"
\* (docs/how-it-works.md:112): the JSON never says complete of a job that the
\* journal does not.
CompleteRunHasCompleteJob == runStatus = "complete" => jobState = "complete"

\* While a parent works on a stage the job is running in the journal, so no
\* stage is started or finished under a job that has ended, and the parent
\* can always give the job its end.
WorkIsOnAnOpenJob ==
    /\ pc \in {"supervise", "record", "job"} => jobState = "running"
    /\ pc = "journal" /\ ~Recovers => jobState \in {"none", "running"}

\* What the last runner of c's stage did not come to: the case is new, or still
\* as prepare_recovery left it, and no measurement of it is open.
Untried(c) ==
    /\ caseState[c] = "none" \/ (caseState[c] = "running" /\ caseRetry[c])
    /\ \A n \in Numbers : attempts[c][n] # "running"

\* A stage the JSON calls complete hides nothing that went wrong: where the
\* journal does not agree, because a workload found its engine gone and its
\* runner reported success all the same, the cases that are not settled are
\* those no runner came to, however many faults and recoveries lie before.
\* (The runner of a soak test reports a failed stage as a success.)
CompleteStageHidesNothing ==
    \A s \in Stages \ Sustained :
        stageStatus[s] = "complete" /\ stageState[s] # "complete" =>
            \A c \in CasesOf(s) : caseState[c] \in Settled \/ Untried(c)

\* What would be expected: a stage the JSON calls complete is complete in the
\* journal, the record it is a projection of.
CompleteStageIsCommitted ==
    \A s \in Stages \ Sustained :
        stageStatus[s] = "complete" => stageState[s] = "complete"

\* A resume leaves the JSON record of a complete stage alone.
ResumeKeepsCompleteStages ==
    [][\A s \in Stages :
        mode = "resume" /\ mode' = "resume" /\ stageStatus[s] = "complete"
        => stageStatus'[s] = "complete"]_runVars

\* The journal accepts the call that opens a stage, and its job is open for it,
\* unless it has settled the stage ahead of the JSON.
OpeningIsAccepted ==
    pc = "journal" =>
        /\ runner = NoRunner
        /\ \/ ~Recovers /\ StartAccepted(Stage) /\ jobState \in {"none", "running"}
           \/ /\ Recovers /\ ReopenAccepted(Stage)
              /\ mode = "retry" => /\ Stage \in Retryable /\ chosen # {}
                                   /\ chosen \subseteq Candidates(Stage) \cap Measured
           \/ Recovers /\ stageState[Stage] \in Settled

\* The job takes its end, from the run or from an exception handler, unless it
\* has one already or the parent is the first and has not started it.
EndingIsAccepted ==
    /\ pc = "job" => runner = NoRunner /\ jobState = "running"
    /\ pc \in {"fail_stage", "fail_job"} =>
            runner = NoRunner /\ (jobState = "none" => mode \in {"run", "fork"})

\* The JSON takes the start of a stage, and its end from the handler of a retry
\* unless the retry has ended it.
JsonStageIsAccepted ==
    /\ pc = "stage" => stageStatus[Stage] # "running"
    /\ pc = "fail_stage" /\ mode = "retry" =>
            stageStatus[Stage] \in {"running", RetryStatus}

\* Neither record refuses a call of a parent, its exception handlers included,
\* through any sequence of faults and recoveries, but where what the call asks
\* for has been done before: no other refusal hides an error or skips the rest
\* of a handler.
CallsAreAccepted == OpeningIsAccepted /\ EndingIsAccepted /\ JsonStageIsAccepted

\* Whatever a parent does with the journal is a behaviour of EventJournal, so
\* what is proved of the journal holds of every run.
RunUsesJournal == Spec

\* A run that stopped short is one that a resume accepts: the JSON is terminal
\* (begin_recovery), the job can be resumed (resume_job), and no stage that
\* the resume would enter is complete in the journal (prepare_recovery).
StoppedRunIsResumable ==
    pc = "idle" /\ runStatus \notin {"none", "complete"} =>
        /\ runStatus \in TERMINAL_STATUSES
        /\ jobState \in RECOVERABLE_STATES \cup {"running"}
        /\ \A s \in Stages : stageStatus[s] # "complete" => stageState[s] \notin Settled

\* A run that was launched is given an end in the JSON.
RunGetsAnEnd == runStatus = "running" ~> runStatus \in TERMINAL_STATUSES

\* Where a parent is, on its way through the stages or to an end.
Station(p) == CASE p \in {"preflight", "begin"} -> 0
                [] p \in {"stage", "journal", "supervise", "record"} -> 1
                [] p = "job" -> 2 [] p = "result" -> 3
                [] p = "fail_stage" -> 4 [] p = "fail_job" -> 5 [] p = "fail_result" -> 6
                [] p = "sig_job" -> 7 [] p = "sig_result" -> 8 [] p = "sig_exit" -> 9
                [] OTHER -> 10
InStage(p) == CASE p = "stage" -> 0 [] p = "journal" -> 1 [] p = "supervise" -> 2 [] OTHER -> 3

\* Why: a parent takes the stages one after the other and never comes back to a
\* step, whatever fails on the way and however it is interrupted.
ParentGoesForward ==
    [][pc # "idle" /\ parent' # parent =>
           \/ Station(pc) < Station(pc')
           \/ /\ Station(pc) = 1 /\ Station(pc') = 1
              /\ at < at' \/ (at = at' /\ InStage(pc) < InStage(pc'))]_runVars

\* No run is left "running" by a parent that has gone.
StoppedRunIsTerminal == pc = "idle" => runStatus # "running"

\* A run that is complete has completed all its stages.
CompleteRunIsTotal ==
    runStatus = "complete" => \A s \in Stages : stageStatus[s] = "complete"

\* Before the manifest is written there is nothing else.
NothingBeforeLaunch ==
    runStatus = "none" =>
        pc = "idle" /\ jobState = "none" /\ \A s \in Stages : stageStatus[s] = "none"

\* The JSON of a run that is being worked on is not terminal.
EndedRunIsLeftAlone == runStatus \in TERMINAL_STATUSES => pc \in {"idle", "begin", "sig_exit"}

\* At most the stage the parent is at runs in the JSON.
OneActiveStage ==
    /\ pc \in {"preflight", "stage", "job", "result"} =>
            \A s \in Stages : stageStatus[s] # "running"
    /\ pc \in {"journal", "supervise", "record"} =>
            \A s \in Stages : s # Stage => stageStatus[s] # "running"

\* What the parent is about to write as the end of the run.
EndingFitsJob ==
    /\ pc = "result" => jobState = ending
    /\ pc \in {"fail_stage", "fail_job", "fail_result"} => ending # "complete"

\* The job in front of a stage that is to be started.
JobAwaitsStage ==
    pc \in {"preflight", "begin", "stage", "journal"} =>
        /\ mode = "resume" => jobState = "running"
        /\ mode \in {"run", "fork"} => jobState \in {"none", "running"}

RunInv ==
    /\ RunTypeOK
    /\ NothingBeforeLaunch
    /\ EndedRunIsLeftAlone
    /\ EndedRunHasEndedStages
    /\ OneActiveStage
    /\ EndingFitsJob
    /\ JobAwaitsStage
    /\ CompleteRunHasCompleteJob
    /\ WorkIsOnAnOpenJob
=============================================================================
