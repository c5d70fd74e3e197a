---------------------------- MODULE EventJournal ----------------------------
(***************************************************************************)
(* The durable job journal (scripts/results/event_store.py) together with  *)
(* the stage journals that write to it (scripts/results/*_event_stage.py). *)
(*                                                                         *)
(* The variables are the projection that EventStore.rebuild computes from  *)
(* the append-only events: the state of the job, of each stage, of each    *)
(* case, and of each numbered attempt of a case.  A call of                *)
(* EventStore.append is one SQLite transaction, so each action below is    *)
(* one such transaction, except where the code commits twice.              *)
(*                                                                         *)
(* Two processes write, in turns: the parent (start_stage,                 *)
(* prepare_recovery, finish_job, resume_job) and the workload runner it    *)
(* launches for one stage.  A crash of either is the runner going away and *)
(* nothing being written; whatever was left running stays running until    *)
(* prepare_recovery finds it.                                              *)
(***************************************************************************)
EXTENDS Naturals

CONSTANTS
    Stages,         \* the plan's journal-owned stages
    Cases,          \* the durable cases of those stages
    StageOf,        \* [Cases -> Stages], the parent of each case
    ModelStates,    \* [state cases -> outcome]: record_model_state cases, which
                    \* have no attempts; the outcome is part of their identity
    Sustained,      \* stages that record a case in several appends (soak tests)
    Retryable,      \* SELECTED_RETRY_STAGES: stages whose cases may be picked
    Failures,       \* the failing ends of an attempt that are told apart
    MaxAttempts,    \* bound on the attempts a case may have
    NoRunner        \* no workload runner is alive

Meta == DOMAIN ModelStates
Measured == Cases \ Meta

Settled == {"complete", "skipped"}
RECOVERABLE_STATES == {"failed", "interrupted", "invalid", "timed_out"}
TERMINAL_STATES == Settled \cup RECOVERABLE_STATES
EntityStates == {"none", "running"} \cup TERMINAL_STATES
Numbers == 1 .. MaxAttempts

ASSUME JournalAssumption ==
    /\ StageOf \in [Cases -> Stages]
    /\ Meta \subseteq Cases
    /\ ModelStates \in [Meta -> {"complete", "skipped", "failed"}]
    /\ Sustained \subseteq Stages
    /\ Retryable \subseteq Stages
    /\ Failures \subseteq {"failed", "timed_out"}
    /\ MaxAttempts \in Nat \ {0}
    /\ NoRunner \notin Stages

VARIABLES
    jobRow,      \* the row of table jobs, inserted by its own transaction
    jobState, jobResumed,             \* the job and its retained recovery mark
    stageState, stageScope, picked,   \* a stage, its recovery_scope and selected_case_ids
    caseState, caseRetry,             \* a case and its retained recovery = "retry"
    attempts,    \* attempts[c][n]: the state of attempt number n of case c
    valid,       \* the attempts that hold a valid sample
    runner,      \* the stage whose runner process is alive, or NoRunner
    done         \* the cases that runner has already gone through

jobVars == <<jobRow, jobState, jobResumed>>
stageVars == <<stageState, stageScope, picked>>
caseVars == <<caseState, caseRetry, attempts, valid>>
vars == <<jobVars, stageVars, caseVars, runner, done>>

CasesOf(s) == {c \in Cases : StageOf[c] = s}

Init ==
    /\ jobRow = FALSE /\ jobState = "none" /\ jobResumed = FALSE
    /\ stageState = [s \in Stages |-> "none"]
    /\ stageScope = [s \in Stages |-> "none"]
    /\ picked = [s \in Stages |-> {}]
    /\ caseState = [c \in Cases |-> "none"]
    /\ caseRetry = [c \in Cases |-> FALSE]
    /\ attempts = [c \in Cases |-> [n \in Numbers |-> "none"]]
    /\ valid = [c \in Cases |-> {}]
    /\ runner = NoRunner
    /\ done = {}

-----------------------------------------------------------------------------
(***************************************************************************)
(* What apply_event accepts (STATE_TRANSITIONS plus recovery_transition).  *)
(***************************************************************************)

LegalTransition(from, to, recovery) ==
    \/ from = "none" /\ to = "running"
    \/ from = "running" /\ to \in TERMINAL_STATES
    \/ from \in RECOVERABLE_STATES /\ to = "running" /\ recovery

(***************************************************************************)
(* The parent.                                                             *)
(***************************************************************************)

\* start_stage goes through: the job is new, or has been started, and the
\* stage is new.
StartAccepted(s) ==
    /\ jobRow => jobState # "none"
    /\ LegalTransition(stageState[s], "running", FALSE)

\* start_stage: one append starts the job, if it is new, and the stage.  The
\* store would add a stage to a job that has ended; no caller asks for it
\* (WorkIsOnAnOpenJob of BenchmarkRun).
StartStage(s) ==
    /\ runner = NoRunner
    /\ jobState \in {"none", "running"}
    /\ StartAccepted(s)
    /\ jobRow' = TRUE
    /\ jobState' = "running"
    /\ stageState' = [stageState EXCEPT ![s] = "running"]
    /\ runner' = s
    /\ done' = {}
    /\ UNCHANGED <<jobResumed, stageScope, picked, caseVars>>

\* create_job commits on its own: a crash before the append that follows
\* leaves a job row without events.
CrashAfterCreateJob ==
    /\ ~jobRow
    /\ runner = NoRunner
    /\ jobRow' = TRUE
    /\ UNCHANGED <<jobState, jobResumed, stageVars, caseVars, runner, done>>

\* Mutant: an invalid case is taken for finished.
CandidatesButInvalid(s) ==
    {c \in CasesOf(s) : caseState[c] \notin Settled \cup {"none", "invalid"}}

\* Cases of s that prepare_recovery regards as not finished.
Candidates(s) ==
    {c \in CasesOf(s) : caseState[c] # "none" /\ caseState[c] \notin Settled}

\* prepare_recovery does not raise "completed state cannot be resumed".
ReopenAccepted(s) ==
    /\ stageState[s] \notin Settled \cup {"none"}
    /\ jobState \notin {"none", "complete"}

\* What prepare_recovery appends, in one transaction, for the cases in sel.
\* It also launches the runner: run_supervised_stage does nothing in between.
Reopen(s, sel, scope) ==
    /\ runner = NoRunner
    /\ ReopenAccepted(s)
    /\ attempts' = [c \in Cases |-> [n \in Numbers |->
            IF c \in sel /\ attempts[c][n] = "running"
            THEN "interrupted" ELSE attempts[c][n]]]
    /\ caseState' = [c \in Cases |-> IF c \in sel THEN "running" ELSE caseState[c]]
    /\ caseRetry' = [c \in Cases |-> c \in sel \/ caseRetry[c]]
    /\ stageState' = [stageState EXCEPT ![s] = "running"]
    /\ stageScope' = [stageScope EXCEPT ![s] = scope]
    /\ picked' = [picked EXCEPT ![s] = IF scope = "selected" THEN sel ELSE {}]
    /\ jobState' = "running"
    /\ jobResumed' = (jobResumed \/ jobState # "running")
    /\ runner' = s
    /\ done' = {}
    /\ UNCHANGED <<jobRow, valid>>

\* prepare_recovery for a resume: every unfinished case of the stage.
PrepareResume(s) == Reopen(s, Candidates(s), "all")

\* prepare_recovery for a retry of cases the user picked (only measured
\* cases are offered, see retryable_case_records).
PrepareRetry(s, sel) ==
    /\ s \in Retryable
    /\ sel # {}
    /\ sel \subseteq Candidates(s) \cap Measured
    /\ Reopen(s, sel, "selected")

\* finish_job.  The signal handler calls it while the runner is still alive;
\* the other callers do so once it is gone.
FinishJob(state) ==
    /\ state \in {"complete", "failed", "interrupted"}
    /\ state = "interrupted" \/ runner = NoRunner
    /\ jobState = "running"
    /\ LegalTransition(jobState, state, FALSE)
    /\ jobState' = state
    /\ UNCHANGED <<jobRow, jobResumed, stageVars, caseVars, runner, done>>

\* Mutant: any ended job may be resumed.
ResumeAnyJob ==
    /\ runner = NoRunner
    /\ jobState \in TERMINAL_STATES
    /\ jobState' = "running"
    /\ jobResumed' = TRUE
    /\ UNCHANGED <<jobRow, stageVars, caseVars, runner, done>>

\* resume_job: a job that is already running and marked is left alone.
ResumeJob ==
    /\ runner = NoRunner
    /\ \/ jobState = "running" /\ ~jobResumed
       \/ jobState \in RECOVERABLE_STATES
    /\ jobState' = "running"
    /\ jobResumed' = TRUE
    /\ UNCHANGED <<jobRow, stageVars, caseVars, runner, done>>

\* resume_job interrupts a running job in an append of its own: a crash
\* before the second append leaves the job interrupted.
CrashInResumeJob ==
    /\ runner = NoRunner
    /\ jobState = "running" /\ ~jobResumed
    /\ jobState' = "interrupted"
    /\ UNCHANGED <<jobRow, jobResumed, stageVars, caseVars, runner, done>>

-----------------------------------------------------------------------------
(***************************************************************************)
(* The workload runner of a stage.                                         *)
(***************************************************************************)

\* The runner of c's stage is alive and has not finished the stage.
Working(c) ==
    /\ runner = StageOf[c]
    /\ stageState[StageOf[c]] = "running"
    /\ c \notin done

\* max(numbers, default=0) over the attempt numbers f uses.
LastUsed(f) ==
    LET used == {n \in Numbers : f[n] # "none"}
    IN  CHOOSE k \in 0 .. MaxAttempts :
            k \in used \cup {0} /\ \A n \in used : n <= k

Latest(c) == LastUsed(attempts[c])

NotPicked(c) == stageScope[StageOf[c]] = "selected" /\ c \notin picked[StageOf[c]]

\* next_attempt hands out a number.  In the runner recovery_attempts is empty,
\* so what counts is the retry mark in the journal; the sustained stage does
\* not look at that mark.
AttemptOffered(c) ==
    \/ caseState[c] = "none"
    \/ /\ caseState[c] \notin Settled
       /\ StageOf[c] \notin Sustained
       /\ ~NotPicked(c)
       /\ caseRetry[c]

\* Mutants: numbering that starts at 2; a retry that reuses the last number.
NextAttemptFromTwo(c) == IF Latest(c) = 0 THEN 2 ELSE Latest(c) + 1
NextAttemptReused(c) == IF Latest(c) = 0 THEN 1 ELSE Latest(c)

NextAttempt(c) == Latest(c) + 1

\* next_attempt raises "incomplete ... case was not prepared for recovery".
AttemptRaises(c) ==
    /\ caseState[c] \notin Settled \cup {"none"}
    /\ \/ StageOf[c] \in Sustained
       \/ ~NotPicked(c) /\ ~caseRetry[c]

\* The ways a record_* call may end: state of the attempt, state of the case,
\* and whether any sample of the attempt is valid.
Outcomes ==
    {[attempt |-> "complete", case |-> "complete", valid |-> TRUE],
     [attempt |-> "complete", case |-> "invalid",  valid |-> FALSE]}
    \cup {[attempt |-> f, case |-> f, valid |-> v] :
            f \in Failures, v \in BOOLEAN}

WithAttempt(c, n, state) == [attempts EXCEPT ![c][n] = state]

WithSample(c, n, v) ==
    [valid EXCEPT ![c] = IF v THEN @ \cup {n} ELSE @]

\* record_case, record_question, record_batch, record_resolution,
\* record_entry: one append with the case if it is new, the attempt, its
\* samples, and the end of both.
RecordCase(c, o) ==
    /\ c \in Measured /\ StageOf[c] \notin Sustained
    /\ Working(c)
    /\ AttemptOffered(c) /\ NextAttempt(c) \in Numbers
    /\ caseState[c] \in {"none", "running"}
    /\ caseState' = [caseState EXCEPT ![c] = o.case]
    /\ attempts' = WithAttempt(c, NextAttempt(c), o.attempt)
    /\ valid' = WithSample(c, NextAttempt(c), o.valid)
    /\ done' = done \cup {c}
    /\ UNCHANGED <<jobVars, stageVars, caseRetry, runner>>

\* SustainedEventStage.begin_case
BeginCase(c) ==
    /\ c \in Measured /\ StageOf[c] \in Sustained
    /\ Working(c)
    /\ AttemptOffered(c) /\ NextAttempt(c) \in Numbers
    /\ caseState' = [caseState EXCEPT ![c] = "running"]
    /\ attempts' = WithAttempt(c, NextAttempt(c), "running")
    /\ done' = done \cup {c}
    /\ UNCHANGED <<jobVars, stageVars, caseRetry, valid, runner>>

\* The soak loop of the runner is at case c.
Soaking(c) ==
    /\ c \in done /\ runner = StageOf[c] /\ StageOf[c] \in Sustained
    /\ stageState[StageOf[c]] = "running"
    /\ Latest(c) \in Numbers
    /\ attempts[c][Latest(c)] = "running"

\* SustainedEventStage.record_request
RecordRequest(c) ==
    /\ Soaking(c)
    /\ valid' = WithSample(c, Latest(c), TRUE)
    /\ UNCHANGED <<jobVars, stageVars, caseState, caseRetry, attempts, runner, done>>

\* Mutants: the attempt is left open; the case is complete whatever the attempt.
CompleteCaseOnly(c, state) ==
    /\ Soaking(c)
    /\ state \in {"complete", "failed"}
    /\ caseState' = [caseState EXCEPT ![c] = state]
    /\ UNCHANGED <<jobVars, stageVars, caseRetry, attempts, valid, runner, done>>
CompleteCaseAlways(c, state) ==
    /\ Soaking(c)
    /\ state \in {"complete", "failed"}
    /\ attempts' = WithAttempt(c, Latest(c), state)
    /\ caseState' = [caseState EXCEPT ![c] = "complete"]
    /\ UNCHANGED <<jobVars, stageVars, caseRetry, valid, runner, done>>

\* SustainedEventStage.complete_case
CompleteCase(c, state) ==
    /\ Soaking(c)
    /\ state \in {"complete", "failed"}
    /\ attempts' = WithAttempt(c, Latest(c), state)
    /\ caseState' = [caseState EXCEPT ![c] = state]
    /\ UNCHANGED <<jobVars, stageVars, caseRetry, valid, runner, done>>

\* record_model_state: a settled state case is left alone, a failed one must
\* have been prepared, and the sustained stage always starts the case anew.
RecordModelState(m) ==
    /\ m \in Meta
    /\ Working(m)
    /\ caseState[m] \in IF StageOf[m] \in Sustained THEN {"none"} ELSE {"none", "running"}
    /\ caseState' = [caseState EXCEPT ![m] = ModelStates[m]]
    /\ done' = done \cup {m}
    /\ UNCHANGED <<jobVars, stageVars, caseRetry, attempts, valid, runner>>

\* Some case of the stage is recorded and not settled.
Unresolved(s) == Candidates(s) # {}

\* The soak stage fails whenever something is unresolved, the others only
\* after a selected retry (the native tool stages know no selected retry).
FinishState(s) ==
    IF Unresolved(s) /\ (s \in Sustained \/ stageScope[s] = "selected")
    THEN "failed" ELSE "complete"

\* finish, the last append of a runner.
FinishStage(s) ==
    /\ runner = s
    /\ stageState[s] = "running"
    /\ \A c \in CasesOf(s) : ~Soaking(c)
    /\ stageState' = [stageState EXCEPT ![s] = FinishState(s)]
    /\ UNCHANGED <<jobVars, stageScope, picked, caseVars, runner, done>>

\* The runner ends, fails, is killed, or its machine goes down.
RunnerExit ==
    /\ runner # NoRunner
    /\ runner' = NoRunner
    /\ UNCHANGED <<jobVars, stageVars, caseVars, done>>

-----------------------------------------------------------------------------
Parent ==
    \/ \E s \in Stages : StartStage(s) \/ PrepareResume(s)
    \/ \E s \in Stages : \E sel \in SUBSET Cases : PrepareRetry(s, sel)
    \/ \E state \in TERMINAL_STATES : FinishJob(state)
    \/ ResumeJob
    \/ CrashAfterCreateJob
    \/ CrashInResumeJob

Runner ==
    \/ \E c \in Cases : \/ \E o \in Outcomes : RecordCase(c, o)
                        \/ BeginCase(c)
                        \/ RecordRequest(c)
                        \/ \E state \in TERMINAL_STATES : CompleteCase(c, state)
                        \/ RecordModelState(c)
    \/ \E s \in Stages : FinishStage(s)
    \/ RunnerExit

Next == Parent \/ Runner

Spec == Init /\ [][Next]_vars

-----------------------------------------------------------------------------
(***************************************************************************)
(* Properties.                                                             *)
(***************************************************************************)

\* Every variable keeps its type.
TypeOK ==
    /\ jobRow \in BOOLEAN
    /\ jobState \in EntityStates
    /\ jobResumed \in BOOLEAN
    /\ stageState \in [Stages -> EntityStates]
    /\ stageScope \in [Stages -> {"none", "all", "selected"}]
    /\ picked \in [Stages -> SUBSET Cases]
    /\ caseState \in [Cases -> EntityStates]
    /\ caseRetry \in [Cases -> BOOLEAN]
    /\ attempts \in [Cases -> [Numbers -> EntityStates]]
    /\ valid \in [Cases -> SUBSET Numbers]
    /\ runner \in Stages \cup {NoRunner}
    /\ done \in SUBSET Cases

\* The attempts of a case are numbered without gaps and only the last one may
\* be running: every export reads "the attempt with the highest number"
\* (LLMEventStage.export and the like) and relies on it.
AttemptsAreSequential ==
    \A c \in Cases : \A m, n \in Numbers :
        m < n /\ attempts[c][n] # "none" => attempts[c][m] \notin {"none", "running"}

\* A case that is not running has no running attempt, so an export that skips
\* running cases never reads samples that are still being written.
OpenAttemptHasRunningCase ==
    \A c \in Cases : \A n \in Numbers :
        attempts[c][n] = "running" => caseState[c] = "running"

\* A complete measured case is backed by its last attempt: that attempt is
\* complete and, outside the soak tests, has a valid sample, however many
\* attempts failed, crashed or were interrupted before it.
CompleteCaseIsMeasured ==
    \A c \in Measured : caseState[c] = "complete" =>
        /\ Latest(c) \in Numbers /\ attempts[c][Latest(c)] = "complete"
        /\ StageOf[c] \notin Sustained => Latest(c) \in valid[c]

\* Whenever next_attempt hands a number to the runner, apply_event will accept
\* the record made under it: the case is new or running and the number unused.
\* (record_case and record_entry do not look at the case's state themselves.)
OfferedAttemptIsAccepted ==
    \A c \in Measured :
        Working(c) /\ AttemptOffered(c) /\ NextAttempt(c) \in Numbers =>
            /\ caseState[c] \in {"none", "running"}
            /\ attempts[c][NextAttempt(c)] = "none"

\* A runner of a resumed stage never meets a case that was left unfinished and
\* not prepared: next_attempt does not raise.
NoUnpreparedCase ==
    \A c \in Measured : Working(c) /\ StageOf[c] \notin Sustained => ~AttemptRaises(c)

\* The same for every workload, the soak test included: the claim of
\* docs/cli-reference.md:132 that every workload supports in-place resume.
EveryWorkloadResumes ==
    \A c \in Measured : Working(c) => ~AttemptRaises(c)

\* A stage that a selected retry completed has no unfinished case left, picked
\* or not ("selected_retry_has_remaining_cases" otherwise).
SelectedCompletionIsTotal ==
    \A s \in Stages :
        stageState[s] = "complete" /\ stageScope[s] = "selected" => ~Unresolved(s)

\* While the runner of a selected retry works, a measured case that was already
\* in the journal and was not picked is not touched.
SelectedScopeIsRespected ==
    [][\A c \in Measured :
        /\ runner = StageOf[c] /\ runner' = runner
        /\ NotPicked(c) /\ NotPicked(c)'
        /\ caseState[c] # "none"
        => /\ caseState'[c] = caseState[c]
           /\ attempts'[c] = attempts[c]]_vars

\* A complete job is closed for good: no later step changes the job, and no
\* stage is reopened under it.
CompleteJobIsClosed ==
    [][jobState = "complete" =>
        /\ jobState' = "complete"
        /\ \A s \in Stages : stageState[s] # "running" => stageState'[s] = stageState[s]]_vars

(***************************************************************************)
(* The inductive invariant behind the properties above.                    *)
(***************************************************************************)

\* f uses exactly the numbers 1 .. k.
Dense(f, k) == \A n \in Numbers : f[n] # "none" <=> n <= k

\* The used attempt numbers of a case are 1 .. k for some k.
NumbersAreDense ==
    \A c \in Cases : \E k \in 0 .. MaxAttempts : Dense(attempts[c], k)

\* Cases belong to a stage that was started; stages to a job that was.
ParentsExist ==
    /\ \A c \in Cases : caseState[c] # "none" => stageState[StageOf[c]] # "none"
    /\ jobState # "none" => jobRow

\* What the runner has not gone through yet is settled, not picked, or ready
\* to be retried.
RunnerIsPrepared ==
    \A c \in Cases :
        /\ runner = StageOf[c] /\ c \notin done
        /\ caseState[c] \notin Settled \cup {"none"}
        /\ ~NotPicked(c)
        => caseState[c] = "running" /\ caseRetry[c]

\* A case that was never recorded has no attempts, a state case never has any.
AttemptsBelongToCases ==
    \A c \in Cases : \A n \in Numbers :
        attempts[c][n] # "none" => c \in Measured /\ caseState[c] # "none"

\* Only a soak test leaves an attempt open between two appends.
OnlySoaksStayOpen ==
    \A c \in Cases : \A n \in Numbers :
        attempts[c][n] = "running" => StageOf[c] \in Sustained

IInv ==
    /\ TypeOK
    /\ NumbersAreDense
    /\ AttemptsAreSequential
    /\ AttemptsBelongToCases
    /\ OpenAttemptHasRunningCase
    /\ OnlySoaksStayOpen
    /\ CompleteCaseIsMeasured
    /\ ParentsExist
    /\ RunnerIsPrepared
    /\ SelectedCompletionIsTotal

(***************************************************************************)
(* The journal implements the ledger.                                      *)
(***************************************************************************)

OpenCases == {c \in Measured : \E n \in Numbers : attempts[c][n] = "running"}

History(c) ==
    [n \in {k \in Numbers : attempts[c][k] \in TERMINAL_STATES} |-> attempts[c][n]]

Ledger == INSTANCE AttemptLedger WITH
    Cases <- Measured,
    Verdicts <- TERMINAL_STATES,
    history <- [c \in Measured |-> History(c)],
    open <- OpenCases,
    settled <- {c \in Measured : caseState[c] \in Settled}

\* Every step of the journal is a step of the ledger or leaves it alone.
ImplementsLedger == Ledger!Spec
=============================================================================
