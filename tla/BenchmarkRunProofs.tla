------------------------- MODULE BenchmarkRunProofs -------------------------
(***************************************************************************)
(* Proofs about the journal, for every set of stages and cases and every   *)
(* bound on the attempts, under JournalAssumption; about a run and its     *)
(* recoveries, for every plan, every set of faults and every bound on the  *)
(* recoveries, under RunAssumption, too; and about the passes of which a   *)
(* run executes one, for every registry and every command line, under      *)
(* PlanAssumption.  StoppedRuns is about every fault, but at the moments   *)
(* that Untimely names.  Last, about the window that launches the runs,    *)
(* for every number of them and of results and every length of its queue,  *)
(* under WindowAssumption.                                                 *)
(*                                                                         *)
(* IInv is shown to hold initially and to be preserved by every action of  *)
(* the journal; its safety properties follow from it, and the journal is   *)
(* shown to implement the ledger of AttemptLedger.  Every step of a run    *)
(* does to the journal what a step of EventJournal does, or nothing; so    *)
(* what is shown of the journal holds of every run.  RunInv then relates   *)
(* the two records.  WindowInv says of what the window knows that it is of *)
(* the process it watches.                                                 *)
(***************************************************************************)
EXTENDS BenchmarkRun, PassPlan, BenchmarkWindow, SequenceTheorems, WellFoundedInduction, TLAPS

-----------------------------------------------------------------------------
(* Numbers and the last number in use.                                     *)

\* max(numbers, default=0) of a case whose numbers are 1 .. k is k.
LEMMA LastUsedOfDense ==
    ASSUME NEW f, NEW k \in 0 .. MaxAttempts, Dense(f, k)
    PROVE  LastUsed(f) = k
<1> DEFINE used == {n \in Numbers : f[n] # "none"}
<1> DEFINE IsLast(j) == j \in used \cup {0} /\ \A n \in used : n <= j
<1>0. MaxAttempts \in Nat
  BY JournalAssumption
<1>1. used = 1 .. k
  BY <1>0 DEF Dense, Numbers
<1>2. IsLast(k)
  BY <1>0, <1>1
<1>3. ASSUME NEW j \in 0 .. MaxAttempts, IsLast(j)
      PROVE  j = k
  BY <1>0, <1>1, <1>3
<1>4. LastUsed(f) = CHOOSE j \in 0 .. MaxAttempts : IsLast(j)
  BY DEF LastUsed
<1> HIDE DEF IsLast
<1>5. QED
  BY <1>2, <1>3, <1>4

\* Taking the next number, or writing to the last one, keeps them dense.
LEMMA WriteKeepsDense ==
    ASSUME NEW f \in [Numbers -> EntityStates],
           NEW k \in 0 .. MaxAttempts, Dense(f, k),
           NEW n \in Numbers, n = k \/ n = k + 1,
           NEW st, st # "none"
    PROVE  Dense([f EXCEPT ![n] = st], n)
BY JournalAssumption DEF Dense, Numbers

\* Latest of the model is the last number of the case.
LEMMA LatestIsLast ==
    ASSUME NumbersAreDense, NEW c \in Cases
    PROVE  /\ Latest(c) \in 0 .. MaxAttempts
           /\ Dense(attempts[c], Latest(c))
BY LastUsedOfDense DEF NumbersAreDense, Latest

-----------------------------------------------------------------------------
(* Types.                                                                  *)

LEMMA InitType == Init => TypeOK
BY DEF Init, TypeOK, EntityStates

LEMMA ReopenType ==
    ASSUME TypeOK, NEW s \in Stages, NEW sel \in SUBSET Cases,
           NEW scope \in {"all", "selected"}, Reopen(s, sel, scope)
    PROVE  TypeOK'
<1>1. stageState' \in [Stages -> EntityStates]
  BY DEF TypeOK, Reopen, EntityStates
<1>2. stageScope' \in [Stages -> {"none", "all", "selected"}]
  BY DEF TypeOK, Reopen
<1>3. picked' \in [Stages -> SUBSET Cases]
  BY DEF TypeOK, Reopen
<1>4. caseState' \in [Cases -> EntityStates]
  BY DEF TypeOK, Reopen, EntityStates
<1>5. attempts' \in [Cases -> [Numbers -> EntityStates]]
  BY DEF TypeOK, Reopen, EntityStates, TERMINAL_STATES, RECOVERABLE_STATES
<1>6. caseRetry' \in [Cases -> BOOLEAN]
  BY DEF TypeOK, Reopen
<1>7. QED
  BY <1>1, <1>2, <1>3, <1>4, <1>5, <1>6 DEF TypeOK, Reopen, EntityStates

\* What a record writes keeps the types of the case's variables.
LEMMA WriteType ==
    ASSUME TypeOK, NEW c \in Cases, NEW n \in Numbers,
           NEW st \in EntityStates, NEW v \in BOOLEAN
    PROVE  /\ WithAttempt(c, n, st) \in [Cases -> [Numbers -> EntityStates]]
           /\ WithSample(c, n, v) \in [Cases -> SUBSET Numbers]
           /\ [caseState EXCEPT ![c] = st] \in [Cases -> EntityStates]
           /\ (done \cup {c}) \in SUBSET Cases
BY DEF TypeOK, WithAttempt, WithSample

LEMMA OutcomesAreStates ==
    ASSUME NEW o \in Outcomes
    PROVE  /\ o.attempt \in EntityStates \ {"none", "running"}
           /\ o.case \in EntityStates \ {"none", "running"}
           /\ o.valid \in BOOLEAN
           /\ o.case = "complete" => o.attempt = "complete" /\ o.valid
<1>1. CASE o = [attempt |-> "complete", case |-> "complete", valid |-> TRUE]
  BY <1>1 DEF EntityStates, TERMINAL_STATES, Settled, RECOVERABLE_STATES
<1>2. CASE o = [attempt |-> "complete", case |-> "invalid", valid |-> FALSE]
  BY <1>2 DEF EntityStates, TERMINAL_STATES, Settled, RECOVERABLE_STATES
<1>3. ASSUME NEW f \in Failures, NEW v \in BOOLEAN,
             o = [attempt |-> f, case |-> f, valid |-> v]
      PROVE  /\ o.attempt \in EntityStates \ {"none", "running"}
             /\ o.case \in EntityStates \ {"none", "running"}
             /\ o.valid \in BOOLEAN
             /\ o.case # "complete"
  <2>1. f \in {"failed", "timed_out"}
    BY JournalAssumption
  <2>2. QED
    BY <1>3, <2>1 DEF EntityStates, TERMINAL_STATES, RECOVERABLE_STATES
<1>4. QED
  BY <1>1, <1>2, <1>3 DEF Outcomes

LEMMA TypeStep == TypeOK /\ [Next]_vars => TypeOK'
<1> SUFFICES ASSUME TypeOK, [Next]_vars PROVE TypeOK'
  OBVIOUS
<1>1. ASSUME NEW s \in Stages, StartStage(s) PROVE TypeOK'
  BY <1>1 DEF TypeOK, StartStage, caseVars, EntityStates
<1>2. ASSUME NEW s \in Stages, PrepareResume(s) PROVE TypeOK'
  BY <1>2, ReopenType DEF PrepareResume, Candidates, CasesOf
<1>3. ASSUME NEW s \in Stages, NEW sel \in SUBSET Cases, PrepareRetry(s, sel)
      PROVE  TypeOK'
  BY <1>3, ReopenType DEF PrepareRetry
<1>4. ASSUME NEW state \in TERMINAL_STATES, FinishJob(state) PROVE TypeOK'
  BY <1>4 DEF TypeOK, FinishJob, stageVars, caseVars, EntityStates
<1>5. CASE ResumeJob
  BY <1>5 DEF TypeOK, ResumeJob, stageVars, caseVars, EntityStates
<1>6. CASE CrashAfterCreateJob
  BY <1>6 DEF TypeOK, CrashAfterCreateJob, stageVars, caseVars
<1>7. CASE CrashInResumeJob
  BY <1>7
  DEF TypeOK, CrashInResumeJob, stageVars, caseVars, EntityStates,
      TERMINAL_STATES, RECOVERABLE_STATES
<1>8. ASSUME NEW c \in Cases, NEW o \in Outcomes, RecordCase(c, o) PROVE TypeOK'
  BY <1>8, WriteType, OutcomesAreStates
  DEF TypeOK, RecordCase, jobVars, stageVars
<1>9. ASSUME NEW c \in Cases, BeginCase(c) PROVE TypeOK'
  BY <1>9, WriteType DEF TypeOK, BeginCase, jobVars, stageVars, EntityStates
<1>10. ASSUME NEW c \in Cases, RecordRequest(c) PROVE TypeOK'
  BY <1>10, WriteType DEF TypeOK, RecordRequest, Soaking, jobVars, stageVars, EntityStates
<1>11. ASSUME NEW c \in Cases, NEW state \in TERMINAL_STATES, CompleteCase(c, state)
       PROVE  TypeOK'
  BY <1>11, WriteType DEF TypeOK, CompleteCase, Soaking, jobVars, stageVars, EntityStates
<1>12. ASSUME NEW c \in Cases, RecordModelState(c) PROVE TypeOK'
  <2>1. ModelStates[c] \in EntityStates
    BY <1>12, JournalAssumption
    DEF RecordModelState, EntityStates, TERMINAL_STATES, Settled, RECOVERABLE_STATES, Meta
  <2>2. QED
    BY <1>12, <2>1 DEF TypeOK, RecordModelState, jobVars, stageVars
<1>13. ASSUME NEW s \in Stages, FinishStage(s) PROVE TypeOK'
  BY <1>13
  DEF TypeOK, FinishStage, FinishState, jobVars, caseVars, EntityStates,
      TERMINAL_STATES, RECOVERABLE_STATES, Settled
<1>14. CASE RunnerExit
  BY <1>14 DEF TypeOK, RunnerExit, jobVars, stageVars, caseVars
<1>15. CASE UNCHANGED vars
  BY <1>15 DEF TypeOK, vars, jobVars, stageVars, caseVars
<1>16. QED
  BY <1>1, <1>2, <1>3, <1>4, <1>5, <1>6, <1>7, <1>8, <1>9, <1>10, <1>11, <1>12,
     <1>13, <1>14, <1>15
  DEF Next, Parent, Runner

\* Every variable keeps its type, in every execution of the journal.
THEOREM TypeCorrect == Spec => []TypeOK
<1>1. QED
  BY InitType, TypeStep, PTL DEF Spec

-----------------------------------------------------------------------------
(* The attempts of a case.                                                 *)

AttemptsInv ==
    /\ NumbersAreDense
    /\ AttemptsAreSequential
    /\ AttemptsBelongToCases
    /\ OpenAttemptHasRunningCase
    /\ OnlySoaksStayOpen
    /\ CompleteCaseIsMeasured

\* prepare_recovery ends what was open and keeps every number and every end.
LEMMA ReopenAttempts ==
    ASSUME TypeOK, AttemptsInv, NEW s \in Stages, NEW sel \in SUBSET Candidates(s),
           NEW scope, Reopen(s, sel, scope)
    PROVE  AttemptsInv'
<1>1. \A c \in Cases : \A n \in Numbers :
        attempts'[c][n] = IF c \in sel /\ attempts[c][n] = "running"
                          THEN "interrupted" ELSE attempts[c][n]
  BY DEF Reopen
<1>2. \A c \in Cases : c \notin sel => attempts'[c] = attempts[c]
  <2>1. attempts' \in [Cases -> [Numbers -> EntityStates]]
    BY DEF TypeOK, Reopen, EntityStates, TERMINAL_STATES, RECOVERABLE_STATES
  <2>2. QED
    BY <1>1, <2>1 DEF TypeOK
<1>3. \A c \in Cases : caseState'[c] = IF c \in sel THEN "running" ELSE caseState[c]
  BY DEF Reopen
<1>4. valid' = valid
  BY DEF Reopen
<1>5. NumbersAreDense'
  <2>1. ASSUME NEW c \in Cases, NEW k \in 0 .. MaxAttempts, Dense(attempts[c], k)
        PROVE  Dense(attempts'[c], k)
    BY <1>1, <2>1 DEF Dense
  <2>2. QED
    BY <2>1 DEF AttemptsInv, NumbersAreDense
<1>6. AttemptsAreSequential'
  BY <1>1 DEF AttemptsInv, AttemptsAreSequential
<1>7. AttemptsBelongToCases'
  BY <1>1, <1>3 DEF AttemptsInv, AttemptsBelongToCases
<1>8. OpenAttemptHasRunningCase' /\ OnlySoaksStayOpen'
  BY <1>1, <1>3 DEF AttemptsInv, OpenAttemptHasRunningCase, OnlySoaksStayOpen
<1>9. CompleteCaseIsMeasured'
  BY <1>2, <1>3, <1>4 DEF AttemptsInv, CompleteCaseIsMeasured, Latest, Measured
<1>10. QED
  BY <1>5, <1>6, <1>7, <1>8, <1>9 DEF AttemptsInv

\* What every write to an attempt keeps: the case gets a new number, or its
\* last attempt, which was open, gets another state.
LEMMA WriteAttempts ==
    ASSUME TypeOK, AttemptsInv,
           NEW c \in Measured, NEW n \in Numbers,
           n = Latest(c) + 1 \/ n = Latest(c),
           \A i \in Numbers : i # n => attempts[c][i] # "running",
           NEW st \in EntityStates \ {"none"}, NEW to \in EntityStates \ {"none"},
           st = "running" => to = "running" /\ StageOf[c] \in Sustained,
           to = "complete" =>
              st = "complete" /\ (StageOf[c] \notin Sustained => n \in valid'[c]),
           attempts' = WithAttempt(c, n, st),
           caseState' = [caseState EXCEPT ![c] = to],
           \A x \in Cases : x # c => valid'[x] = valid[x]
    PROVE  AttemptsInv'
<1>0. c \in Cases
  BY DEF Measured
<1>1. attempts'[c] = [attempts[c] EXCEPT ![n] = st]
  BY <1>0 DEF TypeOK, WithAttempt
<1>2. \A x \in Cases : x # c => attempts'[x] = attempts[x] /\ caseState'[x] = caseState[x]
  BY <1>0 DEF TypeOK, WithAttempt
<1>3. /\ attempts'[c][n] = st
      /\ \A i \in Numbers : i # n => attempts'[c][i] = attempts[c][i]
      /\ caseState'[c] = to
  BY <1>0, <1>1 DEF TypeOK
<1>4. Dense(attempts'[c], n)
  <2>1. /\ Latest(c) \in 0 .. MaxAttempts
        /\ Dense(attempts[c], Latest(c))
    BY <1>0, LatestIsLast DEF AttemptsInv
  <2>2. attempts[c] \in [Numbers -> EntityStates]
    BY <1>0 DEF TypeOK
  <2>3. QED
    BY <1>1, <2>1, <2>2, WriteKeepsDense
<1>5. n \in 0 .. MaxAttempts
  BY JournalAssumption DEF Numbers
<1>6. NumbersAreDense'
  BY <1>2, <1>4, <1>5 DEF AttemptsInv, NumbersAreDense
<1>7. AttemptsAreSequential'
  <2>1. ASSUME NEW i \in Numbers, NEW j \in Numbers, i < j, attempts'[c][j] # "none"
        PROVE  attempts'[c][i] \notin {"none", "running"}
    <3>1. j <= n /\ i <= n /\ i # n
      BY <2>1, <1>4, JournalAssumption DEF Dense, Numbers
    <3>2. attempts'[c][i] # "none"
      BY <3>1, <1>4 DEF Dense
    <3>3. QED
      BY <3>1, <3>2, <1>3
  <2>2. QED
    BY <2>1, <1>2 DEF AttemptsInv, AttemptsAreSequential
<1>8. AttemptsBelongToCases'
  BY <1>2, <1>3 DEF AttemptsInv, AttemptsBelongToCases
<1>9. OpenAttemptHasRunningCase' /\ OnlySoaksStayOpen'
  BY <1>2, <1>3 DEF AttemptsInv, OpenAttemptHasRunningCase, OnlySoaksStayOpen
<1>10. CompleteCaseIsMeasured'
  <2>1. LastUsed(attempts'[c]) = n
    BY <1>4, <1>5, LastUsedOfDense
  <2>2. QED
    BY <2>1, <1>0, <1>2, <1>3 DEF AttemptsInv, CompleteCaseIsMeasured, Latest, Measured
<1>11. QED
  BY <1>6, <1>7, <1>8, <1>9, <1>10 DEF AttemptsInv

LEMMA InitAttempts == Init => AttemptsInv
<1> SUFFICES ASSUME Init PROVE AttemptsInv
  OBVIOUS
<1>1. \A c \in Cases : \A n \in Numbers : attempts[c][n] = "none"
  BY DEF Init
<1>2. \A c \in Cases : caseState[c] = "none"
  BY DEF Init
<1>3. NumbersAreDense
  <2>1. 0 \in 0 .. MaxAttempts
    BY JournalAssumption
  <2>2. \A c \in Cases : Dense(attempts[c], 0)
    BY <1>1, JournalAssumption DEF Dense, Numbers
  <2>3. QED
    BY <2>1, <2>2 DEF NumbersAreDense
<1>4. QED
  BY <1>1, <1>2, <1>3
  DEF AttemptsInv, AttemptsAreSequential, AttemptsBelongToCases,
      OpenAttemptHasRunningCase, OnlySoaksStayOpen, CompleteCaseIsMeasured, Measured

\* An action that leaves the cases alone leaves what is said of them alone.
LEMMA SameAttempts ==
    ASSUME AttemptsInv, UNCHANGED caseVars
    PROVE  AttemptsInv'
BY DEF AttemptsInv, caseVars, NumbersAreDense, AttemptsAreSequential,
       AttemptsBelongToCases, OpenAttemptHasRunningCase, OnlySoaksStayOpen,
       CompleteCaseIsMeasured, Latest, Dense

LEMMA AttemptsStep == TypeOK /\ AttemptsInv /\ [Next]_vars => AttemptsInv'
<1> SUFFICES ASSUME TypeOK, AttemptsInv, [Next]_vars PROVE AttemptsInv'
  OBVIOUS
<1>1. ASSUME NEW s \in Stages, PrepareResume(s) PROVE AttemptsInv'
  BY <1>1, ReopenAttempts DEF PrepareResume
<1>2. ASSUME NEW s \in Stages, NEW sel \in SUBSET Cases, PrepareRetry(s, sel)
      PROVE  AttemptsInv'
  BY <1>2, ReopenAttempts DEF PrepareRetry
<1>3. ASSUME NEW c \in Cases, NEW o \in Outcomes, RecordCase(c, o) PROVE AttemptsInv'
  <2> DEFINE n == NextAttempt(c)
  <2>1. /\ o.attempt \in EntityStates \ {"none", "running"}
        /\ o.case \in EntityStates \ {"none", "running"}
        /\ o.case = "complete" => o.attempt = "complete" /\ o.valid
    BY OutcomesAreStates
  <2>2. c \in Measured /\ n \in Numbers /\ n = Latest(c) + 1
    BY <1>3 DEF RecordCase, NextAttempt
  <2>3. \A i \in Numbers : attempts[c][i] # "running"
    BY <1>3 DEF RecordCase, AttemptsInv, OnlySoaksStayOpen
  <2>4. /\ \A x \in Cases : x # c => valid'[x] = valid[x]
        /\ o.valid => n \in valid'[c]
    BY <1>3 DEF RecordCase, WithSample, TypeOK
  <2>5. /\ attempts' = WithAttempt(c, n, o.attempt)
        /\ caseState' = [caseState EXCEPT ![c] = o.case]
    BY <1>3 DEF RecordCase
  <2> HIDE DEF n
  <2>6. QED
    BY <2>1, <2>2, <2>3, <2>4, <2>5, WriteAttempts
<1>4. ASSUME NEW c \in Cases, BeginCase(c) PROVE AttemptsInv'
  <2> DEFINE n == NextAttempt(c)
  <2>1. c \in Measured /\ n \in Numbers /\ n = Latest(c) + 1
    BY <1>4 DEF BeginCase, NextAttempt
  <2>2. \A i \in Numbers : attempts[c][i] # "running"
    BY <1>4 DEF BeginCase, AttemptOffered, AttemptsInv, AttemptsBelongToCases
  <2>3. /\ attempts' = WithAttempt(c, n, "running")
        /\ caseState' = [caseState EXCEPT ![c] = "running"]
        /\ valid' = valid
        /\ StageOf[c] \in Sustained
    BY <1>4 DEF BeginCase
  <2>4. "running" \in EntityStates \ {"none"}
    BY DEF EntityStates
  <2> HIDE DEF n
  <2>5. QED
    BY <2>1, <2>2, <2>3, <2>4, WriteAttempts
<1>5. ASSUME NEW c \in Cases, RecordRequest(c) PROVE AttemptsInv'
  <2>1. UNCHANGED <<attempts, caseState>>
    BY <1>5 DEF RecordRequest
  <2>2. StageOf[c] \in Sustained /\ \A x \in Cases : x # c => valid'[x] = valid[x]
    BY <1>5 DEF RecordRequest, Soaking, WithSample, TypeOK
  <2>3. CompleteCaseIsMeasured'
    BY <2>1, <2>2 DEF AttemptsInv, CompleteCaseIsMeasured, Latest, Measured
  <2>4. QED
    BY <2>1, <2>3
    DEF AttemptsInv, NumbersAreDense, AttemptsAreSequential, AttemptsBelongToCases,
        OpenAttemptHasRunningCase, OnlySoaksStayOpen, Dense
<1>6. ASSUME NEW c \in Cases, NEW state \in TERMINAL_STATES, CompleteCase(c, state)
      PROVE  AttemptsInv'
  <2> DEFINE n == Latest(c)
  <2>1. /\ n \in Numbers /\ attempts[c][n] = "running" /\ StageOf[c] \in Sustained
        /\ attempts' = WithAttempt(c, n, state)
        /\ caseState' = [caseState EXCEPT ![c] = state]
        /\ valid' = valid
        /\ state \in {"complete", "failed"}
    BY <1>6 DEF CompleteCase, Soaking
  <2>2. c \in Measured
    BY <2>1 DEF AttemptsInv, AttemptsBelongToCases
  <2>3. \A i \in Numbers : i # n => attempts[c][i] # "running"
    <3>1. Dense(attempts[c], n) /\ n \in 0 .. MaxAttempts
      BY LatestIsLast DEF AttemptsInv
    <3>2. ASSUME NEW i \in Numbers, i # n, attempts[c][i] = "running" PROVE FALSE
      <4>1. i <= n
        BY <3>1, <3>2 DEF Dense
      <4>2. i < n
        BY <4>1, <3>1, <3>2, JournalAssumption DEF Numbers
      <4>3. QED
        BY <4>2, <3>2, <2>1 DEF AttemptsInv, AttemptsAreSequential
    <3>3. QED
      BY <3>2
  <2>4. state \in EntityStates \ {"none"}
    BY <2>1 DEF EntityStates, TERMINAL_STATES, Settled, RECOVERABLE_STATES
  <2> HIDE DEF n
  <2>5. n = Latest(c)
    BY DEF n
  <2>6. QED
    BY <2>1, <2>2, <2>3, <2>4, <2>5, WriteAttempts
<1>7. ASSUME NEW c \in Cases, RecordModelState(c) PROVE AttemptsInv'
  <2>1. /\ c \in Meta
        /\ caseState' = [caseState EXCEPT ![c] = ModelStates[c]]
        /\ UNCHANGED <<attempts, valid>>
    BY <1>7 DEF RecordModelState
  <2>2. \A n \in Numbers : attempts[c][n] = "none"
    BY <2>1 DEF AttemptsInv, AttemptsBelongToCases, Measured
  <2>3. \A x \in Cases : x # c => caseState'[x] = caseState[x]
    BY <2>1 DEF TypeOK
  <2>4. CompleteCaseIsMeasured'
    BY <2>1, <2>3 DEF AttemptsInv, CompleteCaseIsMeasured, Latest, Measured
  <2>5. QED
    BY <2>1, <2>2, <2>3, <2>4
    DEF AttemptsInv, NumbersAreDense, AttemptsAreSequential, AttemptsBelongToCases,
        OpenAttemptHasRunningCase, OnlySoaksStayOpen, Dense
<1>8. CASE UNCHANGED caseVars
  BY <1>8, SameAttempts
<1>9. QED
  BY <1>1, <1>2, <1>3, <1>4, <1>5, <1>6, <1>7, <1>8
  DEF Next, Parent, Runner, vars, StartStage, FinishJob, ResumeJob,
      CrashAfterCreateJob, CrashInResumeJob, FinishStage, RunnerExit

-----------------------------------------------------------------------------
(* Jobs, stages, and what the runner finds.                                *)

StagesInv ==
    /\ ParentsExist
    /\ RunnerIsPrepared
    /\ SelectedCompletionIsTotal

LEMMA InitStages == Init => StagesInv
BY JournalAssumption
DEF Init, StagesInv, ParentsExist, RunnerIsPrepared, SelectedCompletionIsTotal, Settled

\* Reopening every unfinished case of s, or a picked set of them, prepares
\* every case that its runner may go through.
LEMMA ReopenStages ==
    ASSUME TypeOK, StagesInv, NEW s \in Stages, NEW sel \in SUBSET Candidates(s),
           NEW scope \in {"all", "selected"}, Reopen(s, sel, scope),
           scope = "all" => sel = Candidates(s)
    PROVE  StagesInv'
<1>1. /\ stageState[s] \notin Settled \cup {"none"}
      /\ \A c \in Cases : caseState'[c] = IF c \in sel THEN "running" ELSE caseState[c]
      /\ \A c \in Cases : caseRetry'[c] = (c \in sel \/ caseRetry[c])
      /\ stageState'[s] = "running" /\ stageScope'[s] = scope
      /\ picked'[s] = IF scope = "selected" THEN sel ELSE {}
      /\ \A x \in Stages : x # s =>
            stageState'[x] = stageState[x] /\ stageScope'[x] = stageScope[x]
      /\ jobState # "none" /\ UNCHANGED jobRow
      /\ runner' = s
  BY DEF Reopen, ReopenAccepted, TypeOK
<1>2. \A c \in sel : c \in Cases /\ StageOf[c] = s
  BY DEF Candidates, CasesOf
<1>3. \A c \in Cases : StageOf[c] \in Stages
  BY JournalAssumption
<1>4. ParentsExist'
  BY <1>1, <1>2, <1>3 DEF StagesInv, ParentsExist
<1>5. RunnerIsPrepared'
  <2>1. ASSUME NEW c \in Cases, StageOf[c] = s, caseState'[c] \notin Settled \cup {"none"},
               ~NotPicked(c)'
        PROVE  c \in sel
    <3>1. CASE scope = "all"
      BY <2>1, <3>1, <1>1 DEF Candidates, CasesOf
    <3>2. CASE scope = "selected"
      BY <2>1, <3>2, <1>1 DEF NotPicked
    <3>3. QED
      BY <3>1, <3>2
  <2>2. QED
    BY <2>1, <1>1 DEF RunnerIsPrepared
<1>6. SelectedCompletionIsTotal'
  <2>1. ASSUME NEW x \in Stages, x # s PROVE Candidates(x)' = Candidates(x)
    BY <2>1, <1>1, <1>2 DEF Candidates, CasesOf
  <2>2. QED
    BY <2>1, <1>1 DEF StagesInv, SelectedCompletionIsTotal, Unresolved
<1>7. QED
  BY <1>4, <1>5, <1>6 DEF StagesInv

\* A record of the runner, for a case of the stage it is working on.
LEMMA RecordStages ==
    ASSUME TypeOK, StagesInv, NEW c \in Cases, NEW to,
           stageState[StageOf[c]] = "running",
           caseState' = [caseState EXCEPT ![c] = to],
           c \in done', done \subseteq done',
           UNCHANGED <<jobVars, stageVars, caseRetry, runner>>
    PROVE  StagesInv'
<1>1. \A x \in Cases : x # c => caseState'[x] = caseState[x]
  BY DEF TypeOK
<1>2. UNCHANGED <<jobRow, jobState, stageState, stageScope, picked, caseRetry, runner>>
  BY DEF jobVars, stageVars
<1>3. ParentsExist'
  BY <1>1, <1>2 DEF StagesInv, ParentsExist
<1>4. RunnerIsPrepared'
  BY <1>1, <1>2 DEF StagesInv, RunnerIsPrepared, NotPicked
<1>5. SelectedCompletionIsTotal'
  <2>1. ASSUME NEW s \in Stages, stageState[s] = "complete"
        PROVE  Candidates(s)' = Candidates(s)
    BY <2>1, <1>1 DEF Candidates, CasesOf
  <2>2. QED
    BY <2>1, <1>2 DEF StagesInv, SelectedCompletionIsTotal, Unresolved
<1>6. QED
  BY <1>3, <1>4, <1>5 DEF StagesInv

LEMMA StagesStep == TypeOK /\ StagesInv /\ [Next]_vars => StagesInv'
<1> SUFFICES ASSUME TypeOK, StagesInv, [Next]_vars PROVE StagesInv'
  OBVIOUS
<1>1. ASSUME NEW s \in Stages, StartStage(s) PROVE StagesInv'
  <2>1. /\ stageState[s] = "none" /\ stageState'[s] = "running"
        /\ \A x \in Stages : x # s => stageState'[x] = stageState[x]
        /\ UNCHANGED <<stageScope, caseState>>
        /\ jobRow' = TRUE /\ runner' = s
    BY <1>1
    DEF StartStage, StartAccepted, LegalTransition, TypeOK, caseVars, TERMINAL_STATES, Settled,
        RECOVERABLE_STATES
  <2>2. \A c \in Cases : StageOf[c] \in Stages
    BY JournalAssumption
  <2>3. \A c \in Cases : StageOf[c] = s => caseState[c] = "none"
    BY <2>1 DEF StagesInv, ParentsExist
  <2>4. ParentsExist'
    BY <2>1, <2>2 DEF StagesInv, ParentsExist
  <2>5. RunnerIsPrepared'
    BY <2>1, <2>3 DEF RunnerIsPrepared
  <2>6. SelectedCompletionIsTotal'
    BY <2>1 DEF StagesInv, SelectedCompletionIsTotal, Unresolved, Candidates, CasesOf
  <2>7. QED
    BY <2>4, <2>5, <2>6 DEF StagesInv
<1>2. ASSUME NEW s \in Stages, PrepareResume(s) PROVE StagesInv'
  BY <1>2, ReopenStages DEF PrepareResume
<1>3. ASSUME NEW s \in Stages, NEW sel \in SUBSET Cases, PrepareRetry(s, sel)
      PROVE  StagesInv'
  BY <1>3, ReopenStages DEF PrepareRetry
<1>4. ASSUME NEW c \in Cases, NEW o \in Outcomes, RecordCase(c, o) PROVE StagesInv'
  BY <1>4, RecordStages DEF RecordCase, Working
<1>5. ASSUME NEW c \in Cases, BeginCase(c) PROVE StagesInv'
  BY <1>5, RecordStages DEF BeginCase, Working
<1>6. ASSUME NEW c \in Cases, NEW state \in TERMINAL_STATES, CompleteCase(c, state)
      PROVE  StagesInv'
  BY <1>6, RecordStages DEF CompleteCase, Soaking
<1>7. ASSUME NEW c \in Cases, RecordModelState(c) PROVE StagesInv'
  BY <1>7, RecordStages DEF RecordModelState, Working
<1>8. ASSUME NEW s \in Stages, FinishStage(s) PROVE StagesInv'
  <2>1. /\ stageState[s] = "running" /\ stageState'[s] = FinishState(s)
        /\ \A x \in Stages : x # s => stageState'[x] = stageState[x]
        /\ UNCHANGED <<jobRow, jobState, stageScope, picked, caseState, caseRetry, runner, done>>
    BY <1>8 DEF FinishStage, TypeOK, jobVars, caseVars
  <2>2. FinishState(s) # "none"
    BY DEF FinishState
  <2>3. ParentsExist'
    BY <2>1, <2>2, JournalAssumption DEF StagesInv, ParentsExist
  <2>4. RunnerIsPrepared'
    BY <2>1 DEF StagesInv, RunnerIsPrepared, NotPicked
  <2>5. \A x \in Stages : Candidates(x)' = Candidates(x)
    BY <2>1 DEF Candidates, CasesOf
  <2>6. SelectedCompletionIsTotal'
    BY <2>1, <2>5 DEF StagesInv, SelectedCompletionIsTotal, Unresolved, FinishState
  <2>7. QED
    BY <2>3, <2>4, <2>6 DEF StagesInv
<1>9. CASE RunnerExit
  BY <1>9, JournalAssumption
  DEF RunnerExit, StagesInv, ParentsExist, RunnerIsPrepared, SelectedCompletionIsTotal,
      Unresolved, Candidates, CasesOf, jobVars, stageVars, caseVars
<1>10. ASSUME jobState' # "none" => jobRow', UNCHANGED <<stageVars, caseVars, runner, done>>
       PROVE  StagesInv'
  BY <1>10
  DEF StagesInv, ParentsExist, RunnerIsPrepared, SelectedCompletionIsTotal,
      Unresolved, Candidates, CasesOf, NotPicked, stageVars, caseVars
<1>11. ASSUME NEW state \in TERMINAL_STATES, FinishJob(state) PROVE StagesInv'
  BY <1>11, <1>10 DEF FinishJob, StagesInv, ParentsExist
<1>12. CASE ResumeJob
  BY <1>12, <1>10 DEF ResumeJob, RECOVERABLE_STATES, StagesInv, ParentsExist
<1>13. CASE CrashAfterCreateJob
  BY <1>13, <1>10 DEF CrashAfterCreateJob
<1>14. CASE CrashInResumeJob
  BY <1>14, <1>10 DEF CrashInResumeJob, StagesInv, ParentsExist
<1>15. ASSUME NEW c \in Cases, RecordRequest(c) PROVE StagesInv'
  BY <1>15
  DEF RecordRequest, StagesInv, ParentsExist, RunnerIsPrepared, SelectedCompletionIsTotal,
      Unresolved, Candidates, CasesOf, NotPicked, stageVars, jobVars
<1>16. CASE UNCHANGED vars
  BY <1>16, <1>10 DEF vars, jobVars, StagesInv, ParentsExist
<1>17. QED
  BY <1>1, <1>2, <1>3, <1>4, <1>5, <1>6, <1>7, <1>8, <1>9, <1>11, <1>12, <1>13,
     <1>14, <1>15, <1>16
  DEF Next, Parent, Runner

-----------------------------------------------------------------------------
(* The invariant and what follows from it.                                 *)

\* The inductive invariant of the journal holds in every execution: numbering,
\* order and ends of the attempts (apply_event, next_attempt), parents before
\* children (start_stage), and what prepare_recovery leaves to the runner.
THEOREM InvariantHolds == Spec => []IInv
<1>1. Init => TypeOK /\ AttemptsInv /\ StagesInv
  BY InitType, InitAttempts, InitStages
<1>2. TypeOK /\ AttemptsInv /\ StagesInv /\ [Next]_vars
      => TypeOK' /\ AttemptsInv' /\ StagesInv'
  BY TypeStep, AttemptsStep, StagesStep
<1>3. TypeOK /\ AttemptsInv /\ StagesInv => IInv
  BY DEF IInv, AttemptsInv, StagesInv
<1>4. QED
  BY <1>1, <1>2, <1>3, PTL DEF Spec

\* Attempts are numbered in order and only the last may be open: the exports
\* may read the attempt with the highest number.
THEOREM SequentialAttempts == Spec => []AttemptsAreSequential
<1>1. IInv => AttemptsAreSequential
  BY DEF IInv
<1>2. QED
  BY <1>1, InvariantHolds, PTL

\* An export that skips running cases never reads an attempt that is open.
THEOREM OpenAttemptsAreVisible == Spec => []OpenAttemptHasRunningCase
<1>1. IInv => OpenAttemptHasRunningCase
  BY DEF IInv
<1>2. QED
  BY <1>1, InvariantHolds, PTL

\* A complete case rests on its last attempt, which is complete and measured.
THEOREM CompletionIsMeasured == Spec => []CompleteCaseIsMeasured
<1>1. IInv => CompleteCaseIsMeasured
  BY DEF IInv
<1>2. QED
  BY <1>1, InvariantHolds, PTL

\* A stage that a selected retry completed has nothing left to run.
THEOREM SelectedRetryIsTotal == Spec => []SelectedCompletionIsTotal
<1>1. IInv => SelectedCompletionIsTotal
  BY DEF IInv
<1>2. QED
  BY <1>1, InvariantHolds, PTL

\* Every number that next_attempt hands out is accepted by apply_event, after
\* any number of crashes, resumes and retries.
THEOREM OffersAreAccepted == Spec => []OfferedAttemptIsAccepted
<1>1. IInv => OfferedAttemptIsAccepted
  <2> SUFFICES ASSUME IInv, NEW c \in Measured, Working(c), AttemptOffered(c),
                      NextAttempt(c) \in Numbers
               PROVE  /\ caseState[c] \in {"none", "running"}
                      /\ attempts[c][NextAttempt(c)] = "none"
    BY DEF OfferedAttemptIsAccepted
  <2>1. c \in Cases
    BY DEF Measured
  <2>2. caseState[c] \in {"none", "running"}
    BY <2>1 DEF IInv, RunnerIsPrepared, Working, AttemptOffered
  <2>3. /\ Latest(c) \in 0 .. MaxAttempts
        /\ Dense(attempts[c], Latest(c))
    BY <2>1, LatestIsLast DEF IInv
  <2>4. attempts[c][NextAttempt(c)] = "none"
    BY <2>3, JournalAssumption DEF Dense, NextAttempt, Numbers
  <2>5. QED
    BY <2>2, <2>4
<1>2. QED
  BY <1>1, InvariantHolds, PTL

\* next_attempt never raises in the runner of a resumed stage, the soak tests
\* apart (for those EveryWorkloadResumes is violated).
THEOREM ResumedCasesArePrepared == Spec => []NoUnpreparedCase
<1>1. IInv => NoUnpreparedCase
  BY DEF IInv, NoUnpreparedCase, RunnerIsPrepared, Working, AttemptRaises, Measured
<1>2. QED
  BY <1>1, InvariantHolds, PTL

\* Nothing reopens a complete job, or a stage under it (prepare_recovery and
\* resume_job refuse, start_stage needs a running job).
THEOREM ClosedJobs == Spec => CompleteJobIsClosed
<1> DEFINE Kept == jobState = "complete" =>
                     /\ jobState' = "complete"
                     /\ \A s \in Stages : stageState[s] # "running" =>
                                          stageState'[s] = stageState[s]
<1>1. TypeOK /\ [Next]_vars => [Kept]_vars
  <2> SUFFICES ASSUME TypeOK, Next, jobState = "complete" PROVE Kept
    OBVIOUS
  <2>1. ASSUME NEW s \in Stages, FinishStage(s) PROVE Kept
    BY <2>1 DEF FinishStage, TypeOK, jobVars
  <2>2. QED
    BY <2>1
    DEF Next, Parent, Runner, StartStage, StartAccepted, PrepareResume, PrepareRetry,
        Reopen, ReopenAccepted,
        FinishJob, ResumeJob, CrashAfterCreateJob, CrashInResumeJob, RecordCase,
        BeginCase, RecordRequest, CompleteCase, RecordModelState, RunnerExit,
        jobVars, stageVars, RECOVERABLE_STATES
<1>2. QED
  BY <1>1, TypeCorrect, PTL DEF Spec, CompleteJobIsClosed

-----------------------------------------------------------------------------
(* The journal implements the ledger: Open is begin_case, End a record of  *)
(* a case, Interrupt what prepare_recovery finds open; the rest stutters.  *)

\* The ends that f holds, and that these are at the numbers 1 .. j.
Ends(f) == [n \in {k \in Numbers : f[k] \in TERMINAL_STATES} |-> f[n]]
EndedUpTo(f, j) == \A n \in Numbers : f[n] \in TERMINAL_STATES <=> n <= j

\* Without gaps, the ends are a sequence of terminal states.
LEMMA EndsAreASequence ==
    ASSUME NEW f, NEW j \in 0 .. MaxAttempts, EndedUpTo(f, j)
    PROVE  /\ Ends(f) \in Seq(TERMINAL_STATES)
           /\ Len(Ends(f)) = j
           /\ \A i \in 1 .. j : Ends(f)[i] = f[i]
<1>0. MaxAttempts \in Nat
  BY JournalAssumption
<1>1. {k \in Numbers : f[k] \in TERMINAL_STATES} = 1 .. j
  BY <1>0 DEF EndedUpTo, Numbers
<1>2. \A i \in 1 .. j : f[i] \in TERMINAL_STATES
  BY <1>1
<1>3. Ends(f) = [n \in 1 .. j |-> f[n]]
  BY <1>1 DEF Ends
<1>4. Ends(f) \in [1 .. j -> TERMINAL_STATES]
  BY <1>2, <1>3
<1>5. QED
  BY <1>0, <1>3, <1>4

\* A new end at the next number is appended.
LEMMA EndsGrow ==
    ASSUME NEW f, NEW g, NEW j \in 0 .. MaxAttempts, j + 1 \in Numbers,
           EndedUpTo(f, j), EndedUpTo(g, j + 1),
           \A i \in 1 .. j : g[i] = f[i]
    PROVE  Ends(g) = Append(Ends(f), g[j + 1])
<1>0. MaxAttempts \in Nat
  BY JournalAssumption
<1>1. /\ Ends(f) \in Seq(TERMINAL_STATES) /\ Len(Ends(f)) = j
      /\ \A i \in 1 .. j : Ends(f)[i] = f[i]
  BY EndsAreASequence
<1>2. /\ Ends(g) \in Seq(TERMINAL_STATES) /\ Len(Ends(g)) = j + 1
      /\ \A i \in 1 .. j + 1 : Ends(g)[i] = g[i]
  BY <1>0, EndsAreASequence DEF Numbers
<1>3. g[j + 1] \in TERMINAL_STATES
  BY <1>0 DEF EndedUpTo, Numbers
<1> DEFINE h == Append(Ends(f), g[j + 1])
<1>4. /\ h \in Seq(TERMINAL_STATES) /\ Len(h) = j + 1
      /\ \A i \in 1 .. j : h[i] = Ends(f)[i]
      /\ h[j + 1] = g[j + 1]
  BY <1>1, <1>3, AppendProperties
<1> HIDE DEF h
<1>5. \A i \in 1 .. Len(h) : h[i] = Ends(g)[i]
  BY <1>0, <1>1, <1>2, <1>4
<1>6. h = Ends(g)
  BY <1>2, <1>4, <1>5, SeqEqual
<1>7. QED
  BY <1>6 DEF h

\* Without an end there is nothing, and the same ends are the same history.
LEMMA EndsOfNothing ==
    ASSUME NEW f, \A n \in Numbers : f[n] \notin TERMINAL_STATES
    PROVE  Ends(f) = <<>>
BY DEF Ends

LEMMA EndsAreKept ==
    ASSUME NEW f, NEW g,
           \A n \in Numbers : f[n] \in TERMINAL_STATES \/ g[n] \in TERMINAL_STATES => g[n] = f[n]
    PROVE  Ends(g) = Ends(f)
<1>1. {k \in Numbers : f[k] \in TERMINAL_STATES} = {k \in Numbers : g[k] \in TERMINAL_STATES}
  OBVIOUS
<1>2. \A n \in {k \in Numbers : f[k] \in TERMINAL_STATES} : f[n] = g[n]
  OBVIOUS
<1>3. QED
  BY <1>1, <1>2 DEF Ends

\* A case has ended its attempts 1 .. j; the next, if it exists, is open.
LEMMA EndsOfACase ==
    ASSUME TypeOK, AttemptsInv, NEW c \in Cases
    PROVE  \E j \in 0 .. MaxAttempts :
              /\ EndedUpTo(attempts[c], j)
              /\ \/ /\ Latest(c) = j
                    /\ \A n \in Numbers : attempts[c][n] # "running"
                 \/ /\ Latest(c) = j + 1 /\ j + 1 \in Numbers
                    /\ \A n \in Numbers : attempts[c][n] = "running" <=> n = j + 1
<1>0. MaxAttempts \in Nat
  BY JournalAssumption
<1>1. PICK k \in 0 .. MaxAttempts : Latest(c) = k /\ Dense(attempts[c], k)
  BY LatestIsLast DEF AttemptsInv
<1>2. \A n \in Numbers : attempts[c][n] \in EntityStates
  BY DEF TypeOK
<1>3. "none" \notin TERMINAL_STATES /\ "running" \notin TERMINAL_STATES
  BY DEF TERMINAL_STATES, Settled, RECOVERABLE_STATES
<1>4. \A n \in Numbers : n < k => attempts[c][n] \in TERMINAL_STATES
  <2>1. ASSUME NEW n \in Numbers, n < k PROVE attempts[c][n] \notin {"none", "running"}
    <3>1. k \in Numbers /\ attempts[c][k] # "none"
      BY <2>1, <1>0, <1>1 DEF Dense, Numbers
    <3>2. QED
      BY <2>1, <3>1 DEF AttemptsInv, AttemptsAreSequential
  <2>2. QED
    BY <1>2, <2>1 DEF EntityStates
<1>5. CASE k \in Numbers /\ attempts[c][k] = "running"
  <2>1. k - 1 \in 0 .. MaxAttempts /\ (k - 1) + 1 = k
    BY <1>0, <1>5 DEF Numbers
  <2>2. EndedUpTo(attempts[c], k - 1)
    BY <1>0, <1>1, <1>3, <1>4, <1>5 DEF EndedUpTo, Dense, Numbers
  <2>3. \A n \in Numbers : attempts[c][n] = "running" <=> n = k
    BY <1>0, <1>1, <1>3, <1>4, <1>5 DEF Dense, Numbers
  <2>4. QED
    BY <1>1, <1>5, <2>1, <2>2, <2>3
<1>6. CASE ~(k \in Numbers /\ attempts[c][k] = "running")
  <2>1. \A n \in Numbers : n <= k => attempts[c][n] \in TERMINAL_STATES
    <3>1. ASSUME NEW n \in Numbers, n = k PROVE attempts[c][n] \in TERMINAL_STATES
      BY <3>1, <1>0, <1>1, <1>2, <1>6 DEF Dense, EntityStates, Numbers
    <3>2. QED
      BY <3>1, <1>0, <1>4 DEF Numbers
  <2>2. EndedUpTo(attempts[c], k)
    BY <2>1, <1>1, <1>3 DEF EndedUpTo, Dense
  <2>3. \A n \in Numbers : attempts[c][n] # "running"
    BY <2>1, <1>1, <1>3 DEF Dense
  <2>4. QED
    BY <1>1, <2>2, <2>3
<1>7. QED
  BY <1>5, <1>6

\* What is said of the histories in terms of the sequences they are.
LEMMA HistoryIsEnds == \A c \in Cases : History(c) = Ends(attempts[c])
BY DEF History, Ends

\* Nothing is recorded, open or settled in a new journal.
LEMMA InitLedger == Init => Ledger!Init
<1> SUFFICES ASSUME Init PROVE Ledger!Init
  OBVIOUS
<1>1. \A c \in Measured : c \in Cases
  BY DEF Measured
<1>2. \A c \in Cases : \A n \in Numbers : attempts[c][n] = "none"
  BY DEF Init
<1>3. \A c \in Measured : History(c) = <<>>
  BY <1>1, <1>2, HistoryIsEnds, EndsOfNothing DEF TERMINAL_STATES, Settled, RECOVERABLE_STATES
<1>4. OpenCases = {}
  BY <1>1, <1>2 DEF OpenCases
<1>5. {c \in Measured : caseState[c] \in Settled} = {}
  BY <1>1 DEF Init, Settled
<1>6. QED
  BY <1>3, <1>4, <1>5 DEF Ledger!Init

\* Writing the end of an attempt of c, a new one or the open one, is an End of
\* the ledger.
LEMMA WriteIsEnd ==
    ASSUME TypeOK, AttemptsInv,
           NEW c \in Measured, NEW n \in Numbers,
           NEW st \in TERMINAL_STATES, NEW to \in TERMINAL_STATES,
           caseState[c] \notin Settled,
           \/ n = Latest(c) + 1 /\ \A i \in Numbers : attempts[c][i] # "running"
           \/ n = Latest(c) /\ attempts[c][n] = "running",
           attempts' = WithAttempt(c, n, st),
           caseState' = [caseState EXCEPT ![c] = to]
    PROVE  Ledger!End(c, st)
<1>0. c \in Cases /\ MaxAttempts \in Nat
  BY JournalAssumption DEF Measured
<1>1. \A x \in Cases : x # c => attempts'[x] = attempts[x] /\ caseState'[x] = caseState[x]
  BY <1>0 DEF TypeOK, WithAttempt
<1>2. /\ attempts'[c][n] = st /\ caseState'[c] = to
      /\ \A i \in Numbers : i # n => attempts'[c][i] = attempts[c][i]
  BY <1>0 DEF TypeOK, WithAttempt
<1>3. "running" \notin TERMINAL_STATES
  BY DEF TERMINAL_STATES, Settled, RECOVERABLE_STATES
<1>4. PICK j \in 0 .. MaxAttempts :
        /\ EndedUpTo(attempts[c], j)
        /\ n = j + 1
        /\ \A i \in Numbers : i # n => attempts[c][i] # "running"
  <2>1. PICK j \in 0 .. MaxAttempts :
          /\ EndedUpTo(attempts[c], j)
          /\ \/ /\ Latest(c) = j
                /\ \A i \in Numbers : attempts[c][i] # "running"
             \/ /\ Latest(c) = j + 1 /\ j + 1 \in Numbers
                /\ \A i \in Numbers : attempts[c][i] = "running" <=> i = j + 1
    BY <1>0, EndsOfACase
  <2>2. n = j + 1 /\ \A i \in Numbers : i # n => attempts[c][i] # "running"
    BY <2>1, <1>0 DEF Numbers
  <2>3. QED
    BY <2>1, <2>2
<1>5. EndedUpTo(attempts'[c], j + 1)
  BY <1>0, <1>2, <1>4 DEF EndedUpTo, Numbers
<1>6. \A i \in 1 .. j : attempts'[c][i] = attempts[c][i]
  BY <1>0, <1>2, <1>4 DEF Numbers
<1>7. Ends(attempts'[c]) = Append(Ends(attempts[c]), st)
  BY <1>2, <1>4, <1>5, <1>6, EndsGrow
<1>8. \A x \in Measured : /\ History(x)' = Ends(attempts'[x])
                          /\ History(x) = Ends(attempts[x])
  BY DEF History, Ends, Measured
<1> DEFINE Histories == [x \in Measured |-> History(x)]
<1>9. Histories' = [Histories EXCEPT ![c] = Append(@, st)]
  <2>1. \A x \in Measured : x # c => History(x)' = History(x)
    BY <1>1, <1>8 DEF Measured
  <2>2. History(c)' = Append(History(c), st)
    BY <1>7, <1>8
  <2>3. QED
    BY <2>1, <2>2
<1>10. OpenCases' = OpenCases \ {c}
  BY <1>0, <1>1, <1>2, <1>3, <1>4 DEF OpenCases, Measured
<1>11. LET done0 == {x \in Measured : caseState[x] \in Settled}
       IN  c \notin done0 /\ (done0' = done0 \/ done0' = done0 \cup {c})
  BY <1>0, <1>1, <1>2 DEF Measured
<1>12. QED
  BY <1>9, <1>10, <1>11 DEF Ledger!End

\* A step that keeps the ends of the attempts keeps the histories.
LEMMA KeptHistories ==
    ASSUME \A c \in Measured : \A n \in Numbers :
              attempts[c][n] \in TERMINAL_STATES \/ attempts'[c][n] \in TERMINAL_STATES
              => attempts'[c][n] = attempts[c][n]
    PROVE  [c \in Measured |-> History(c)]' = [c \in Measured |-> History(c)]
<1>1. \A c \in Measured : History(c)' = Ends(attempts'[c]) /\ History(c) = Ends(attempts[c])
  BY DEF History, Ends
<1>2. \A c \in Measured : History(c)' = History(c)
  BY <1>1, EndsAreKept
<1>3. QED
  BY <1>2

\* begin_case opens an attempt of a case that had none.
LEMMA BeginIsOpen ==
    ASSUME TypeOK, AttemptsInv, NEW c \in Cases, BeginCase(c)
    PROVE  c \in Measured /\ Ledger!Open(c)
<1>1. /\ c \in Measured
      /\ NextAttempt(c) \in Numbers
      /\ caseState[c] = "none"
      /\ caseState' = [caseState EXCEPT ![c] = "running"]
      /\ attempts' = WithAttempt(c, NextAttempt(c), "running")
  BY DEF BeginCase, AttemptOffered
<1>2. \A n \in Numbers : attempts[c][n] = "none"
  BY <1>1 DEF AttemptsInv, AttemptsBelongToCases
<1>3. \A x \in Cases : x # c => attempts'[x] = attempts[x] /\ caseState'[x] = caseState[x]
  BY <1>1 DEF TypeOK, WithAttempt
<1>4. /\ attempts'[c][NextAttempt(c)] = "running" /\ caseState'[c] = "running"
      /\ \A n \in Numbers : n # NextAttempt(c) => attempts'[c][n] = "none"
  BY <1>1, <1>2 DEF TypeOK, WithAttempt
<1>5. /\ "none" \notin TERMINAL_STATES /\ "running" \notin TERMINAL_STATES
      /\ "none" \notin Settled /\ "running" \notin Settled
  BY DEF TERMINAL_STATES, Settled, RECOVERABLE_STATES
<1>6. [x \in Measured |-> History(x)]' = [x \in Measured |-> History(x)]
  BY <1>2, <1>3, <1>4, <1>5, KeptHistories DEF Measured
<1>7. c \notin OpenCases /\ OpenCases' = OpenCases \cup {c}
  BY <1>1, <1>2, <1>3, <1>4 DEF OpenCases, Measured
<1>8. LET done0 == {x \in Measured : caseState[x] \in Settled}
      IN  c \notin done0 /\ done0' = done0
  BY <1>1, <1>3, <1>4, <1>5 DEF Measured
<1>9. QED
  BY <1>1, <1>6, <1>7, <1>8 DEF Ledger!Open

\* What prepare_recovery does to the cases it prepares: those with an open
\* attempt are interrupted.
LEMMA ReopenIsInterrupt ==
    ASSUME TypeOK, AttemptsInv, NEW s \in Stages, NEW sel \in SUBSET Candidates(s),
           NEW scope, Reopen(s, sel, scope)
    PROVE  Ledger!Interrupt(sel \cap OpenCases)
<1> DEFINE S == sel \cap OpenCases
<1>0. MaxAttempts \in Nat /\ OpenCases \subseteq Measured /\ Measured \subseteq Cases
  BY JournalAssumption DEF OpenCases, Measured
<1>1. /\ \A c \in Cases : \A n \in Numbers :
            attempts'[c][n] = IF c \in sel /\ attempts[c][n] = "running"
                              THEN "interrupted" ELSE attempts[c][n]
      /\ \A c \in Cases : caseState'[c] = IF c \in sel THEN "running" ELSE caseState[c]
      /\ \A c \in sel : caseState[c] \notin Settled
  BY DEF Reopen, Candidates
<1>2. /\ "none" \notin TERMINAL_STATES /\ "running" \notin TERMINAL_STATES
      /\ "interrupted" \in TERMINAL_STATES /\ "running" \notin Settled
  BY DEF TERMINAL_STATES, Settled, RECOVERABLE_STATES
<1>3. \A c \in Measured : History(c)' = Ends(attempts'[c]) /\ History(c) = Ends(attempts[c])
  BY DEF History, Ends
<1>4. ASSUME NEW c \in S PROVE History(c)' = Append(History(c), "interrupted")
  <2>1. PICK m \in Numbers : attempts[c][m] = "running"
    BY DEF OpenCases
  <2>2. PICK j \in 0 .. MaxAttempts :
          /\ EndedUpTo(attempts[c], j)
          /\ j + 1 \in Numbers
          /\ \A n \in Numbers : attempts[c][n] = "running" <=> n = j + 1
    BY <2>1, <1>0, EndsOfACase
  <2>3. EndedUpTo(attempts'[c], j + 1)
    BY <2>2, <1>0, <1>1, <1>2 DEF EndedUpTo, Numbers
  <2>4. attempts'[c][j + 1] = "interrupted"
    BY <2>2, <1>0, <1>1
  <2>5. \A i \in 1 .. j : attempts'[c][i] = attempts[c][i]
    BY <2>2, <1>0, <1>1 DEF Numbers
  <2>6. Ends(attempts'[c]) = Append(Ends(attempts[c]), "interrupted")
    BY <2>2, <2>3, <2>4, <2>5, EndsGrow
  <2>7. QED
    BY <2>6, <1>0, <1>3
<1>5. ASSUME NEW c \in Measured, c \notin S PROVE History(c)' = History(c)
  <2>1. \A n \in Numbers : attempts'[c][n] = attempts[c][n]
    BY <1>5, <1>0, <1>1 DEF OpenCases
  <2>2. QED
    BY <2>1, <1>3, EndsAreKept
<1>6. OpenCases' = OpenCases \ S
  BY <1>0, <1>1 DEF OpenCases
<1>7. LET done0 == {x \in Measured : caseState[x] \in Settled}
      IN  done0' = done0
  BY <1>0, <1>1, <1>2
<1>8. [c \in Measured |-> History(c)]' =
        [c \in Measured |-> IF c \in S THEN Append([x \in Measured |-> History(x)][c], "interrupted")
                                       ELSE [x \in Measured |-> History(x)][c]]
  BY <1>4, <1>5
<1>9. S \subseteq OpenCases
  OBVIOUS
<1> HIDE DEF S
<1>10. Ledger!Interrupt(S)
  BY <1>6, <1>7, <1>8, <1>9 DEF Ledger!Interrupt
<1>11. QED
  BY <1>10 DEF S

\* Step simulation, one step per action of the journal that touches a case.
LEMMA LedgerStep == TypeOK /\ AttemptsInv /\ [Next]_vars => [Ledger!Next]_(Ledger!ledger)
<1> SUFFICES ASSUME TypeOK, AttemptsInv, [Next]_vars
             PROVE  Ledger!Next \/ UNCHANGED Ledger!ledger
  OBVIOUS
<1>1. ASSUME NEW s \in Stages, NEW sel \in SUBSET Candidates(s), NEW scope,
             Reopen(s, sel, scope)
      PROVE  Ledger!Next
  <2>1. sel \cap OpenCases \in SUBSET Measured
    BY DEF OpenCases
  <2>2. Ledger!Interrupt(sel \cap OpenCases)
    BY <1>1, ReopenIsInterrupt
  <2>3. QED
    BY <2>1, <2>2 DEF Ledger!Next
<1>2. ASSUME NEW c \in Cases, NEW o \in Outcomes, RecordCase(c, o) PROVE Ledger!Next
  <2>1. o.attempt \in TERMINAL_STATES /\ o.case \in TERMINAL_STATES
    BY OutcomesAreStates DEF EntityStates
  <2>2. c \in Measured /\ NextAttempt(c) \in Numbers /\ NextAttempt(c) = Latest(c) + 1
    BY <1>2 DEF RecordCase, NextAttempt
  <2>3. /\ caseState[c] \notin Settled
        /\ \A i \in Numbers : attempts[c][i] # "running"
        /\ attempts' = WithAttempt(c, NextAttempt(c), o.attempt)
        /\ caseState' = [caseState EXCEPT ![c] = o.case]
    BY <1>2 DEF RecordCase, AttemptsInv, OnlySoaksStayOpen, Settled
  <2>4. Ledger!End(c, o.attempt)
    BY <2>1, <2>2, <2>3, WriteIsEnd
  <2>5. QED
    BY <2>1, <2>2, <2>4 DEF Ledger!Next
<1>3. ASSUME NEW c \in Cases, BeginCase(c) PROVE Ledger!Next
  BY <1>3, BeginIsOpen DEF Ledger!Next
<1>4. ASSUME NEW c \in Cases, NEW state \in TERMINAL_STATES, CompleteCase(c, state)
      PROVE  Ledger!Next
  <2>1. /\ Latest(c) \in Numbers /\ attempts[c][Latest(c)] = "running"
        /\ attempts' = WithAttempt(c, Latest(c), state)
        /\ caseState' = [caseState EXCEPT ![c] = state]
    BY <1>4 DEF CompleteCase, Soaking
  <2>2. c \in Measured /\ caseState[c] \notin Settled
    BY <2>1 DEF AttemptsInv, AttemptsBelongToCases, OpenAttemptHasRunningCase, Settled
  <2>3. Ledger!End(c, state)
    BY <2>1, <2>2, WriteIsEnd
  <2>4. QED
    BY <2>2, <2>3 DEF Ledger!Next
<1>5. ASSUME UNCHANGED attempts,
             \A c \in Measured : caseState'[c] = caseState[c]
      PROVE  UNCHANGED Ledger!ledger
  <2>1. [c \in Measured |-> History(c)]' = [c \in Measured |-> History(c)]
    BY <1>5, KeptHistories
  <2>2. OpenCases' = OpenCases
    BY <1>5 DEF OpenCases
  <2>3. {c \in Measured : caseState[c] \in Settled}' = {c \in Measured : caseState[c] \in Settled}
    BY <1>5
  <2>4. QED
    BY <2>1, <2>2, <2>3 DEF Ledger!ledger
<1>6. ASSUME NEW c \in Cases, RecordModelState(c) PROVE UNCHANGED Ledger!ledger
  BY <1>5, <1>6 DEF RecordModelState, Measured, TypeOK
<1>7. ASSUME UNCHANGED <<attempts, caseState>> PROVE UNCHANGED Ledger!ledger
  BY <1>5, <1>7
<1>8. QED
  BY <1>1, <1>2, <1>3, <1>4, <1>6, <1>7
  DEF Next, Parent, Runner, vars, caseVars, StartStage, PrepareResume, PrepareRetry,
      FinishJob, ResumeJob, CrashAfterCreateJob, CrashInResumeJob, RecordRequest,
      FinishStage, RunnerExit

\* Whatever the parents and runners of a job do, and wherever they stop, the
\* journal is a ledger to its readers: attempts 1, 2, 3, ..., at most one open
\* and that the last, ends that stay, settled cases without further attempts.
THEOREM JournalIsALedger == Spec => ImplementsLedger
<1>1. Init => Ledger!Init
  BY InitLedger
<1>2. Init => TypeOK /\ AttemptsInv
  BY InitType, InitAttempts
<1>3. TypeOK /\ AttemptsInv /\ [Next]_vars => TypeOK' /\ AttemptsInv'
  BY TypeStep, AttemptsStep
<1>4. TypeOK /\ AttemptsInv /\ [Next]_vars => [Ledger!Next]_(Ledger!ledger)
  BY LedgerStep
<1>5. QED
  BY <1>1, <1>2, <1>3, <1>4, PTL DEF Spec, ImplementsLedger, Ledger!Spec

-----------------------------------------------------------------------------
(* The journal under a run.                                                *)

LEMMA StageIsPlanned ==
    ASSUME RunTypeOK PROVE Stage \in Stages
BY RunAssumption DEF RunTypeOK, Stage

LEMMA ParentStep == Parent => Next
BY DEF Next

LEMMA NoMoreRunnerStep == NoMoreRunner => [Next]_vars
BY DEF NoMoreRunner, Next, Runner

LEMMA FinishJobStep ==
    ASSUME NEW e, FinishJob(e) PROVE Next
<1>1. e \in TERMINAL_STATES
  BY DEF FinishJob, TERMINAL_STATES, Settled, RECOVERABLE_STATES
<1>2. QED
  BY <1>1 DEF Parent, Next

LEMMA OpenJournalStep ==
    ASSUME RunTypeOK, OpenJournal PROVE Next
<1>1. Stage \in Stages /\ chosen \in SUBSET Cases
  BY StageIsPlanned DEF RunTypeOK
<1>2. \/ StartStage(Stage)
      \/ PrepareResume(Stage)
      \/ PrepareRetry(Stage, chosen)
  BY DEF OpenJournal
<1>3. QED
  BY <1>1, <1>2 DEF Parent, Next

\* Every step of a run is a step of the journal or leaves it alone.
LEMMA JournalStep ==
    ASSUME RunTypeOK, [RunNext]_runVars PROVE [Next]_vars
<1>1. CASE UNCHANGED runVars
  BY <1>1 DEF runVars
<1>2. CASE Starting
  <2>1. ASSUME NEW m \in {"run", "fork"}, Launch(m) PROVE UNCHANGED vars
    BY <2>1 DEF Launch
  <2>2. CASE Resume
    BY <2>2 DEF Resume, Parent, Next
  <2>3. ASSUME NEW i \in DOMAIN Order, NEW sel \in SUBSET Cases, Retry(i, sel)
        PROVE  UNCHANGED vars
    BY <2>3 DEF Retry
  <2>4. QED
    BY <1>2, <2>1, <2>2, <2>3 DEF Starting
<1>3. CASE Proceeding
  <2>1. CASE OpenJournal
    BY <2>1, OpenJournalStep
  <2>2. CASE RunnerSucceeds
    BY <2>2 DEF RunnerSucceeds, Runner, Next
  <2>3. CASE EndJob
    BY <2>3, FinishJobStep DEF EndJob
  <2>4. CASE FailJob
    BY <2>4, FinishJobStep DEF FailJob
  <2>5. CASE SignalJob
    BY <2>5, FinishJobStep DEF SignalJob
  <2>6. CASE SignalExit
    BY <2>6, NoMoreRunnerStep DEF SignalExit
  <2>7. CASE Preflight \/ BeginRecovery \/ BeginRecoveryRaises \/ SkipStage \/ OpenStage
    BY <2>7 DEF Preflight, BeginRecovery, BeginRecoveryRaises, SkipStage, OpenStage
  <2>8. CASE OpenJournalRaises \/ RecordStage \/ RecordRetry \/ EndRun
    BY <2>8 DEF OpenJournalRaises, RecordStage, RecordRetry, EndRun
  <2>9. CASE FailStage \/ FailStageRaises \/ FailJobRaises \/ FailResult \/ SignalResult
    BY <2>9 DEF FailStage, FailStageRaises, FailJobRaises, FailResult, SignalResult
  <2>10. QED
    BY <1>3, <2>1, <2>2, <2>3, <2>4, <2>5, <2>6, <2>7, <2>8, <2>9 DEF Proceeding
<1>4. CASE RunnerWorks
  BY <1>4 DEF RunnerWorks, Runner, Next
<1>5. CASE Failing
  <2>1. CASE RunnerFails
    BY <2>1 DEF RunnerFails, Runner, Next
  <2>2. CASE Interrupt
    BY <2>2, NoMoreRunnerStep DEF Interrupt
  <2>3. CASE Crash
    BY <2>3, NoMoreRunnerStep DEF Crash, Parent, Next
  <2>4. CASE PreflightRaises \/ ParentRaises \/ InterruptEarly \/ Signal
    BY <2>4 DEF PreflightRaises, ParentRaises, InterruptEarly, Signal
  <2>5. QED
    BY <1>5, <2>1, <2>2, <2>3, <2>4 DEF Failing
<1>6. QED
  BY <1>1, <1>2, <1>3, <1>4, <1>5 DEF RunNext

-----------------------------------------------------------------------------
(* Types.                                                                  *)

LEMMA RunInitType == RunInit => RunTypeOK
<1> SUFFICES ASSUME RunInit PROVE RunTypeOK
  OBVIOUS
<1>1. TypeOK
  BY InitType DEF RunInit
<1>2. 1 \in DOMAIN Order
  BY RunAssumption
<1>3. QED
  BY <1>1, <1>2, RunAssumption DEF RunInit, RunTypeOK, TERMINAL_STATUSES

\* The parent's own variables.
LEMMA ParentTypeStep ==
    ASSUME RunTypeOK, [RunNext]_runVars, TypeOK' PROVE RunTypeOK'
<1> USE RunAssumption
<1>1. CASE UNCHANGED runVars
  BY <1>1 DEF runVars, json, parent, RunTypeOK
<1>2. CASE Starting
  <2>1. ASSUME NEW m \in {"run", "fork"}, Launch(m) PROVE RunTypeOK'
    BY <2>1 DEF Launch, RunTypeOK
  <2>2. CASE Resume
    <3>1. 1 \in DOMAIN Order
      OBVIOUS
    <3>2. QED
      BY <2>2, <3>1 DEF Resume, MayRecover, json, RunTypeOK, TERMINAL_STATUSES
  <2>3. ASSUME NEW i \in DOMAIN Order, NEW sel \in SUBSET Cases, Retry(i, sel)
        PROVE  RunTypeOK'
    BY <2>3 DEF Retry, MayRecover, json, RunTypeOK, TERMINAL_STATUSES
  <2>4. QED
    BY <1>2, <2>1, <2>2, <2>3 DEF Starting
<1>3. CASE Proceeding
  <2>1. ASSUME Advance PROVE at' \in DOMAIN Order /\ pc' \in {"job", "stage"}
    BY <2>1 DEF Advance, RunTypeOK
  <2>2. CASE SkipStage
    BY <2>1, <2>2 DEF SkipStage, Advance, json, RunTypeOK
  <2>3. CASE RecordStage
    BY <2>1, <2>3 DEF RecordStage, Advance, RunTypeOK, TERMINAL_STATUSES
  <2>4. CASE RecordRetry
    BY <2>4 DEF RecordRetry, RetryStatus, RunTypeOK, TERMINAL_STATUSES
  <2>5. CASE FailStage \/ FailResult \/ SignalResult
    BY <2>5 DEF FailStage, FailResult, SignalResult, CloseActive, RunTypeOK,
       TERMINAL_STATUSES
  <2>6. CASE Preflight \/ BeginRecovery \/ BeginRecoveryRaises \/ OpenStage
    BY <2>6 DEF Preflight, BeginRecovery, BeginRecoveryRaises, OpenStage, json, RunTypeOK
  <2>7. CASE OpenJournal \/ OpenJournalRaises \/ RunnerSucceeds \/ EndJob \/ EndRun
    BY <2>7 DEF OpenJournal, OpenJournalRaises, RunnerSucceeds, EndJob, EndRun, Fail,
       json, RunTypeOK, TERMINAL_STATUSES
  <2>8. CASE FailStageRaises \/ FailJob \/ FailJobRaises \/ SignalJob \/ SignalExit
    BY <2>8 DEF FailStageRaises, FailJob, FailJobRaises, SignalJob, SignalExit, json,
       RunTypeOK
  <2>9. QED
    BY <1>3, <2>2, <2>3, <2>4, <2>5, <2>6, <2>7, <2>8 DEF Proceeding
<1>4. CASE RunnerWorks
  BY <1>4 DEF RunnerWorks, json, parent, RunTypeOK
<1>5. CASE Failing
  BY <1>5 DEF Failing, PreflightRaises, RunnerFails, ParentRaises, Interrupt,
     InterruptEarly, Signal, Crash, Fail, json, RunTypeOK, TERMINAL_STATUSES
<1>6. QED
  BY <1>1, <1>2, <1>3, <1>4, <1>5 DEF RunNext

LEMMA RunTypeStep == RunTypeOK /\ [RunNext]_runVars => RunTypeOK'
<1> SUFFICES ASSUME RunTypeOK, [RunNext]_runVars PROVE RunTypeOK'
  OBVIOUS
<1>1. TypeOK /\ [Next]_vars
  BY JournalStep DEF RunTypeOK
<1>2. TypeOK'
  BY <1>1, TypeStep
<1>3. QED
  BY <1>2, ParentTypeStep

\* Every variable of a run keeps its type.
THEOREM RunTypeCorrect == RunSpec => []RunTypeOK
<1>1. RunInit => RunTypeOK
  BY RunInitType
<1>2. RunTypeOK /\ [RunNext]_runVars => RunTypeOK'
  BY RunTypeStep
<1>3. QED
  BY <1>1, <1>2, PTL DEF RunSpec

\* Whatever the parents of a run do with the journal, faults and crashes
\* included, is a behaviour of EventJournal.
THEOREM RunsUseTheJournal == RunSpec => RunUsesJournal
<1>1. RunInit => Init
  BY DEF RunInit
<1>2. RunTypeOK /\ [RunNext]_runVars => [Next]_vars
  BY JournalStep
<1>3. QED
  BY <1>1, <1>2, RunTypeCorrect, PTL DEF RunSpec, Spec, RunUsesJournal
-----------------------------------------------------------------------------
(* The two records.                                                        *)

\* What a runner does leaves the job alone.
LEMMA RunnerLeavesJob ==
    ASSUME RunnerWorks \/ NoMoreRunner \/ RunnerExit
    PROVE  jobState' = jobState
BY DEF RunnerWorks, NoMoreRunner, RunnerExit, RecordCase, BeginCase, RecordRequest,
   CompleteCase, RecordModelState, FinishStage, jobVars, vars

LEMMA RunInvInit == RunInit => RunInv
BY RunInitType
DEF RunInit, Init, RunInv, NothingBeforeLaunch, EndedRunIsLeftAlone,
    EndedRunHasEndedStages, OneActiveStage, EndingFitsJob, JobAwaitsStage,
    CompleteRunHasCompleteJob, WorkIsOnAnOpenJob, TERMINAL_STATUSES

LEMMA RunInvStep == RunInv /\ [RunNext]_runVars => RunInv'
<1> SUFFICES ASSUME RunInv, [RunNext]_runVars PROVE RunInv'
  OBVIOUS
<1> DEFINE Rest ==
        /\ NothingBeforeLaunch
        /\ EndedRunIsLeftAlone
        /\ EndedRunHasEndedStages
        /\ OneActiveStage
        /\ EndingFitsJob
        /\ JobAwaitsStage
        /\ CompleteRunHasCompleteJob
        /\ WorkIsOnAnOpenJob
<1>1. RunTypeOK'
  BY RunTypeStep DEF RunInv
<1>2. Rest'
  <2> USE DEF RunInv, NothingBeforeLaunch, EndedRunIsLeftAlone, EndedRunHasEndedStages,
          OneActiveStage, EndingFitsJob, JobAwaitsStage, CompleteRunHasCompleteJob,
          WorkIsOnAnOpenJob, TERMINAL_STATUSES, Stage, Recovers
  <2> USE DEF json, vars, jobVars
  <2>0. Stage \in Stages /\ stageStatus \in [Stages -> {"none", "running"} \cup TERMINAL_STATUSES]
    BY StageIsPlanned DEF RunTypeOK
  <2>1. CASE UNCHANGED runVars
    BY <2>1 DEF runVars, parent, stageVars
  <2>2. CASE Starting
    <3>1. ASSUME NEW m \in {"run", "fork"}, Launch(m) PROVE Rest'
      BY <3>1 DEF Launch
    <3>2. CASE Resume
      BY <3>2 DEF Resume, MayRecover, CanResume, ResumeJob
    <3>3. ASSUME NEW i \in DOMAIN Order, NEW sel \in SUBSET Cases, Retry(i, sel)
          PROVE  Rest'
      BY <3>3 DEF Retry, MayRecover, CanResume
    <3>4. QED
      BY <2>2, <3>1, <3>2, <3>3 DEF Starting
  <2>3. CASE Preflight
    BY <2>3 DEF Preflight
  <2>4. CASE BeginRecovery
    BY <2>4 DEF BeginRecovery
  <2>5. CASE BeginRecoveryRaises
    BY <2>5 DEF BeginRecoveryRaises
  <2>6. CASE SkipStage
    BY <2>6 DEF SkipStage, Advance
  <2>7. CASE OpenStage
    <3>1. mode \in {"run", "fork", "resume", "retry"}
      BY DEF RunTypeOK
    <3>2. QED
      BY <2>0, <2>7, <3>1 DEF OpenStage
  <2>8. CASE OpenJournal
    <3>1. jobState' = "running"
      BY <2>8 DEF OpenJournal, StartStage, PrepareResume, PrepareRetry, Reopen
    <3>2. QED
      BY <2>8, <3>1 DEF OpenJournal
  <2>9. CASE OpenJournalRaises
    BY <2>9 DEF OpenJournalRaises, Fail
  <2>10. CASE RunnerSucceeds
    BY <2>10, RunnerLeavesJob DEF RunnerSucceeds
  <2>11. CASE RecordStage
    BY <2>11, <2>0 DEF RecordStage, Advance
  <2>12. CASE RecordRetry
    BY <2>12, <2>0 DEF RecordRetry, RetryStatus
  <2>13. CASE EndJob
    BY <2>13 DEF EndJob, FinishJob
  <2>14. CASE EndRun
    <3>1. ending \in TERMINAL_STATUSES
      BY DEF RunTypeOK
    <3>2. QED
      BY <2>14, <3>1 DEF EndRun
  <2>15. CASE FailStage \/ FailStageRaises
    BY <2>15, <2>0 DEF FailStage, FailStageRaises, CloseActive
  <2>16. CASE FailJob
    BY <2>16 DEF FailJob, FinishJob
  <2>17. CASE FailJobRaises
    BY <2>17 DEF FailJobRaises
  <2>18. CASE FailResult
    BY <2>18, <2>0 DEF FailResult, CloseActive, RunTypeOK
  <2>19. CASE SignalJob
    BY <2>19 DEF SignalJob, FinishJob
  <2>20. CASE SignalResult
    BY <2>20, <2>0 DEF SignalResult, CloseActive
  <2>21. CASE SignalExit
    BY <2>21, RunnerLeavesJob DEF SignalExit
  <2>22. CASE RunnerWorks
    BY <2>22, RunnerLeavesJob DEF RunnerWorks, parent
  <2>23. CASE PreflightRaises \/ InterruptEarly \/ Signal
    BY <2>23 DEF PreflightRaises, InterruptEarly, Signal
  <2>24. CASE RunnerFails
    BY <2>24, RunnerLeavesJob DEF RunnerFails, Fail
  <2>25. CASE ParentRaises
    BY <2>25 DEF ParentRaises, Fail
  <2>26. CASE Interrupt
    BY <2>26, RunnerLeavesJob DEF Interrupt, Fail
  <2>27. CASE Crash
    BY <2>27, RunnerLeavesJob
    DEF Crash, CrashAfterCreateJob, CrashInResumeJob, MayRecover, CanResume
  <2>28. QED
    BY <2>1, <2>2, <2>3, <2>4, <2>5, <2>6, <2>7, <2>8, <2>9, <2>10, <2>11, <2>12, <2>13,
       <2>14, <2>15, <2>16, <2>17, <2>18, <2>19, <2>20, <2>21, <2>22, <2>23, <2>24, <2>25,
       <2>26, <2>27
    DEF RunNext, Proceeding, Failing
<1>3. QED
  BY <1>1, <1>2 DEF RunInv

\* RunInv holds in every execution of a run.
THEOREM RunInvHolds == RunSpec => []RunInv
<1>1. RunInit => RunInv
  BY RunInvInit
<1>2. RunInv /\ [RunNext]_runVars => RunInv'
  BY RunInvStep
<1>3. QED
  BY <1>1, <1>2, PTL DEF RunSpec

\* A run that is terminal on disk has no running stage, whichever parent,
\* signal handler or crash ended it.
THEOREM EndedRuns == RunSpec => []EndedRunHasEndedStages
<1>1. RunInv => EndedRunHasEndedStages
  BY DEF RunInv
<1>2. QED
  BY <1>1, RunInvHolds, PTL

\* The JSON is complete only when the journal's job is.
THEOREM CompleteRuns == RunSpec => []CompleteRunHasCompleteJob
<1>1. RunInv => CompleteRunHasCompleteJob
  BY DEF RunInv
<1>2. QED
  BY <1>1, RunInvHolds, PTL

\* A stage is only worked on under a job that is open in the journal.
THEOREM OpenJobs == RunSpec => []WorkIsOnAnOpenJob
<1>1. RunInv => WorkIsOnAnOpenJob
  BY DEF RunInv
<1>2. QED
  BY <1>1, RunInvHolds, PTL

-----------------------------------------------------------------------------
(* Steps of a run.                                                         *)

LEMMA ResumeStep ==
    ASSUME RunInv, RunInv', [RunNext]_runVars,
           mode = "resume", mode' = "resume",
           NEW s \in Stages, stageStatus[s] = "complete"
    PROVE  stageStatus'[s] = "complete"
<1> USE DEF RunInv, OneActiveStage, Stage, json
<1>0. Stage \in Stages /\ stageStatus \in [Stages -> {"none", "running"} \cup TERMINAL_STATUSES]
  BY StageIsPlanned DEF RunTypeOK
<1>1. CASE OpenStage
  BY <1>0, <1>1 DEF OpenStage
<1>2. CASE RecordStage \/ RecordRetry
  BY <1>0, <1>2 DEF RecordStage, RecordRetry
<1>3. CASE FailStage \/ FailResult \/ SignalResult
  BY <1>3 DEF FailStage, FailResult, SignalResult, CloseActive
<1>4. CASE UNCHANGED stageStatus
  BY <1>4
<1>5. QED
  BY <1>1, <1>2, <1>3, <1>4
  DEF RunNext, runVars, Starting, Launch, Resume, Retry, Proceeding, Preflight,
      BeginRecovery, BeginRecoveryRaises, SkipStage, OpenJournal, OpenJournalRaises,
      RunnerSucceeds, EndJob, EndRun, FailStageRaises, FailJob, FailJobRaises, SignalJob,
      SignalExit, RunnerWorks, Failing, PreflightRaises, RunnerFails, ParentRaises,
      Interrupt, InterruptEarly, Signal, Crash

\* A resume never takes back the completion of a stage.
THEOREM ResumesKeepCompleteStages == RunSpec => ResumeKeepsCompleteStages
<1> DEFINE Kept ==
        \A s \in Stages :
            mode = "resume" /\ mode' = "resume" /\ stageStatus[s] = "complete"
            => stageStatus'[s] = "complete"
<1>1. RunInv /\ RunInv' /\ [RunNext]_runVars => [Kept]_runVars
  BY ResumeStep
<1>2. QED
  BY <1>1, RunInvHolds, PTL DEF RunSpec, ResumeKeepsCompleteStages

\* A parent never comes back to a step it has taken.
LEMMA ParentForward ==
    ASSUME RunTypeOK, RunNext, pc # "idle", parent' # parent
    PROVE  \/ Station(pc) < Station(pc')
           \/ /\ Station(pc) = 1 /\ Station(pc') = 1
              /\ at < at' \/ (at = at' /\ InStage(pc) < InStage(pc'))
<1>1. at \in Nat
  BY RunAssumption DEF RunTypeOK
<1>2. ASSUME pc' = "idle"
      PROVE  Station(pc) < Station(pc')
  BY <1>2 DEF RunTypeOK, Station
<1>3. ~Starting
  BY DEF Starting, Launch, Resume, Retry, MayRecover
<1>4. ~RunnerWorks
  BY DEF RunnerWorks
<1>5. ASSUME Advance, pc \in {"stage", "record"}
      PROVE  \/ Station(pc) < Station(pc')
             \/ Station(pc) = 1 /\ Station(pc') = 1 /\ at < at'
  BY <1>1, <1>5 DEF Advance, Station
<1>6. ASSUME NEW e, Fail(e), Station(pc) < 4
      PROVE  Station(pc) < Station(pc')
  <2>1. pc' \in {"fail_job", "fail_stage"}
    BY <1>6 DEF Fail
  <2>2. Station(pc') \in {4, 5} /\ Station(pc) \in 0 .. 10
    BY <2>1 DEF Station
  <2> QED
    BY <1>6, <2>2
<1>7. CASE SkipStage \/ RecordStage
  BY <1>5, <1>7 DEF SkipStage, RecordStage
<1>8. CASE OpenJournalRaises \/ RunnerFails \/ ParentRaises \/ Interrupt
  <2>1. Station(pc) < 4
    BY <1>8 DEF OpenJournalRaises, RunnerFails, ParentRaises, Interrupt, Station
  <2> QED
    BY <1>6, <1>8, <2>1 DEF OpenJournalRaises, RunnerFails, ParentRaises, Interrupt
<1>9. CASE \/ Preflight \/ BeginRecovery \/ OpenStage \/ OpenJournal \/ RunnerSucceeds \/ RecordRetry
           \/ EndJob
  BY <1>1, <1>9 DEF Preflight, BeginRecovery, OpenStage, OpenJournal, RunnerSucceeds, RecordRetry,
     EndJob, Station, InStage
<1>10. CASE \/ BeginRecoveryRaises \/ EndRun \/ FailStageRaises \/ FailJobRaises \/ FailResult
            \/ SignalExit \/ PreflightRaises \/ InterruptEarly \/ Crash
  BY <1>2, <1>10 DEF BeginRecoveryRaises, EndRun, FailStageRaises, FailJobRaises, FailResult,
     SignalExit, PreflightRaises, InterruptEarly, Crash
<1>11. CASE FailStage \/ FailJob \/ SignalJob \/ SignalResult \/ Signal
  BY <1>11 DEF FailStage, FailJob, SignalJob, SignalResult, Signal, Station
<1> QED
  BY <1>3, <1>4, <1>7, <1>8, <1>9, <1>10, <1>11 DEF RunNext, Proceeding, Failing

\* A parent takes the stages one after the other and never comes back to a step, whatever
\* fails on the way and however it is interrupted: that its steps end is then a matter of
\* each being taken (RunGetsAnEnd).
THEOREM ParentsGoForward == RunSpec => ParentGoesForward
<1>1. RunTypeOK /\ [RunNext]_runVars =>
        [pc # "idle" /\ parent' # parent =>
           \/ Station(pc) < Station(pc')
           \/ /\ Station(pc) = 1 /\ Station(pc') = 1
              /\ at < at' \/ (at = at' /\ InStage(pc) < InStage(pc'))]_runVars
  BY ParentForward DEF runVars
<1> QED
  BY <1>1, RunTypeCorrect, PTL DEF RunSpec, ParentGoesForward

-----------------------------------------------------------------------------
(* The calls of the parents, whatever fails.                               *)

\* A runner is alive only while a parent or its signal handler is there, and
\* works on the stage the parent is at, which the JSON does not call complete.
RunnerInv ==
    /\ pc \notin {"supervise", "sig_job", "sig_result", "sig_exit"} => runner = NoRunner
    /\ pc = "supervise" => runner = Stage
    /\ runner # NoRunner => runner = Stage /\ stageStatus[Stage] # "complete"
    /\ pc \in {"journal", "supervise", "record"} => stageStatus[Stage] = "running"

\* What the journal knows of the stages a parent has yet to open.
AwaitInv ==
    /\ jobState = "none" => \A s \in Stages : stageState[s] = "none"
    /\ jobRow /\ jobState = "none" => pc = "idle" /\ runStatus # "none"
    /\ jobState = "none" => mode \in {"run", "fork"}
    /\ pc = "begin" => mode \in {"resume", "retry"}
    /\ pc = "preflight" => mode \in {"run", "fork"}
    /\ mode \in {"run", "fork"} /\ pc \in {"preflight", "stage", "journal"} =>
            stageState[Stage] = "none"
    /\ mode \in {"run", "fork"}
       /\ pc \in {"preflight", "stage", "journal", "supervise", "record"} =>
            \A i \in DOMAIN Order : i > at => stageState[Order[i]] = "none"

\* What a retry was asked for, and the end it gives to its stage.
RetryInv ==
    mode = "retry" =>
        /\ pc \in {"begin", "stage", "journal"} =>
                /\ Stage \in Retryable /\ chosen # {}
                /\ chosen \subseteq Candidates(Stage) \cap Measured
                /\ stageState[Stage] # "none" /\ jobState \notin {"none", "complete"}
        /\ pc \in {"job", "result"} => stageStatus[Stage] = RetryStatus
        /\ pc = "fail_stage" => stageStatus[Stage] \in {"running", RetryStatus}

CallInv == RunnerInv /\ AwaitInv /\ RetryInv

LEMMA CallInvInit == RunInit => CallInv
BY DEF RunInit, Init, CallInv, RunnerInv, AwaitInv, RetryInv

\* The types the steps below rely on.
LEMMA RunTypes ==
    ASSUME RunTypeOK
    PROVE  /\ Stage \in Stages /\ at \in DOMAIN Order
           /\ \A i \in DOMAIN Order : Order[i] \in Stages /\ i \in Nat
           /\ \A i, j \in DOMAIN Order : Order[i] = Order[j] => i = j
           /\ stageStatus \in [Stages -> {"none", "running"} \cup TERMINAL_STATUSES]
           /\ stageState \in [Stages -> EntityStates]
           /\ stageScope \in [Stages -> {"none", "all", "selected"}]
           /\ caseState \in [Cases -> EntityStates]
           /\ NoRunner \notin Stages
           /\ mode \in {"run", "fork", "resume", "retry"}
           /\ ending \in TERMINAL_STATUSES
BY StageIsPlanned, RunAssumption, JournalAssumption DEF RunTypeOK, TypeOK

\* What the journal knows after its stage was opened.
LEMMA Opened ==
    ASSUME RunTypeOK, OpenJournal
    PROVE  /\ jobState' = "running" /\ runner' = Stage /\ done' = {}
           /\ stageState' = [stageState EXCEPT ![Stage] = "running"]
<1>1. CASE StartStage(Stage)
  BY <1>1 DEF StartStage
<1>2. ASSUME NEW sel, NEW scope, Reopen(Stage, sel, scope)
      PROVE  /\ jobState' = "running" /\ runner' = Stage /\ done' = {}
             /\ stageState' = [stageState EXCEPT ![Stage] = "running"]
  BY <1>2 DEF Reopen
<1>3. QED
  BY <1>1, <1>2 DEF OpenJournal, PrepareResume, PrepareRetry

\* What a runner does is about its stage and leaves the job alone.
LEMMA WorkIsOnItsStage ==
    ASSUME RunTypeOK, RunnerWorks
    PROVE  /\ UNCHANGED <<jobVars, stageScope, picked, caseRetry, runner, json, parent>>
           /\ \A s \in Stages : s # runner => stageState'[s] = stageState[s]
           /\ \A c \in Cases : StageOf[c] # runner =>
                    caseState'[c] = caseState[c] /\ attempts'[c] = attempts[c]
           /\ runner \in Stages
           /\ \/ UNCHANGED stageState
              \/ /\ stageState[runner] = "running"
                 /\ stageState' = [stageState EXCEPT ![runner] = FinishState(runner)]
                 /\ FinishStage(runner)
<1>0. TypeOK
  BY DEF RunTypeOK
<1>1. ASSUME NEW c \in Cases,
             \/ \E o \in Outcomes : RecordCase(c, o)
             \/ BeginCase(c) \/ RecordRequest(c) \/ RecordModelState(c)
             \/ \E state \in TERMINAL_STATES : CompleteCase(c, state)
      PROVE  /\ UNCHANGED <<jobVars, stageVars, caseRetry, runner>>
             /\ runner = StageOf[c]
             /\ \A d \in Cases : d # c =>
                    caseState'[d] = caseState[d] /\ attempts'[d] = attempts[d]
  <2>1. CASE \E o \in Outcomes : RecordCase(c, o)
    BY <1>0, <2>1 DEF RecordCase, Working, WithAttempt, TypeOK
  <2>2. CASE BeginCase(c)
    BY <1>0, <2>2 DEF BeginCase, Working, WithAttempt, TypeOK
  <2>3. CASE RecordRequest(c) \/ RecordModelState(c)
    BY <1>0, <2>3 DEF RecordRequest, RecordModelState, Working, Soaking, TypeOK
  <2>4. CASE \E state \in TERMINAL_STATES : CompleteCase(c, state)
    BY <1>0, <2>4 DEF CompleteCase, Soaking, WithAttempt, TypeOK
  <2>5. QED
    BY <1>1, <2>1, <2>2, <2>3, <2>4
<1>2. ASSUME NEW s \in Stages, FinishStage(s)
      PROVE  /\ UNCHANGED <<jobVars, stageScope, picked, caseVars, runner>>
             /\ runner = s /\ stageState[runner] = "running"
             /\ stageState' = [stageState EXCEPT ![runner] = FinishState(runner)]
  BY <1>2 DEF FinishStage
<1>3. UNCHANGED <<json, parent>>
  BY DEF RunnerWorks
<1>4. CASE \E s \in Stages : FinishStage(s)
  BY <1>0, <1>2, <1>3, <1>4 DEF TypeOK, caseVars
<1>5. CASE \E c \in Cases : \/ \E o \in Outcomes : RecordCase(c, o)
                            \/ BeginCase(c) \/ RecordRequest(c) \/ RecordModelState(c)
                            \/ \E state \in TERMINAL_STATES : CompleteCase(c, state)
  BY <1>1, <1>3, <1>5, JournalAssumption DEF stageVars
<1>6. QED
  BY <1>4, <1>5 DEF RunnerWorks

LEMMA RunnerInvStep ==
    ASSUME RunInv, RunnerInv, [RunNext]_runVars PROVE RunnerInv'
<1> USE RunTypes DEF RunInv, RunnerInv, Stage, json
<1>1. CASE UNCHANGED runVars
  BY <1>1 DEF runVars, parent, vars
<1>2. CASE Starting
  BY <1>2 DEF Starting, Launch, Resume, Retry, MayRecover, ResumeJob, vars
<1>3. CASE OpenStage
  BY <1>3 DEF OpenStage, vars
<1>4. CASE OpenJournal
  BY <1>4, Opened DEF OpenJournal
<1>5. CASE RunnerWorks
  BY <1>5, WorkIsOnItsStage DEF parent
<1>6. CASE RunnerSucceeds \/ RunnerFails
  BY <1>6 DEF RunnerSucceeds, RunnerFails, RunnerExit, Fail
<1>7. CASE RecordStage \/ RecordRetry
  BY <1>7 DEF RecordStage, RecordRetry, Advance, vars
<1>8. CASE FailStage \/ FailResult \/ SignalResult
  <2>1. \A e : e # "complete" =>
            \A s \in Stages : stageStatus[s] # "complete" => CloseActive(e)[s] # "complete"
    BY DEF CloseActive
  <2>2. (FailStage \/ FailResult) => ending # "complete"
    BY DEF FailStage, FailResult, EndingFitsJob
  <2>3. QED
    BY <1>8, <2>1, <2>2 DEF FailStage, FailResult, SignalResult, vars
<1>9. CASE EndJob \/ FailJob \/ SignalJob
  BY <1>9 DEF EndJob, FailJob, SignalJob, FinishJob, vars
<1>10. CASE SignalExit \/ Interrupt \/ Crash
  BY <1>10 DEF SignalExit, Interrupt, Crash, Fail, NoMoreRunner, RunnerExit,
     CrashAfterCreateJob, CrashInResumeJob, vars
<1>11. CASE SkipStage \/ OpenJournalRaises \/ ParentRaises
  BY <1>11 DEF SkipStage, OpenJournalRaises, ParentRaises, Advance, Fail, vars
<1>12. CASE \/ Preflight \/ BeginRecovery \/ BeginRecoveryRaises \/ EndRun
            \/ FailStageRaises \/ FailJobRaises
            \/ PreflightRaises \/ InterruptEarly \/ Signal
  BY <1>12 DEF Preflight, BeginRecovery, BeginRecoveryRaises, EndRun, FailStageRaises,
     FailJobRaises, PreflightRaises, InterruptEarly, Signal, vars
<1>13. QED
  BY <1>1, <1>2, <1>3, <1>4, <1>5, <1>6, <1>7, <1>8, <1>9, <1>10, <1>11, <1>12
  DEF RunNext, Proceeding, Failing

\* The cases that can be picked are in the journal, and so is their job.
LEMMA PickedCasesAreThere ==
    ASSUME RunTypeOK, ParentsExist, AwaitInv,
           NEW i \in DOMAIN Order, NEW sel \in SUBSET Cases, Retry(i, sel)
    PROVE  /\ Order[i] \in Retryable /\ sel # {}
           /\ sel \subseteq Candidates(Order[i]) \cap Measured
           /\ stageState[Order[i]] # "none" /\ jobState \notin {"none", "complete"}
<1>1. Order[i] \in Retryable /\ sel # {} /\ sel \subseteq RetryableCases(Order[i])
  BY DEF Retry
<1>2. RetryableCases(Order[i]) \subseteq Candidates(Order[i]) \cap Measured
  BY DEF RetryableCases, Candidates, RECOVERABLE_STATES, Settled
<1>3. PICK c \in sel : c \in Candidates(Order[i])
  BY <1>1, <1>2
<1>4. stageState[Order[i]] # "none"
  BY <1>3 DEF Candidates, CasesOf, ParentsExist
<1>5. jobState # "none"
  BY <1>4, RunTypes DEF AwaitInv
<1>6. jobState # "complete"
  BY DEF Retry, MayRecover, CanResume
<1>7. QED
  BY <1>1, <1>2, <1>4, <1>5, <1>6

LEMMA AwaitInvStep ==
    ASSUME RunInv, RunnerInv, AwaitInv, ParentsExist, [RunNext]_runVars
    PROVE  AwaitInv'
<1> USE RunTypes DEF RunInv, AwaitInv, Stage, json
<1>1. CASE UNCHANGED runVars
  BY <1>1 DEF runVars, parent, vars, jobVars, stageVars
<1>2. CASE Starting
  <2>1. ASSUME NEW m \in {"run", "fork"}, Launch(m) PROVE AwaitInv'
    BY <2>1 DEF Launch, NothingBeforeLaunch, vars, jobVars, stageVars
  <2>2. CASE Resume
    BY <2>2 DEF Resume, ResumeJob, vars, jobVars, stageVars
  <2>3. ASSUME NEW i \in DOMAIN Order, NEW sel \in SUBSET Cases, Retry(i, sel)
        PROVE  AwaitInv'
    <3>1. jobState # "none" /\ UNCHANGED vars /\ mode' = "retry" /\ pc' = "begin"
      BY <2>3, PickedCasesAreThere DEF Retry
    <3>2. QED
      BY <3>1 DEF vars, jobVars, stageVars
  <2>4. QED
    BY <1>2, <2>1, <2>2, <2>3 DEF Starting
<1>3. CASE OpenJournal
  <2>1. /\ jobState' = "running" /\ stageState' = [stageState EXCEPT ![Stage] = "running"]
        /\ at' = at /\ mode' = mode /\ pc' = "supervise" /\ pc = "journal"
    BY <1>3, Opened DEF OpenJournal
  <2>2. \A i \in DOMAIN Order : i > at => Order[i] # Stage
    OBVIOUS
  <2>3. QED
    BY <2>1, <2>2
<1>4. CASE RunnerWorks
  <2>1. /\ UNCHANGED <<jobVars, parent, json>> /\ runner = Stage
        /\ \A s \in Stages : s # Stage => stageState'[s] = stageState[s]
        /\ pc \in {"supervise", "sig_job", "sig_result", "sig_exit"}
    BY <1>4, WorkIsOnItsStage DEF RunnerInv, RunnerWorks
  <2>2. \A i \in DOMAIN Order : i > at => Order[i] # Stage
    OBVIOUS
  <2>3. stageState' # stageState => stageState[Stage] = "running"
    BY <1>4, <2>1, WorkIsOnItsStage
  <2>4. QED
    BY <2>1, <2>2, <2>3 DEF jobVars, parent
<1>5. CASE RecordStage
  <2>1. Order \in Seq(Stages) /\ at' \in DOMAIN Order
    BY <1>5, RunAssumption, RunTypeStep DEF RunTypeOK
  <2>2. pc' = "stage" => at' = at + 1
    BY <1>5 DEF RecordStage, Advance
  <2>3. pc' \in {"stage", "job"} /\ pc = "record" /\ UNCHANGED <<vars, runStatus, mode>>
    BY <1>5 DEF RecordStage, Advance
  <2>4. \A i \in DOMAIN Order : i > at' => pc' = "job" \/ i > at
    BY <2>1, <2>2, <2>3
  <2>5. pc' = "stage" => at' > at
    BY <2>2
  <2>6. QED
    BY <2>1, <2>3, <2>4, <2>5 DEF vars, jobVars, stageVars
<1>6. CASE RecordRetry \/ SkipStage
  <2>1. /\ mode' = mode /\ mode \in {"resume", "retry"} /\ pc' \in {"job", "stage"}
        /\ pc # "idle"
    BY <1>6 DEF RecordRetry, SkipStage, Advance
  <2>2. UNCHANGED <<jobRow, jobState, stageState>>
    BY <1>6 DEF RecordRetry, SkipStage, vars, jobVars, stageVars
  <2>3. QED
    BY <2>1, <2>2
<1>7. CASE EndJob \/ FailJob \/ SignalJob
  <2>1. UNCHANGED <<jobRow, stageState, mode, at>> /\ pc' \in {"result", "fail_result", "sig_result"}
    BY <1>7 DEF EndJob, FailJob, SignalJob, FinishJob, vars, jobVars, stageVars
  <2>2. pc # "idle" /\ (jobState' = jobState \/ jobState' # "none")
    BY <1>7 DEF EndJob, FailJob, SignalJob, FinishJob, vars, jobVars
  <2>3. QED
    BY <2>1, <2>2
<1>8. CASE RunnerSucceeds \/ RunnerFails \/ SignalExit \/ Interrupt
  BY <1>8 DEF RunnerSucceeds, RunnerFails, SignalExit, Interrupt, Fail, NoMoreRunner,
     RunnerExit, vars, jobVars, stageVars
<1>9. CASE Crash
  BY <1>9 DEF Crash, NothingBeforeLaunch, NoMoreRunner, RunnerExit, CrashAfterCreateJob,
     CrashInResumeJob, vars, jobVars, stageVars
<1>10. CASE OpenStage \/ OpenJournalRaises \/ ParentRaises \/ FailStage \/ FailResult
            \/ SignalResult
  BY <1>10 DEF OpenStage, OpenJournalRaises, ParentRaises, FailStage, FailResult,
     SignalResult, Fail, vars, jobVars, stageVars
<1>11. CASE \/ Preflight \/ BeginRecovery \/ BeginRecoveryRaises \/ EndRun
            \/ FailStageRaises \/ FailJobRaises
            \/ PreflightRaises \/ InterruptEarly \/ Signal
  <2>1. UNCHANGED <<jobRow, jobState, stageState, mode, at>> /\ pc # "idle"
    BY <1>11 DEF Preflight, BeginRecovery, BeginRecoveryRaises, EndRun, FailStageRaises,
       FailJobRaises, PreflightRaises, InterruptEarly, Signal, vars, jobVars, stageVars
  <2>2. \/ pc' \in {"idle", "sig_job"}
        \/ pc = "preflight" /\ pc' = "stage"
        \/ pc = "begin" /\ pc' = "stage"
    BY <1>11 DEF Preflight, BeginRecovery, BeginRecoveryRaises, EndRun, FailStageRaises,
       FailJobRaises, PreflightRaises, InterruptEarly, Signal
  <2>3. pc = "begin" => mode \in {"resume", "retry"}
    BY DEF AwaitInv
  <2>4. QED
    BY <2>1, <2>2, <2>3
<1>12. QED
  BY <1>1, <1>2, <1>3, <1>4, <1>5, <1>6, <1>7, <1>8, <1>9, <1>10, <1>11
  DEF RunNext, Proceeding, Failing

LEMMA RetryInvStep ==
    ASSUME RunInv, CallInv, ParentsExist, [RunNext]_runVars PROVE RetryInv'
<1> USE RunTypes
    DEF RunInv, CallInv, RetryInv, RetryStatus, Stage, json
<1>1. CASE UNCHANGED runVars
  BY <1>1 DEF runVars, parent, vars, jobVars, stageVars, caseVars, Candidates
<1>2. CASE Starting
  <2>1. ASSUME NEW i \in DOMAIN Order, NEW sel \in SUBSET Cases, Retry(i, sel)
        PROVE  RetryInv'
    BY <2>1, PickedCasesAreThere
    DEF Retry, vars, jobVars, stageVars, caseVars, Candidates
  <2>2. QED
    BY <1>2, <2>1 DEF Starting, Launch, Resume
<1>3. CASE BeginRecovery \/ OpenStage
  BY <1>3 DEF BeginRecovery, OpenStage, vars, jobVars, stageVars, caseVars, Candidates
<1>4. CASE OpenJournal \/ RunnerSucceeds \/ SkipStage \/ RecordStage
  BY <1>4 DEF OpenJournal, RunnerSucceeds, SkipStage, RecordStage, Advance
<1>5. CASE RecordRetry
  BY <1>5 DEF RecordRetry, vars, stageVars
<1>6. CASE EndJob
  BY <1>6 DEF EndJob, FinishJob, stageVars
<1>7. CASE OpenJournalRaises \/ RunnerFails \/ ParentRaises \/ Interrupt
  <2>1. pc' \in {"fail_stage", "fail_job"} /\ UNCHANGED <<mode, at, stageStatus, stageState>>
    BY <1>7 DEF OpenJournalRaises, RunnerFails, ParentRaises, Interrupt, Fail, NoMoreRunner,
       RunnerExit, vars, stageVars
  <2>2. mode = "retry" => pc \in {"journal", "supervise", "record", "job", "result"}
    BY <1>7 DEF OpenJournalRaises, RunnerFails, ParentRaises, Interrupt
  <2>3. QED
    BY <2>1, <2>2 DEF RunnerInv
<1>8. CASE RunnerWorks
  BY <1>8 DEF RunnerWorks, parent
<1>9. CASE \/ Preflight \/ BeginRecoveryRaises \/ EndRun
           \/ FailStage \/ FailStageRaises \/ FailJob \/ FailJobRaises \/ FailResult
           \/ SignalJob \/ SignalResult \/ SignalExit
           \/ PreflightRaises \/ InterruptEarly \/ Signal \/ Crash
  BY <1>9 DEF AwaitInv, Preflight, BeginRecoveryRaises, EndRun, FailStage, FailStageRaises, FailJob,
     FailJobRaises, FailResult, SignalJob, SignalResult, SignalExit, PreflightRaises,
     InterruptEarly, Signal, Crash
<1>10. QED
  BY <1>1, <1>2, <1>3, <1>4, <1>5, <1>6, <1>7, <1>8, <1>9
  DEF RunNext, Proceeding, Failing

\* What holds of the journal in every state holds in every state of a run.
LEMMA JournalInvHolds == RunSpec => []IInv
BY RunsUseTheJournal, InvariantHolds, PTL DEF RunUsesJournal

\* CallInv holds in every execution of a run.
LEMMA CallInvHolds == RunSpec => []CallInv
<1>1. RunInit => CallInv
  BY CallInvInit
<1>2. RunInv /\ IInv /\ CallInv /\ [RunNext]_runVars => CallInv'
  BY RunnerInvStep, AwaitInvStep, RetryInvStep DEF CallInv, IInv
<1>3. QED
  BY <1>1, <1>2, RunInvHolds, JournalInvHolds, PTL DEF RunSpec

LEMMA CallsFollow ==
    ASSUME RunInv, CallInv PROVE CallsAreAccepted
<1> USE RunTypes DEF RunInv, CallInv
<1>1. OpeningIsAccepted
  <2> SUFFICES ASSUME pc = "journal" PROVE OpeningIsAccepted
    BY DEF OpeningIsAccepted
  <2>1. runner = NoRunner
    BY DEF RunnerInv
  <2>2. CASE ~Recovers
    <3>1. stageState[Stage] = "none"
      BY <2>2 DEF Recovers, AwaitInv
    <3>2. jobState \in {"none", "running"} /\ (jobRow => jobState # "none")
      BY <2>2 DEF WorkIsOnAnOpenJob, AwaitInv
    <3>3. QED
      BY <2>1, <2>2, <3>1, <3>2 DEF OpeningIsAccepted, StartAccepted, LegalTransition
  <2>3. CASE Recovers /\ mode = "resume"
    BY <2>1, <2>3 DEF OpeningIsAccepted, Recovers, ReopenAccepted, JobAwaitsStage
  <2>4. CASE Recovers /\ mode = "retry"
    BY <2>1, <2>4 DEF OpeningIsAccepted, Recovers, ReopenAccepted, RetryInv
  <2>5. QED
    BY <2>2, <2>3, <2>4 DEF Recovers
<1>2. EndingIsAccepted
  BY DEF EndingIsAccepted, RunnerInv, AwaitInv, WorkIsOnAnOpenJob
<1>3. JsonStageIsAccepted
  BY DEF JsonStageIsAccepted, OneActiveStage, RetryInv
<1>4. QED
  BY <1>1, <1>2, <1>3 DEF CallsAreAccepted

\* Neither record refuses a call of a parent or of its handlers, whatever has
\* failed before, but where what the call asks for is done.
THEOREM CallsAreTaken == RunSpec => []CallsAreAccepted
<1>1. RunInv /\ CallInv => CallsAreAccepted
  BY CallsFollow
<1>2. QED
  BY <1>1, RunInvHolds, CallInvHolds, PTL

-----------------------------------------------------------------------------
(* What a complete stage may lack.                                         *)

\* Every case of s is settled or was not tried.
Covered(s) == \A c \in CasesOf(s) : caseState[c] \in Settled \/ Untried(c)

\* What is known of a stage that the JSON says complete, and of the stage the
\* parent is at.  The soak test reports a failed stage like any other.
StageInv ==
    /\ CompleteStageHidesNothing
    /\ \A s \in Stages : stageState[s] = "none" => stageScope[s] = "none"
    /\ pc = "supervise" /\ mode # "retry" /\ Stage \notin Sustained =>
            stageScope[Stage] # "selected" /\ stageState[Stage] \in {"running", "complete"}
    /\ pc = "record" /\ mode # "retry" /\ Stage \notin Sustained =>
            stageState[Stage] = "complete" \/ Covered(Stage)

LEMMA StageInvInit == RunInit => StageInv
BY DEF RunInit, Init, StageInv, CompleteStageHidesNothing

\* A runner that has not begun any case leaves the stage as it was prepared.
LEMMA NothingBegun ==
    ASSUME IInv, Stage \in Stages \ Sustained, runner = Stage, done = {},
           stageScope[Stage] # "selected"
    PROVE  Covered(Stage)
<1> SUFFICES ASSUME NEW c \in CasesOf(Stage), caseState[c] \notin Settled PROVE Untried(c)
  BY DEF Covered
<1>1. c \in Cases /\ StageOf[c] = Stage
  BY DEF CasesOf
<1>2. \A n \in Numbers : attempts[c][n] # "running"
  BY <1>1 DEF IInv, OnlySoaksStayOpen
<1>3. caseState[c] = "none" \/ (caseState[c] = "running" /\ caseRetry[c])
  BY <1>1 DEF IInv, RunnerIsPrepared, NotPicked
<1>4. QED
  BY <1>2, <1>3 DEF Untried

\* A stage whose cases are left alone stays covered.
LEMMA StaysCovered ==
    ASSUME NEW s \in Stages, Covered(s),
           \A c \in CasesOf(s) : /\ caseState'[c] = caseState[c]
                                 /\ attempts'[c] = attempts[c]
                                 /\ caseRetry[c] => caseRetry'[c]
    PROVE  Covered(s)'
BY DEF Covered, Untried, CasesOf

\* What opening a stage leaves of the other ones.
LEMMA OpenedAlone ==
    ASSUME RunTypeOK, CallInv, OpenJournal
    PROVE  /\ \A s \in Stages : s # Stage => stageScope'[s] = stageScope[s]
           /\ \A c \in Cases : StageOf[c] # Stage =>
                    /\ caseState'[c] = caseState[c] /\ attempts'[c] = attempts[c]
                    /\ caseRetry[c] => caseRetry'[c]
           /\ mode = "retry" \/ stageScope'[Stage] \in {"all", stageScope[Stage]}
           /\ mode = "retry" \/ stageScope'[Stage] = "all" \/ stageState[Stage] = "none"
<1>0. TypeOK /\ Stage \in Stages
  BY StageIsPlanned DEF RunTypeOK
<1>1. CASE ~Recovers /\ StartStage(Stage)
  BY <1>0, <1>1 DEF StartStage, StartAccepted, LegalTransition, TERMINAL_STATES, Settled,
     RECOVERABLE_STATES, caseVars
<1>2. ASSUME NEW sel, NEW scope, Reopen(Stage, sel, scope),
             \A c \in Cases : c \in sel => StageOf[c] = Stage
      PROVE  /\ stageScope' = [stageScope EXCEPT ![Stage] = scope]
             /\ \A c \in Cases : StageOf[c] # Stage =>
                    /\ caseState'[c] = caseState[c] /\ attempts'[c] = attempts[c]
                    /\ caseRetry[c] => caseRetry'[c]
  <2>1. stageScope' = [stageScope EXCEPT ![Stage] = scope]
    BY <1>2 DEF Reopen
  <2>2. ASSUME NEW c \in Cases, StageOf[c] # Stage
        PROVE  /\ caseState'[c] = caseState[c] /\ attempts'[c] = attempts[c]
               /\ caseRetry[c] => caseRetry'[c]
    <3>1. c \notin sel
      BY <1>2, <2>2
    <3>2. caseState'[c] = caseState[c] /\ (caseRetry[c] => caseRetry'[c])
      BY <1>2, <3>1 DEF Reopen
    <3>3. attempts'[c] = [n \in Numbers |-> attempts[c][n]]
      BY <1>2, <3>1 DEF Reopen
    <3>4. attempts[c] \in [Numbers -> EntityStates]
      BY <1>0 DEF TypeOK
    <3>5. QED
      BY <3>2, <3>3, <3>4
  <2>3. QED
    BY <2>1, <2>2
<1>3. CASE PrepareResume(Stage)
  <2>1. \A c \in Cases : c \in Candidates(Stage) => StageOf[c] = Stage
    BY DEF Candidates, CasesOf
  <2>2. QED
    BY <1>0, <1>2, <1>3, <2>1 DEF PrepareResume, TypeOK
<1>4. CASE PrepareRetry(Stage, chosen) /\ mode = "retry"
  <2>1. \A c \in Cases : c \in chosen => StageOf[c] = Stage
    BY <1>4 DEF PrepareRetry, Candidates, CasesOf
  <2>2. QED
    BY <1>0, <1>2, <1>4, <2>1 DEF PrepareRetry, TypeOK
<1>5. QED
  BY <1>1, <1>3, <1>4 DEF OpenJournal

\* The steps after which the JSON calls the same stages complete, or fewer.
LEMMA HidesNothingStep ==
    ASSUME RunTypeOK, CallInv, CompleteStageHidesNothing,
           \A s \in Stages : stageStatus'[s] = "complete" => stageStatus[s] = "complete",
           OpenJournal \/ RunnerWorks \/ UNCHANGED <<stageState, caseVars>>
    PROVE  CompleteStageHidesNothing'
<1> SUFFICES ASSUME NEW s \in Stages \ Sustained, stageStatus'[s] = "complete",
                    stageState'[s] # "complete"
             PROVE  Covered(s)'
  BY DEF CompleteStageHidesNothing, Covered, CasesOf
<1>1. stageStatus[s] = "complete"
  OBVIOUS
<1>2. CASE UNCHANGED <<stageState, caseVars>>
  <2>1. Covered(s)
    BY <1>1, <1>2 DEF CompleteStageHidesNothing, Covered
  <2>2. QED
    BY <1>2, <2>1, StaysCovered DEF caseVars
<1>3. CASE OpenJournal
  <2>1. s # Stage
    BY <1>1, <1>3 DEF CallInv, RunnerInv, OpenJournal
  <2>2. stageState'[s] = stageState[s]
    BY <1>3, <2>1, Opened, RunTypes
  <2>3. Covered(s)
    BY <1>1, <2>2 DEF CompleteStageHidesNothing, Covered
  <2>4. QED
    BY <1>3, <2>1, <2>3, StaysCovered, OpenedAlone DEF CasesOf
<1>4. CASE RunnerWorks
  <2>1. s # runner
    BY <1>1, <1>4, WorkIsOnItsStage, RunTypes DEF CallInv, RunnerInv
  <2>2. stageState'[s] = stageState[s]
    BY <1>4, <2>1, WorkIsOnItsStage
  <2>3. Covered(s)
    BY <1>1, <2>2 DEF CompleteStageHidesNothing, Covered
  <2>4. QED
    BY <1>4, <2>1, <2>3, StaysCovered, WorkIsOnItsStage DEF CasesOf
<1>5. QED
  BY <1>2, <1>3, <1>4

\* Most steps take no stage to its end and leave its scope alone.
LEMMA OtherStageSteps ==
    ASSUME RunTypeOK, CallInv, StageInv, UNCHANGED <<stageState, stageScope, caseVars>>,
           \A s \in Stages : stageStatus'[s] = "complete" => stageStatus[s] = "complete",
           pc' \notin {"supervise", "record"}
    PROVE  StageInv'
BY HidesNothingStep DEF StageInv

LEMMA StageInvStep ==
    ASSUME RunInv, CallInv, IInv, StageInv, [RunNext]_runVars
    PROVE  StageInv'
<1> USE RunTypes DEF RunInv
<1>1. CASE UNCHANGED runVars
  BY <1>1 DEF runVars, parent, json, vars, stageVars, caseVars, StageInv,
     CompleteStageHidesNothing, Covered, Untried, Stage
<1>2. CASE Starting
  BY <1>2, OtherStageSteps DEF Starting, Launch, Resume, Retry, MayRecover, ResumeJob, json,
     vars, stageVars
<1>3. CASE OpenStage
  BY <1>3, OtherStageSteps DEF OpenStage, vars, stageVars
<1>4. CASE OpenJournal
  <2>1. CompleteStageHidesNothing'
    BY <1>4, HidesNothingStep DEF StageInv, OpenJournal, json
  <2>2. /\ pc' = "supervise" /\ UNCHANGED <<mode, at>>
        /\ stageState' = [stageState EXCEPT ![Stage] = "running"]
    BY <1>4, Opened DEF OpenJournal
  <2>3. /\ \A s \in Stages : s # Stage => stageScope'[s] = stageScope[s]
        /\ mode = "retry" \/ stageScope'[Stage] \in {"all", stageScope[Stage]}
        /\ mode = "retry" \/ stageScope'[Stage] = "all" \/ stageState[Stage] = "none"
    BY <1>4, OpenedAlone
  <2>4. \A s \in Stages : stageState'[s] = "none" => stageScope'[s] = "none"
    BY <2>2, <2>3 DEF StageInv
  <2>5. mode # "retry" => stageScope'[Stage] # "selected"
    BY <2>3 DEF StageInv
  <2>6. Stage' = Stage /\ stageState'[Stage] = "running"
    BY <2>2 DEF Stage
  <2>7. QED
    BY <2>1, <2>2, <2>4, <2>5, <2>6 DEF StageInv
<1>5. CASE RunnerWorks
  <2>1. CompleteStageHidesNothing'
    BY <1>5, HidesNothingStep, WorkIsOnItsStage DEF StageInv, json
  <2>2. /\ UNCHANGED <<stageScope, mode, pc, at>> /\ pc # "record"
        /\ \A s \in Stages : s # Stage => stageState'[s] = stageState[s]
        /\ stageState' # stageState => stageState[Stage] = "running"
                                       /\ stageState'[Stage] = FinishState(Stage)
    BY <1>5, WorkIsOnItsStage DEF CallInv, RunnerInv, RunnerWorks, parent
  <2>3. /\ FinishState(Stage) \in {"complete", "failed"}
        /\ Stage \notin Sustained /\ stageScope[Stage] # "selected" =>
                FinishState(Stage) = "complete"
    BY DEF FinishState
  <2>4. Stage' = Stage
    BY <2>2 DEF Stage
  <2>5. \A s \in Stages : stageState'[s] = "none" => stageScope'[s] = "none"
    BY <2>2, <2>3 DEF StageInv
  <2>6. pc = "supervise" /\ mode # "retry" /\ Stage \notin Sustained =>
            /\ stageScope[Stage] # "selected"
            /\ stageState'[Stage] \in {"running", "complete"}
    BY <2>2, <2>3 DEF StageInv
  <2>7. QED
    BY <2>1, <2>2, <2>4, <2>5, <2>6 DEF StageInv
<1>6. CASE RunnerSucceeds
  <2>1. /\ UNCHANGED <<stageState, stageScope, caseVars, stageStatus, mode, at>>
        /\ pc = "supervise" /\ pc' = "record"
        /\ stageState[Stage] # "running" \/ done = {}
    BY <1>6 DEF RunnerSucceeds, RunnerExit, json, stageVars
  <2>2. CompleteStageHidesNothing'
    BY <2>1, HidesNothingStep DEF StageInv
  <2>3. Stage' = Stage
    BY <2>1 DEF Stage
  <2>4. mode # "retry" /\ Stage \notin Sustained =>
            stageState[Stage] = "complete" \/ Covered(Stage)
    BY <2>1, NothingBegun DEF StageInv, CallInv, RunnerInv
  <2>5. Covered(Stage) => Covered(Stage)'
    <3>1. ASSUME Covered(Stage) PROVE \A c \in CasesOf(Stage) : caseState'[c] \in Settled \/ Untried(c)'
      BY <2>1, <3>1 DEF Covered, Untried, caseVars
    <3>2. QED
      BY <2>3, <3>1 DEF Covered, CasesOf
  <2>6. QED
    BY <2>1, <2>2, <2>3, <2>4, <2>5 DEF StageInv
<1>7. CASE RecordStage
  <2>1. /\ stageStatus' = [stageStatus EXCEPT ![Stage] = "complete"]
        /\ UNCHANGED <<stageState, stageScope, caseVars>>
        /\ pc = "record" /\ mode # "retry" /\ pc' \in {"job", "stage"}
    BY <1>7 DEF RecordStage, Advance, vars, stageVars
  <2>2. ASSUME NEW s \in Stages \ Sustained, stageStatus'[s] = "complete",
               stageState'[s] # "complete"
        PROVE  Covered(s)'
    <3>1. Covered(s)
      <4>1. CASE s = Stage
        BY <2>1, <2>2, <4>1 DEF StageInv
      <4>2. CASE s # Stage
        BY <2>1, <2>2, <4>2 DEF StageInv, CompleteStageHidesNothing, Covered
      <4>3. QED
        BY <4>1, <4>2
    <3>2. QED
      BY <2>1, <3>1, StaysCovered DEF caseVars
  <2>3. CompleteStageHidesNothing'
    BY <2>2 DEF CompleteStageHidesNothing, Covered, CasesOf
  <2>4. QED
    BY <2>1, <2>3 DEF StageInv
<1>8. CASE RecordRetry
  <2>1. /\ stageStatus' = [stageStatus EXCEPT ![Stage] = RetryStatus]
        /\ UNCHANGED <<stageState, stageScope, caseVars>> /\ pc' = "job"
    BY <1>8 DEF RecordRetry, vars, stageVars
  <2>2. ASSUME NEW s \in Stages \ Sustained, stageStatus'[s] = "complete",
               stageState'[s] # "complete"
        PROVE  Covered(s)'
    <3>1. s # Stage
      BY <2>1, <2>2 DEF RetryStatus
    <3>2. Covered(s)
      BY <2>1, <2>2, <3>1 DEF StageInv, CompleteStageHidesNothing, Covered
    <3>3. QED
      BY <2>1, <3>2, StaysCovered DEF caseVars
  <2>3. CompleteStageHidesNothing'
    BY <2>2 DEF CompleteStageHidesNothing, Covered, CasesOf
  <2>4. QED
    BY <2>1, <2>3 DEF StageInv
<1>9. CASE FailStage \/ FailResult \/ SignalResult
  <2>1. \A e : e # "complete" =>
            \A s \in Stages : CloseActive(e)[s] = "complete" => stageStatus[s] = "complete"
    BY DEF CloseActive
  <2>2. (FailStage \/ FailResult) => ending # "complete"
    BY DEF FailStage, FailResult, EndingFitsJob
  <2>3. QED
    BY <1>9, <2>1, <2>2, OtherStageSteps DEF FailStage, FailResult, SignalResult, vars, stageVars
<1>10. CASE EndJob \/ FailJob \/ SignalJob \/ SignalExit
  BY <1>10, OtherStageSteps DEF EndJob, FailJob, SignalJob, SignalExit, FinishJob,
     NoMoreRunner, RunnerExit, json, vars, stageVars
<1>11. CASE SkipStage \/ OpenJournalRaises \/ ParentRaises
  BY <1>11, OtherStageSteps DEF SkipStage, OpenJournalRaises, ParentRaises, Advance, Fail,
     json, vars, stageVars
<1>12. CASE Interrupt \/ RunnerFails \/ Crash
  BY <1>12, OtherStageSteps DEF Interrupt, RunnerFails, Crash, Fail, NoMoreRunner,
     RunnerExit, CrashAfterCreateJob, CrashInResumeJob, json, vars, stageVars
<1>13. CASE \/ Preflight \/ BeginRecovery \/ BeginRecoveryRaises \/ EndRun
            \/ FailStageRaises \/ FailJobRaises
            \/ PreflightRaises \/ InterruptEarly \/ Signal
  BY <1>13, OtherStageSteps DEF Preflight, BeginRecovery, BeginRecoveryRaises, EndRun,
     FailStageRaises, FailJobRaises, PreflightRaises, InterruptEarly, Signal, json, vars,
     stageVars
<1>14. QED
  BY <1>1, <1>2, <1>3, <1>4, <1>5, <1>6, <1>7, <1>8, <1>9, <1>10, <1>11, <1>12, <1>13
  DEF RunNext, Proceeding, Failing

LEMMA StageInvHolds == RunSpec => []StageInv
<1>1. RunInit => StageInv
  BY StageInvInit
<1>2. RunInv /\ CallInv /\ IInv /\ StageInv /\ [RunNext]_runVars => StageInv'
  BY StageInvStep
<1>3. QED
  BY <1>1, <1>2, RunInvHolds, CallInvHolds, JournalInvHolds, PTL DEF RunSpec

\* Whatever fails, is cancelled or crashes, in any order and through any
\* recoveries, workloads without their engine included: where the JSON calls a
\* stage complete that the journal does not, what is not settled was not tried.
THEOREM CompleteStages == RunSpec => []CompleteStageHidesNothing
<1>1. StageInv => CompleteStageHidesNothing
  BY DEF StageInv
<1>2. QED
  BY <1>1, StageInvHolds, PTL

-----------------------------------------------------------------------------
(* A run that stops short, outside the moments of Untimely.                *)

\* Between two parents the two records fit; while a parent works they may
\* differ about the stage it is at.
ResumableInv ==
    /\ pc \in {"idle", "begin", "sig_exit"} => runStatus # "running"
    /\ jobState # "skipped" /\ \A s \in Stages : stageState[s] # "skipped"
    /\ jobState = "complete" => pc = "result" \/ runStatus = "complete"
    /\ jobState = "none" =>
            runStatus = "none" \/ pc \in {"preflight", "stage", "journal"}
    /\ mode = "retry" /\ pc \in {"begin", "stage", "journal"} =>
            stageState[Stage] \notin Settled
    /\ mode = "retry" /\ pc = "fail_stage" => stageStatus[Stage] = "running"
    /\ \A s \in Stages :
            stageStatus[s] # "complete" /\ stageState[s] \in Settled =>
                s = Stage /\ pc \in {"supervise", "record"}

LEMMA ResumableInit == RunInit => ResumableInv
BY DEF RunInit, Init, ResumableInv, Settled

\* The JSON is terminal whenever no parent, or one that is about to begin or
\* to exit, is there, and only then.
LEMMA AtWorkIsRunning ==
    ASSUME RunInv, ResumableInv PROVE runStatus = "running" <=> pc \notin {"idle", "begin", "sig_exit"}
BY DEF RunInv, RunTypeOK, NothingBeforeLaunch, EndedRunIsLeftAlone, ResumableInv

\* No call of a parent is refused here, and so no handler raises.
LEMMA NothingRaises ==
    ASSUME RunInv, CallInv, ResumableInv
    PROVE  ~OpenJournalRaises /\ ~BeginRecoveryRaises /\ ~FailStageRaises /\ ~FailJobRaises
<1> USE RunTypes DEF RunInv
<1>1. ~OpenJournalRaises
  <2> SUFFICES ASSUME OpenJournalRaises PROVE FALSE
    OBVIOUS
  <2>1. pc = "journal" /\ OpeningIsAccepted
    BY CallsFollow DEF CallsAreAccepted, OpenJournalRaises
  <2>2. Recovers /\ stageState[Stage] \in Settled
    BY <2>1 DEF OpenJournalRaises, OpeningIsAccepted
  <2>3. stageStatus[Stage] = "running"
    BY <2>1 DEF CallInv, RunnerInv
  <2>4. QED
    BY <2>1, <2>2, <2>3 DEF ResumableInv
<1>2. ~BeginRecoveryRaises
  BY DEF BeginRecoveryRaises, ResumableInv, RunTypeOK, NothingBeforeLaunch
<1>3. ~FailStageRaises
  BY DEF FailStageRaises, ResumableInv
<1>4. ~FailJobRaises
  BY DEF FailJobRaises, ResumableInv, NothingBeforeLaunch
<1>5. QED
  BY <1>1, <1>2, <1>3, <1>4

\* Into the except block, at a moment that is not between two commits.
LEMMA FailsResumably ==
    ASSUME RunInv, CallInv, ResumableInv, NEW e, Fail(e), ~BetweenCommits,
           pc \in {"stage", "journal", "supervise", "record", "job"},
           pc = "stage" => mode # "retry",
           UNCHANGED <<jobState, stageState, json>>
    PROVE  ResumableInv'
<1> USE RunTypes DEF Stage, json
<1>1. UNCHANGED <<mode, at>> /\ pc' \in {"fail_stage", "fail_job"}
  BY DEF Fail
<1>2. \A s \in Stages : stageStatus[s] # "complete" => stageState[s] \notin Settled
  BY DEF BetweenCommits, ResumableInv
<1>3. mode = "retry" => pc \in {"journal", "supervise", "record"}
  BY DEF BetweenCommits
<1>4. jobState \notin {"none", "complete"} \/ runStatus = "complete"
  BY DEF BetweenCommits, ResumableInv
<1>5. QED
  BY <1>1, <1>2, <1>3, <1>4 DEF ResumableInv, CallInv, RunnerInv, BetweenCommits

LEMMA ResumableStep ==
    ASSUME RunInv, CallInv, ResumableInv, [RunNext /\ (Untimely => Proceeding)]_runVars
    PROVE  ResumableInv'
<1> USE RunTypes DEF RunInv, Stage, json, Settled
<1>1. CASE UNCHANGED runVars
  BY <1>1 DEF ResumableInv, runVars, parent, vars, jobVars, stageVars
<1>2. CASE Proceeding
  <2>1. CASE Preflight \/ BeginRecovery \/ SkipStage
    <3>1. /\ UNCHANGED <<jobState, stageState, stageStatus, mode>>
          /\ pc \in {"preflight", "begin", "stage"} /\ pc' \in {"stage", "job"}
          /\ mode = "retry" => at' = at /\ pc = "begin"
          /\ runStatus' = runStatus \/ pc = "begin"
          /\ pc' = "job" => mode = "resume"
      BY <2>1 DEF CallInv, AwaitInv, Preflight, BeginRecovery, SkipStage, Advance, vars,
         jobVars, stageVars
    <3>2. pc = "begin" => jobState \notin {"none", "complete"}
      BY DEF CallInv, AwaitInv, RetryInv, JobAwaitsStage
    <3>3. jobState = "none" => pc' = "stage"
      BY <3>1 DEF CallInv, AwaitInv
    <3>4. QED
      BY <3>1, <3>2, <3>3 DEF ResumableInv
  <2>2. CASE OpenStage
    <3>1. /\ stageStatus' = [stageStatus EXCEPT ![Stage] = "running"]
          /\ UNCHANGED <<jobState, stageState, runStatus, mode, at>>
          /\ pc = "stage" /\ pc' = "journal"
      BY <2>2 DEF OpenStage, vars, jobVars, stageVars
    <3>2. stageState[Stage] \notin Settled
      BY <2>2, <3>1 DEF OpenStage, ResumableInv, CallInv, AwaitInv
    <3>3. QED
      BY <3>1, <3>2 DEF ResumableInv
  <2>3. CASE OpenJournal
    <3>1. /\ jobState' = "running" /\ stageState' = [stageState EXCEPT ![Stage] = "running"]
          /\ UNCHANGED <<json, mode, at>> /\ pc = "journal" /\ pc' = "supervise"
      BY <2>3, Opened DEF OpenJournal
    <3>2. \A s \in Stages : stageState'[s] \in {"running", stageState[s]}
      BY <3>1
    <3>3. QED
      BY <3>1, <3>2 DEF ResumableInv
  <2>4. CASE RunnerSucceeds
    BY <2>4 DEF ResumableInv, RunnerSucceeds, RunnerExit, jobVars, stageVars
  <2>5. CASE RecordStage
    <3>1. /\ stageStatus' = [stageStatus EXCEPT ![Stage] = "complete"]
          /\ UNCHANGED <<jobState, stageState, runStatus, mode>>
          /\ pc = "record" /\ mode # "retry" /\ pc' \in {"job", "stage"}
      BY <2>5 DEF RecordStage, Advance, vars, jobVars, stageVars
    <3>2. \A s \in Stages : stageStatus'[s] # "complete" => stageState[s] \notin Settled
      BY <3>1 DEF ResumableInv
    <3>3. QED
      BY <3>1, <3>2 DEF ResumableInv, WorkIsOnAnOpenJob
  <2>6. CASE RecordRetry
    <3>1. /\ stageStatus' = [stageStatus EXCEPT ![Stage] = RetryStatus]
          /\ UNCHANGED <<jobState, stageState, runStatus, mode>>
          /\ pc = "record" /\ pc' = "job"
      BY <2>6 DEF RecordRetry, vars, jobVars, stageVars
    <3>2. \A s \in Stages : stageStatus'[s] # "complete" => stageState[s] \notin Settled
      BY <3>1 DEF ResumableInv, RetryStatus
    <3>3. QED
      BY <3>1, <3>2 DEF ResumableInv, WorkIsOnAnOpenJob
  <2>7. CASE EndJob
    BY <2>7 DEF ResumableInv, EndJob, FinishJob, stageVars
  <2>8. CASE EndRun
    BY <2>8 DEF ResumableInv, EndRun, EndingFitsJob, TERMINAL_STATUSES, vars, jobVars,
       stageVars
  <2>9. CASE FailStage
    <3>1. \A s \in Stages : stageStatus'[s] # "complete" => stageStatus[s] # "complete"
      BY <2>9 DEF FailStage, CloseActive
    <3>2. /\ UNCHANGED <<jobState, stageState, runStatus, mode, at>>
          /\ pc = "fail_stage" /\ pc' = "fail_job"
      BY <2>9 DEF FailStage, vars, jobVars, stageVars
    <3>3. QED
      BY <3>1, <3>2 DEF ResumableInv
  <2>10. CASE FailJob
    <3>1. /\ UNCHANGED <<stageState, json, mode, at>>
          /\ pc = "fail_job" /\ pc' = "fail_result"
          /\ \/ jobState' = ending /\ ending \notin {"none", "complete", "skipped"}
             \/ jobState' = jobState
      BY <2>10 DEF FailJob, FinishJob, EndingFitsJob, TERMINAL_STATUSES, vars, jobVars,
         stageVars
    <3>2. QED
      BY <3>1 DEF ResumableInv, NothingBeforeLaunch
  <2>11. CASE FailResult \/ SignalResult
    <3>1. \A s \in Stages : stageStatus'[s] # "complete" => stageStatus[s] # "complete"
      BY <2>11 DEF FailResult, SignalResult, CloseActive
    <3>2. /\ UNCHANGED <<jobState, stageState, mode, at>>
          /\ pc \in {"fail_result", "sig_result"} /\ pc' \in {"idle", "sig_exit"}
          /\ runStatus' \in TERMINAL_STATUSES
      BY <2>11 DEF FailResult, SignalResult, TERMINAL_STATUSES, vars, jobVars, stageVars
    <3>3. jobState \notin {"none", "complete"}
      BY <3>2 DEF ResumableInv, NothingBeforeLaunch, EndedRunIsLeftAlone, TERMINAL_STATUSES
    <3>4. QED
      BY <3>1, <3>2, <3>3 DEF ResumableInv, TERMINAL_STATUSES
  <2>12. CASE SignalJob
    <3>1. /\ UNCHANGED <<stageState, json, mode, at>>
          /\ pc = "sig_job" /\ pc' = "sig_result"
          /\ jobState' = "interrupted" \/ jobState' = jobState
      BY <2>12 DEF SignalJob, FinishJob, vars, jobVars, stageVars
    <3>2. QED
      BY <3>1 DEF ResumableInv
  <2>13. CASE SignalExit
    BY <2>13 DEF ResumableInv, SignalExit, NoMoreRunner, RunnerExit, vars, jobVars, stageVars
  <2>14. QED
    BY <1>2, <2>1, <2>2, <2>3, <2>4, <2>5, <2>6, <2>7, <2>8, <2>9, <2>10, <2>11, <2>12,
       <2>13, NothingRaises
    DEF Proceeding
<1>3. CASE Starting /\ ~Untimely
  <2>1. ASSUME NEW m \in {"run", "fork"}, Launch(m) PROVE ResumableInv'
    BY <2>1 DEF ResumableInv, Launch, NothingBeforeLaunch, vars, jobVars, stageVars
  <2>2. CASE Resume
    <3>1. /\ UNCHANGED <<json, stageState>> /\ jobState' = "running"
          /\ pc = "idle" /\ pc' = "begin" /\ mode' = "resume" /\ runStatus # "none"
      BY <2>2 DEF Resume, ResumeJob, MayRecover, CanResume, vars, jobVars, stageVars
    <3>2. QED
      BY <3>1 DEF ResumableInv
  <2>3. ASSUME NEW i \in DOMAIN Order, NEW sel \in SUBSET Cases, Retry(i, sel)
        PROVE  ResumableInv'
    <3>1. /\ UNCHANGED <<json, jobState, stageState>> /\ at' = i
          /\ pc = "idle" /\ pc' = "begin" /\ runStatus \notin {"none", "complete"}
      BY <2>3 DEF Retry, MayRecover, CanResume, vars, jobVars, stageVars
    <3>2. stageState[Order[i]] \notin Settled
      BY <1>3, <2>3 DEF Untimely, RetriesSettledStage
    <3>3. QED
      BY <3>1, <3>2 DEF ResumableInv
  <2>4. QED
    BY <1>3, <2>1, <2>2, <2>3 DEF Starting
<1>4. CASE RunnerWorks /\ ~Untimely
  <2>1. /\ UNCHANGED <<jobState, json, mode, pc, at>> /\ runner = Stage
        /\ \A s \in Stages : s # Stage => stageState'[s] = stageState[s]
        /\ pc \in {"supervise", "sig_job", "sig_result", "sig_exit"}
        /\ \/ stageState' = stageState
           \/ /\ stageState'[Stage] \in {"complete", "failed"}
              /\ FinishStage(Stage)
    BY <1>4, WorkIsOnItsStage
    DEF CallInv, RunnerInv, RunnerWorks, parent, jobVars, FinishState
  <2>2. stageState' = stageState \/ pc = "supervise"
    BY <1>4, <2>1 DEF Untimely, FinishesUnderHandler
  <2>3. QED
    BY <2>1, <2>2 DEF ResumableInv
<1>5. CASE Failing /\ ~Untimely
  <2>1. CASE RunnerFails \/ ParentRaises \/ Interrupt
    <3>1. ~BetweenCommits
      BY <1>5, <2>1 DEF Untimely, FailsBetweenCommits
    <3>2. \E e : Fail(e)
      BY <2>1 DEF RunnerFails, ParentRaises, Interrupt
    <3>3. /\ pc \in {"stage", "journal", "supervise", "record", "job"}
          /\ pc = "stage" => mode # "retry"
      BY <2>1, <3>1 DEF RunnerFails, ParentRaises, Interrupt, BetweenCommits
    <3>4. UNCHANGED <<jobState, stageState, json>>
      BY <2>1 DEF RunnerFails, ParentRaises, Interrupt, NoMoreRunner, RunnerExit, vars,
         jobVars, stageVars
    <3>5. QED
      BY <3>1, <3>2, <3>3, <3>4, FailsResumably
  <2>2. CASE Signal
    <3>1. ~BetweenCommits
      BY <1>5, <2>2 DEF Untimely, FailsBetweenCommits
    <3>2. /\ UNCHANGED <<jobState, stageState, json, mode, at>> /\ pc' = "sig_job"
      BY <2>2 DEF Signal, vars, jobVars, stageVars
    <3>3. QED
      BY <3>1, <3>2 DEF ResumableInv, BetweenCommits
  <2>3. CASE PreflightRaises \/ InterruptEarly \/ Crash
    <3>1. runStatus # "running"
      BY <1>5, <2>3 DEF Untimely, RunIsAbandoned
    <3>2. pc \in {"idle", "begin", "sig_exit"}
      BY <3>1, AtWorkIsRunning
    <3>3. /\ UNCHANGED <<stageState, json, mode, at>> /\ pc' = "idle"
          /\ jobState' \in {jobState, "interrupted"}
      BY <2>3, <3>2 DEF PreflightRaises, InterruptEarly, Crash, NoMoreRunner, RunnerExit,
         CrashAfterCreateJob, CrashInResumeJob, vars, jobVars, stageVars
    <3>4. QED
      BY <3>1, <3>2, <3>3 DEF ResumableInv
  <2>4. QED
    BY <1>5, <2>1, <2>2, <2>3 DEF Failing
<1>6. QED
  BY <1>1, <1>2, <1>3, <1>4, <1>5 DEF RunNext

\* Every fault may happen but at the moments of Untimely: every run that has
\* stopped short, also after recoveries that stopped short, is one that a
\* resume accepts.
THEOREM StoppedRuns == TimelySpec => []StoppedRunIsResumable
<1>1. TimelySpec => RunSpec
  <2>1. [RunNext /\ (Untimely => Proceeding)]_runVars => [RunNext]_runVars
    OBVIOUS
  <2>2. QED
    BY <2>1, PTL DEF TimelySpec, RunSpec
<1>2. RunInit => ResumableInv
  BY ResumableInit
<1>3. /\ RunInv /\ CallInv /\ ResumableInv
      /\ [RunNext /\ (Untimely => Proceeding)]_runVars
      => ResumableInv'
  BY ResumableStep
<1>4. RunInv /\ ResumableInv => StoppedRunIsResumable
  BY DEF RunInv, RunTypeOK, TypeOK, EntityStates, TERMINAL_STATES, Settled, ResumableInv,
     StoppedRunIsResumable
<1>5. QED
  BY <1>1, <1>2, <1>3, <1>4, RunInvHolds, CallInvHolds, PTL DEF TimelySpec

-----------------------------------------------------------------------------
(* What the journal promises holds of every run.                           *)

\* In every run the numbers handed to a runner are accepted by the journal.
COROLLARY RunsGetAcceptedNumbers == RunSpec => []OfferedAttemptIsAccepted
BY RunsUseTheJournal, OffersAreAccepted, PTL DEF RunUsesJournal

\* In every run a complete measured case rests on a complete, measured attempt.
COROLLARY RunsMeasureWhatTheyComplete == RunSpec => []CompleteCaseIsMeasured
BY RunsUseTheJournal, CompletionIsMeasured, PTL DEF RunUsesJournal

-----------------------------------------------------------------------------
(* The passes that a command line is turned into.  First what a plan       *)
(* consists of.                                                            *)

\* A field of a request is what the parser makes of it.
LEMMA RequestFields ==
    ASSUME NEW r \in Requests
    PROVE  /\ r.engines \in SUBSET Engines \ {{}} /\ r.engines \subseteq Engines
           /\ r.tests \subseteq Tests /\ r.mtp \in {"off", "on", "both"}
           /\ r.tier \subseteq Catalog /\ r.picks \subseteq Models
           /\ r.picky \in BOOLEAN /\ r.embPicky \in BOOLEAN
BY DEF Requests

LEMMA PassFields ==
    ASSUME NEW r \in Requests, NEW p \in Passes(r)
    PROVE  /\ p = [engine |-> p.engine, mtp |-> p.mtp]
           /\ p.engine \in r.engines /\ p.engine \in Engines
           /\ p.mtp \in BOOLEAN /\ p.mtp \in ModeStates(r.mtp)
           /\ PassTests(r, p) # {}
<1>1. ModeStates(r.mtp) \subseteq BOOLEAN
  BY DEF ModeStates
<1>2. QED
  BY <1>1, RequestFields DEF Passes

\* What is compatible with every engine: all but the tests of native tools.
LEMMA OnlyNativeIsIncompatible ==
    ASSUME PlanAssumption, NEW r \in Requests, NEW e \in Engines,
           NEW t \in r.tests, t \notin LLMTests \/ t \in ServerTests
    PROVE  t \in Compatible(r, e)
<1>1. ASSUME NEW f \in Families \ {Family[e]}, t \in NativeTests[f] PROVE FALSE
  BY <1>1 DEF PlanAssumption
<1>2. t \notin Incompatible(e)
  BY <1>1 DEF Incompatible
<1>3. QED
  BY <1>2 DEF Compatible

\* Concurrency tests leave a scope for one reason only.
LEMMA ConcurrencyInScope ==
    ASSUME PlanAssumption, NEW r \in Requests, NEW e \in r.engines,
           NEW t \in r.tests \cap ConcurrencyTests
    PROVE  t \in ScopeTests(r, e) <=> ConcurrencyModels(r, e) # {}
<1>1. /\ t \notin LLMTests /\ t # Emb /\ t # Img /\ e \in Engines
  BY RequestFields DEF PlanAssumption
<1>2. t \in Compatible(r, e)
  BY <1>1, OnlyNativeIsIncompatible
<1>3. QED
  BY <1>1, <1>2 DEF ScopeTests

\* And so do the LLM tests that need a server.
LEMMA ServerTestInScope ==
    ASSUME PlanAssumption, NEW r \in Requests, NEW e \in r.engines,
           NEW t \in r.tests \cap LLMTests \cap ServerTests
    PROVE  t \in ScopeTests(r, e) <=> LLMModels(r, e) # {}
<1>1. /\ t \notin ConcurrencyTests /\ t # Emb /\ t # Img /\ e \in Engines
  BY RequestFields DEF PlanAssumption
<1>2. t \in Compatible(r, e)
  BY <1>1, OnlyNativeIsIncompatible
<1>3. QED
  BY <1>1, <1>2 DEF ScopeTests

\* Which of the four lists a test is given
LEMMA SelectedModels ==
    ASSUME PlanAssumption, NEW r, NEW p, NEW t
    PROVE  /\ t \in LLMTests => Selected(r, p, t) = PassLLM(r, p)
           /\ t \in ConcurrencyTests => Selected(r, p, t) = PassConc(r, p)
           /\ t = Emb => Selected(r, p, t) = EmbeddingModels(r, p.engine)
           /\ t = Img => Selected(r, p, t) = CatalogImages(r)
<1>1. ASSUME t \in LLMTests PROVE t \notin ConcurrencyTests /\ t # Emb /\ t # Img
  BY <1>1 DEF PlanAssumption
<1>2. ASSUME t \in ConcurrencyTests PROVE t \notin LLMTests /\ t # Emb /\ t # Img
  BY <1>2 DEF PlanAssumption
<1>3. {Emb, Img} \cap (LLMTests \cup ConcurrencyTests) = {} /\ Emb # Img
  BY DEF PlanAssumption
<1>4. QED
  BY <1>1, <1>2, <1>3 DEF Selected

LEMMA ConcurrencyModelsAreWanted ==
    ASSUME NEW r, NEW e, ConcurrencyModels(r, e) # {} PROVE Concurrency(r)
BY DEF ConcurrencyModels

\* An engine with a capable model has an MTP pass, if LLM tests that can be
\* run with MTP are selected.
LEMMA CapableEngineHasMtpPass ==
    ASSUME PlanAssumption, NEW r \in Requests, NEW e \in r.engines, HasCapable(r, e),
           r.mtp # "off", r.tests \cap LLMTests \cap ServerTests # {}
    PROVE  [engine |-> e, mtp |-> TRUE] \in Passes(r)
<1> DEFINE p == [engine |-> e, mtp |-> TRUE]
<1>1. /\ p.engine = e /\ p.mtp = TRUE /\ TRUE \in ModeStates(r.mtp)
  BY RequestFields DEF ModeStates
<1>2. /\ PassLLM(r, p) = Capable(e, LLMModels(r, e))
      /\ PassConc(r, p) = Capable(e, ConcurrencyModels(r, e))
  BY <1>1 DEF PassLLM, PassConc
<1>3. CASE PassLLM(r, p) # {}
  <2>1. PICK t \in r.tests \cap LLMTests \cap ServerTests : TRUE
    OBVIOUS
  <2>2. t \in ScopeTests(r, e) /\ t \notin ConcurrencyTests
    BY <1>2, <1>3, ServerTestInScope DEF Capable, PlanAssumption
  <2>3. t \in PassTests(r, p)
    BY <1>1, <1>3, <2>1, <2>2 DEF PassTests
  <2>4. QED
    BY <1>1, <2>3 DEF Passes
<1>4. CASE PassLLM(r, p) = {}
  <2>1. PassConc(r, p) # {}
    BY <1>2, <1>4 DEF HasCapable, Capable
  <2>2. ConcurrencyModels(r, e) # {}
    BY <1>2, <2>1 DEF Capable
  <2>3. PICK t \in r.tests \cap ConcurrencyTests : TRUE
    BY <2>2, ConcurrencyModelsAreWanted DEF Concurrency
  <2>4. t \in ScopeTests(r, e) /\ t \in ServerTests
    BY <2>2, ConcurrencyInScope DEF PlanAssumption
  <2>5. t \in PassTests(r, p)
    BY <1>1, <2>1, <2>3, <2>4 DEF PassTests
  <2>6. QED
    BY <1>1, <2>5 DEF Passes
<1>5. QED
  BY <1>3, <1>4

-----------------------------------------------------------------------------
(* What is run.                                                            *)

\* Images are generated once: whatever the engines and the modes, an accepted
\* selection of images is in exactly one pass, the first engine's baseline.
THEOREM ImagesRunOnce ==
    ASSUME PlanAssumption, NEW r \in Requests, Accepted(r), Img \in r.tests
    PROVE  /\ \E p \in Passes(r) : Img \in PassTests(r, p)
           /\ \A p, q \in Passes(r) :
                 Img \in PassTests(r, p) /\ Img \in PassTests(r, q) => p = q
<1> DEFINE b == [engine |-> First[r.engines], mtp |-> FALSE]
<1>1. Img \notin ServerTests /\ Img \notin LLMTests /\ Img \notin ConcurrencyTests /\ Img # Emb
  BY DEF PlanAssumption
<1>2. /\ First[r.engines] \in r.engines /\ First[r.engines] \in Engines
  BY RequestFields DEF PlanAssumption
<1>3. r.mtp # "on"
  BY <1>1 DEF Accepted, MtpError
<1>4. FALSE \in ModeStates(r.mtp)
  BY <1>3, RequestFields DEF ModeStates
<1>5. Img \in ScopeTests(r, b.engine)
  BY <1>1, <1>2, OnlyNativeIsIncompatible DEF ScopeTests
<1>6. Img \in PassTests(r, b)
  BY <1>5 DEF PassTests
<1>7. b \in Passes(r)
  BY <1>2, <1>4, <1>6 DEF Passes
<1>8. ASSUME NEW p \in Passes(r), Img \in PassTests(r, p) PROVE p = b
  <2>1. ~p.mtp /\ p.engine = First[r.engines]
    BY <1>1, <1>8 DEF PassTests, ScopeTests
  <2>2. p.mtp = FALSE /\ p = [engine |-> p.engine, mtp |-> p.mtp]
    BY <2>1, PassFields
  <2>3. QED
    BY <2>1, <2>2
<1>9. QED
  BY <1>6, <1>7, <1>8

\* A test whose scope has no models is in no pass: each of a pass's tests but
\* the images has at least one model before the preflight, also after an MTP
\* pass left out the models without a predictor.
THEOREM NoTestWithoutModels ==
    ASSUME PlanAssumption, NEW r \in Requests, NEW p \in Passes(r),
           NEW t \in PassTests(r, p), t # Img
    PROVE  Selected(r, p, t) # {}
<1>1. t \in ScopeTests(r, p.engine)
  BY DEF PassTests
<1>2. t \in LLMTests \cup ConcurrencyTests \cup {Emb}
  BY <1>1, RequestFields DEF ScopeTests, Compatible, Tests
<1>3. p.mtp \in BOOLEAN
  BY PassFields
<1>4. CASE t \in LLMTests
  <2>1. Selected(r, p, t) = PassLLM(r, p)
    BY <1>4, SelectedModels
  <2>2. t \notin ConcurrencyTests
    BY <1>4 DEF PlanAssumption
  <2>3. CASE p.mtp
    BY <2>1, <2>2, <2>3 DEF PassTests
  <2>4. CASE ~p.mtp
    <3>1. LLMModels(r, p.engine) # {}
      BY <1>1, <1>4 DEF ScopeTests
    <3>2. QED
      BY <2>1, <2>4, <3>1 DEF PassLLM
  <2>5. QED
    BY <1>3, <2>3, <2>4
<1>5. CASE t \in ConcurrencyTests
  <2>1. Selected(r, p, t) = PassConc(r, p)
    BY <1>5, SelectedModels
  <2>2. CASE p.mtp
    BY <1>5, <2>1, <2>2 DEF PassTests
  <2>3. CASE ~p.mtp
    <3>1. ConcurrencyModels(r, p.engine) # {}
      BY <1>1, <1>5 DEF ScopeTests
    <3>2. QED
      BY <2>1, <2>3, <3>1 DEF PassConc
  <2>4. QED
    BY <1>3, <2>2, <2>3
<1>6. CASE t = Emb
  BY <1>1, <1>6, SelectedModels DEF ScopeTests
<1>7. QED
  BY <1>2, <1>4, <1>5, <1>6

\* With both modes every MTP pass has a baseline to be compared with: a pass of
\* the same engine with the same tests, and more, of the same models, and more.
THEOREM MtpPassHasItsBaseline ==
    ASSUME PlanAssumption, NEW r \in Requests, r.mtp = "both",
           NEW p \in Passes(r), p.mtp
    PROVE  \E b \in Passes(r) :
              /\ b.engine = p.engine /\ ~b.mtp
              /\ PassTests(r, p) \subseteq PassTests(r, b)
              /\ \A t \in PassTests(r, p) : Selected(r, p, t) \subseteq Selected(r, b, t)
<1> DEFINE b == [engine |-> p.engine, mtp |-> FALSE]
<1>1. PassTests(r, p) \subseteq PassTests(r, b)
  BY DEF PassTests
<1>2. b \in Passes(r)
  BY <1>1, PassFields DEF Passes, ModeStates
<1>3. PassLLM(r, p) \subseteq PassLLM(r, b) /\ PassConc(r, p) \subseteq PassConc(r, b)
  BY DEF PassLLM, PassConc, Capable
<1>4. ASSUME NEW t \in PassTests(r, p) PROVE Selected(r, p, t) \subseteq Selected(r, b, t)
  <2>1. t \in LLMTests \cup ConcurrencyTests \cup {Emb, Img}
    BY <1>4, RequestFields DEF PassTests, ScopeTests, Compatible, Tests
  <2>2. b.engine = p.engine
    OBVIOUS
  <2>3. QED
    <3>1. CASE t \in LLMTests
      BY <1>3, <3>1, SelectedModels
    <3>2. CASE t \in ConcurrencyTests
      BY <1>3, <3>2, SelectedModels
    <3>3. CASE t = Emb
      BY <2>2, <3>3, SelectedModels
    <3>4. CASE t = Img
      BY <3>4, SelectedModels
    <3>5. QED
      BY <2>1, <3>1, <3>2, <3>3, <3>4
<1>5. QED
  BY <1>1, <1>2, <1>4

\* "on" promises MTP for every engine: an accepted selection with a test outside
\* the concurrency tests drops none of them.  (With concurrency tests alone an
\* engine whose capable model is selected but not downloaded is dropped.)
THEOREM OnDropsNoEngine ==
    ASSUME PlanAssumption, NEW r \in Requests, Accepted(r), r.mtp = "on",
           Normal(r), NEW e \in r.engines
    PROVE  [engine |-> e, mtp |-> TRUE] \in Passes(r)
<1>1. HasCapable(r, e) /\ r.tests \subseteq ServerTests
  BY DEF Accepted, MtpError
<1>2. r.tests \cap LLMTests \cap ServerTests # {}
  BY <1>1 DEF Normal
<1>3. QED
  BY <1>1, <1>2, CapableEngineHasMtpPass

\* "both" never amounts to a baseline alone, under the same condition.
THEOREM BothMeasuresMtp ==
    ASSUME PlanAssumption, NEW r \in Requests, Accepted(r), r.mtp = "both",
           r.tests \cap LLMTests \cap ServerTests # {}
    PROVE  \E p \in Passes(r) : p.mtp
<1>1. PICK e \in r.engines : HasCapable(r, e)
  BY DEF Accepted, MtpError
<1>2. [engine |-> e, mtp |-> TRUE] \in Passes(r)
  BY <1>1, CapableEngineHasMtpPass
<1>3. QED
  BY <1>2

\* Patterns for a single engine either are refused or leave every selected text
\* test that the engine can run with a model.
THEOREM PicksLeaveNoTestOut ==
    ASSUME PlanAssumption, NEW r \in Requests, Accepted(r), r.picky, ~Several(r),
           NEW e \in r.engines,
           NEW t \in Compatible(r, e) \cap (LLMTests \cup ConcurrencyTests)
    PROVE  t \in ScopeTests(r, e)
<1>1. ~OneEngineError(r, e)
  BY DEF Accepted, ScopeError
<1>2. t # Emb /\ t # Img
  BY DEF PlanAssumption
<1>3. t \in LLMTests => LLMModels(r, e) # {}
  BY <1>1 DEF OneEngineError
<1>4. t \in ConcurrencyTests => ConcurrencyModels(r, e) # {}
  BY <1>1 DEF OneEngineError
<1>5. QED
  BY <1>2, <1>3, <1>4 DEF ScopeTests

\* No pass writes over the result file of another.
THEOREM ResultsAreSeparate ==
    ASSUME NEW r \in Requests, NEW p \in Passes(r), NEW q \in Passes(r),
           OutSuffix(r, p) = OutSuffix(r, q)
    PROVE  p = q
<1>1. p.engine = q.engine
  <2>1. CASE Several(r)
    BY <2>1 DEF OutSuffix
  <2>2. CASE ~Several(r)
    BY <2>2, PassFields DEF Several
  <2>3. QED
    BY <2>1, <2>2
<1>2. p.mtp = q.mtp
  <2>1. CASE r.mtp # "off"
    BY <2>1 DEF OutSuffix
  <2>2. CASE r.mtp = "off"
    BY <2>2, PassFields DEF ModeStates
  <2>3. QED
    BY <2>1, <2>2
<1>3. QED
  BY <1>1, <1>2, PassFields

\* Profiles are built from the scopes, before the passes: each pass finds one.
THEOREM PassIsProfiled ==
    ASSUME NEW r \in Requests, NEW p \in Passes(r)
    PROVE  p.engine \in Profiled(r)
BY PassFields DEF Profiled, PassTests

-----------------------------------------------------------------------------
(* What the preflight leaves.                                              *)

\* If a pass has concurrency tests, what is downloaded of its LLM models is also
\* among its concurrency models: the tier caps only the former.
LEMMA DownloadedIsConcurrency ==
    ASSUME PlanAssumption, NEW r \in Requests, NEW p \in Passes(r), Concurrency(r)
    PROVE  PassLLM(r, p) \cap Installed[p.engine] \subseteq PassConc(r, p)
<1> DEFINE e == p.engine
<1>1. Inventory(r, e) = Installed[e]
  BY DEF Inventory, InventoryNeeded
<1>2. LLMModels(r, e) \cap Installed[e] \subseteq ConcurrencyModels(r, e)
  BY <1>1, RequestFields DEF LLMModels, ConcurrencyModels, Matched
<1>3. QED
  BY <1>2 DEF PassLLM, PassConc, Capable

\* A pass with text tests that needs an engine is not reported complete with
\* nothing measured because the probe of its models failed: if some model was
\* whole and the pass was not refused, some text test of it is given a model.
\* (If none was whole, nothing is probed and the pass goes on without models.)
THEOREM EmptyPassIsRefused ==
    ASSUME PlanAssumption, NEW r \in Requests, NEW p \in Passes(r), NEW whole, NEW sound,
           PassTests(r, p) \cap (LLMTests \cup ConcurrencyTests) # {},
           Probes(r, p, whole), ~Refused(r, p, whole, sound)
    PROVE  \E t \in PassTests(r, p) \cap (LLMTests \cup ConcurrencyTests) :
              Given(r, p, t, whole, sound) # {}
<1>1. PICK m : m \in Runnable(r, p, whole, sound)
  BY DEF Refused
<1>2. m \in PassLLM(r, p) \cup PassConc(r, p) /\ m \in Installed[p.engine]
  BY <1>1 DEF Runnable, Static, PreflightModels
<1>3. CASE PassTests(r, p) \cap ConcurrencyTests # {}
  <2>1. PICK t \in PassTests(r, p) \cap ConcurrencyTests : TRUE
    BY <1>3
  <2>2. Concurrency(r)
    BY <2>1 DEF Concurrency, PassTests, ScopeTests, Compatible
  <2>3. m \in PassConc(r, p)
    BY <1>2, <2>2, DownloadedIsConcurrency
  <2>4. m \in Given(r, p, t, whole, sound)
    BY <1>1, <2>1, <2>3, SelectedModels DEF Given
  <2>5. QED
    BY <2>1, <2>4
<1>4. CASE PassTests(r, p) \cap ConcurrencyTests = {}
  <2>1. PICK t \in PassTests(r, p) \cap LLMTests : TRUE
    BY <1>4
  <2>2. PassConc(r, p) = {}
    <3>1. SUFFICES ASSUME PassConc(r, p) # {} PROVE FALSE
      OBVIOUS
    <3>2. ConcurrencyModels(r, p.engine) # {}
      BY <3>1 DEF PassConc, Capable
    <3>3. PICK u \in r.tests \cap ConcurrencyTests : TRUE
      BY <3>2, ConcurrencyModelsAreWanted DEF Concurrency
    <3>4. u \in ScopeTests(r, p.engine) /\ u \in ServerTests
      BY <3>2, PassFields, ConcurrencyInScope DEF PlanAssumption
    <3>5. u \in PassTests(r, p)
      BY <3>1, <3>3, <3>4 DEF PassTests
    <3>6. QED
      BY <1>4, <3>3, <3>5
  <2>3. m \in Given(r, p, t, whole, sound)
    BY <1>1, <1>2, <2>1, <2>2, SelectedModels DEF Given
  <2>4. QED
    BY <2>1, <2>3
<1>5. QED
  BY <1>3, <1>4


-----------------------------------------------------------------------------
(* The window.  poll_output empties its queue in one go, and Drained is a   *)
(* function on the positions of the queue: what holds of it is shown at the *)
(* least position at which it would not.                                    *)

LEMMA LeastPosition ==
    ASSUME NEW S \in SUBSET Nat, S # {}
    PROVE  \E e \in S : \A f \in S : e <= f
<1>1. PICK e \in S : \A f \in S : ~(<<f, e>> \in OpToRel(<, Nat))
  BY NatLessThanWellFounded, WFMin
<1>2. \A f \in S : ~(f < e)
  BY <1>1 DEF OpToRel
<1> QED
  BY <1>2

DrainStart == [win |-> win, saved |-> saved, control |-> control, heard |-> FALSE]

\* f is what poll_output has made of its variables after each item up to the m-th.
DrainsTo(f, m) == f = [n \in 0 .. m |-> IF n = 0 THEN DrainStart
                                        ELSE HandleItem(f[n - 1], queue[n])]

LEMMA DrainExtends ==
    ASSUME NEW m \in Nat, NEW g, DrainsTo(g, m)
    PROVE  \E f : DrainsTo(f, m + 1)
<1> DEFINE f == [n \in 0 .. m + 1 |-> IF n = 0 THEN DrainStart
                                      ELSE HandleItem(g[n - 1], queue[n])]
<1>1. \A n \in 0 .. m : g[n] = IF n = 0 THEN DrainStart ELSE HandleItem(g[n - 1], queue[n])
  BY Zenon DEF DrainsTo
<1>2. \A n \in 0 .. m : n \in 0 .. m + 1
  OBVIOUS
<1>3. \A n \in 0 .. m : f[n] = g[n]
  BY <1>1, <1>2, Zenon
<1>4. \A n \in 0 .. m + 1 : n # 0 => n - 1 \in 0 .. m
  OBVIOUS
<1>5. \A n \in 0 .. m + 1 : n # 0 => HandleItem(g[n - 1], queue[n]) = HandleItem(f[n - 1], queue[n])
  BY <1>3, <1>4, Zenon
<1>6. f = [n \in 0 .. m + 1 |-> IF n = 0 THEN DrainStart ELSE HandleItem(f[n - 1], queue[n])]
  BY <1>5, Zenon
<1> QED
  BY <1>6 DEF DrainsTo

LEMMA DrainExists ==
    ASSUME NEW m \in Nat
    PROVE  \E f : DrainsTo(f, m)
<1> DEFINE Missing == {n \in Nat : ~\E f : DrainsTo(f, n)}
<1>1. SUFFICES ASSUME Missing # {}
               PROVE  FALSE
  OBVIOUS
<1>2. PICK e \in Missing : \A n \in Missing : e <= n
  BY <1>1, LeastPosition, Missing \subseteq Nat, Zenon
<1>3. e \in Nat /\ ~\E f : DrainsTo(f, e)
  BY <1>2
<1>4. CASE e = 0
  <2> DEFINE f == [n \in 0 .. 0 |-> DrainStart]
  <2>1. \A n \in 0 .. 0 : n = 0
    OBVIOUS
  <2>2. DrainsTo(f, 0)
    BY <2>1, Zenon DEF DrainsTo
  <2> QED
    BY <1>3, <1>4, <2>2
<1>5. CASE e # 0
  <2>1. e - 1 \in Nat /\ ~(e <= e - 1) /\ (e - 1) + 1 = e
    BY <1>3, <1>5
  <2>2. e - 1 \notin Missing
    BY <1>2, <2>1
  <2>3. \E f : DrainsTo(f, e - 1)
    BY <2>1, <2>2
  <2>4. \E f : DrainsTo(f, (e - 1) + 1)
    BY <2>1, <2>3, DrainExtends
  <2> QED
    BY <1>3, <2>1, <2>4
<1> QED
  BY <1>4, <1>5

\* Drained is where the drain of the whole queue ends.
LEMMA DrainedIsTheLast ==
    ASSUME WindowTypeOK
    PROVE  \E f : DrainsTo(f, Len(queue)) /\ Drained = f[Len(queue)]
<1>1. Len(queue) \in Nat
  BY DEF WindowTypeOK
<1>2. \E f : DrainsTo(f, Len(queue))
  BY <1>1, DrainExists
<1> DEFINE drain == CHOOSE f : DrainsTo(f, Len(queue))
<1>3. DrainsTo(drain, Len(queue))
  BY <1>2, Zenon
<1>4. Drained = drain[Len(queue)]
  BY Zenon DEF Drained, DrainsTo, DrainStart
<1> QED
  BY <1>3, <1>4

-----------------------------------------------------------------------------
(* What the window may have become when it has handled some of its queue.  *)

Drains == [win : Windows, saved : Saves, control : SUBSET Runs, heard : BOOLEAN]

DrainFits(s) ==
    /\ s \in Drains
    /\ s.win.run \in {win.run, NoRun}
    /\ s.win.run = NoRun /\ win.run # NoRun => Exited(win.run)
    /\ Fits(s.win)
    /\ LogsAreOwn(s.saved)

\* The log of a run that ended well is saved beside its own result.
LEMMA LogsWritten ==
    ASSUME WindowInv, NEW s, DrainFits(s), s.win.run \in Runs,
           child[s.win.run].code = "ok"
    PROVE  WriteRunLogs(s) \in Saves /\ LogsAreOwn(WriteRunLogs(s))
<1> DEFINE p == s.win.run
           new == [r \in Results |-> IF r \in s.win.paths THEN [s.saved[r] EXCEPT !.log = s.win.shown]
                                     ELSE s.saved[r]]
<1>1. s.win \in Windows /\ s.saved \in Saves
  BY DEF DrainFits, Drains
<1>2. p # NoRun /\ s.win.shown \subseteq {p} /\ s.win.paths \subseteq {child[p].result}
  BY WindowAssumption DEF DrainFits, Fits
<1>3. WriteRunLogs(s) = new
  BY DEF WriteRunLogs
<1>4. \A r \in Results : s.saved[r] \in [json : BOOLEAN, log : SUBSET Runs]
  BY <1>1 DEF Saves
<1>5. s.win.shown \in SUBSET Runs
  BY <1>1 DEF Windows
<1>6. \A r \in Results :
         /\ [s.saved[r] EXCEPT !.log = s.win.shown] \in [json : BOOLEAN, log : SUBSET Runs]
         /\ [s.saved[r] EXCEPT !.log = s.win.shown].log = s.win.shown
  BY <1>4, <1>5
<1>7. new \in Saves
  BY <1>4, <1>6 DEF Saves
<1>8. ASSUME NEW r \in Results, new[r].log # {}
      PROVE  \E q \in Runs : new[r].log = {q} /\ child[q].result = r /\ child[q].code = "ok"
  <2>1. CASE r \in s.win.paths
    <3>1. new[r].log = s.win.shown
      BY <1>6, <2>1
    <3>2. new[r].log = {p} /\ child[p].result = r
      BY <1>2, <1>8, <2>1, <3>1
    <3> QED
      BY <3>2
  <2>2. CASE r \notin s.win.paths
    <3>1. new[r].log = s.saved[r].log
      BY <2>2
    <3> QED
      BY <1>8, <3>1 DEF DrainFits, LogsAreOwn
  <2> QED
    BY <2>1, <2>2
<1> HIDE DEF new
<1> QED
  BY <1>3, <1>7, <1>8 DEF LogsAreOwn

\* A run that has exited is let go of.
LEMMA FinishFits ==
    ASSUME WindowInv, NEW s, DrainFits(s), s.win.run \in Runs, Exited(s.win.run)
    PROVE  DrainFits(FinishActive(s))
<1> DEFINE w == [Idle EXCEPT !.open = s.win.open]
           sv == IF child[s.win.run].code = "ok" THEN WriteRunLogs(s) ELSE s.saved
           end == FinishActive(s)
<1>1. s \in Drains /\ s.win \in Windows /\ s.win.open \in BOOLEAN
  BY DEF DrainFits, Drains, Windows
<1>2. w \in Windows /\ w.run = NoRun /\ w.shown = {} /\ w.paths = {}
  BY <1>1 DEF Idle, Windows
<1>3. sv \in Saves /\ LogsAreOwn(sv)
  BY <1>1, LogsWritten DEF DrainFits, Drains
<1>4. end = [win |-> w, saved |-> sv, control |-> s.control \ {s.win.run}, heard |-> s.heard]
  BY DEF FinishActive
<1> HIDE DEF w, sv, end
<1>5. end.win = w /\ end.saved = sv
  BY <1>4
<1>6. end \in Drains
  BY <1>1, <1>2, <1>3, <1>4 DEF Drains
<1>7. Fits(w)
  BY <1>2 DEF Fits
<1>8. win.run # NoRun => Exited(win.run)
  BY WindowAssumption DEF DrainFits
<1> QED
  BY <1>2, <1>3, <1>5, <1>6, <1>7, <1>8 DEF DrainFits, end

\* A line is shown, and a result noted, of the process that is watched only.
LEMMA HandleFits ==
    ASSUME WindowInv, NEW s, DrainFits(s), NEW item \in Items,
           item.kind = "done" => Exited(item.run)
    PROVE  DrainFits(HandleItem(s, item))
<1>1. CASE item.run # s.win.run
  BY <1>1 DEF HandleItem
<1>2. CASE item.run = s.win.run /\ item.kind = "done"
  <2>1. s.win.run \in Runs /\ Exited(s.win.run)
    BY <1>2 DEF Items
  <2> QED
    BY <1>2, <2>1, FinishFits DEF HandleItem
<1>3. CASE item.run = s.win.run /\ item.kind # "done"
  <2> DEFINE p == item.run
             more == {child[q].result : q \in {p} \cap (IF item.kind = "result" THEN Runs ELSE {})}
             w == [s.win EXCEPT !.shown = @ \cup {p}, !.paths = @ \cup more]
             end == HandleItem(s, item)
  <2>1. p \in Runs /\ p # NoRun /\ p = s.win.run
    BY <1>3, WindowAssumption DEF Items
  <2>2. s \in Drains /\ s.win \in Windows
    BY DEF DrainFits, Drains
  <2>3. /\ child[p].state # "unborn" /\ s.win.shown \subseteq {p}
        /\ s.win.paths \subseteq {child[p].result}
    BY <2>1 DEF DrainFits, Fits
  <2>4. child[p].result \in Results
    BY <2>1, <2>3 DEF WindowInv, WindowTypeOK, ChildrenFit, Children
  <2>5. more \subseteq {child[p].result}
    OBVIOUS
  <2> HIDE DEF more
  <2>6. end = [s EXCEPT !.win.shown = @ \cup {p}, !.heard = TRUE, !.win.paths = @ \cup more]
    BY <1>3 DEF HandleItem, more
  <2>7. /\ w \in Windows /\ w.run = p
        /\ w.shown = s.win.shown \cup {p} /\ w.paths = s.win.paths \cup more
    BY <2>1, <2>2, <2>4, <2>5 DEF Windows
  <2> HIDE DEF end
  <2>8. end \in Drains /\ end.win = w /\ end.saved = s.saved
    BY <2>2, <2>6, <2>7 DEF Drains
  <2> HIDE DEF w
  <2>9. Fits(w)
    BY <2>1, <2>3, <2>5, <2>7 DEF Fits
  <2>10. w.run \in {win.run, NoRun} /\ (w.run = NoRun => FALSE)
    BY <2>1, <2>7 DEF DrainFits
  <2> QED
    BY <2>8, <2>9, <2>10 DEF DrainFits, end
<1> QED
  BY <1>1, <1>2, <1>3

LEMMA DrainedFits ==
    ASSUME WindowInv
    PROVE  DrainFits(Drained)
<1>0. WindowTypeOK /\ Len(queue) \in Nat
  BY DEF WindowInv, WindowTypeOK
<1>1. PICK f : DrainsTo(f, Len(queue)) /\ Drained = f[Len(queue)]
  BY <1>0, DrainedIsTheLast, Zenon
<1>2. \A n \in 0 .. Len(queue) :
         f[n] = IF n = 0 THEN DrainStart ELSE HandleItem(f[n - 1], queue[n])
  BY <1>1, Zenon DEF DrainsTo
<1>3. DrainFits(DrainStart)
  <2>1. DrainStart \in Drains /\ DrainStart.win = win /\ DrainStart.saved = saved
    BY DEF WindowInv, WindowTypeOK, DrainStart, Drains
  <2> QED
    BY <2>1 DEF WindowInv, DrainFits
<1> DEFINE Wrong == {n \in 0 .. Len(queue) : ~DrainFits(f[n])}
<1>4. ASSUME Wrong # {}
      PROVE  FALSE
  <2>1. Wrong \subseteq Nat
    BY <1>0
  <2>2. PICK e \in Wrong : \A n \in Wrong : e <= n
    BY <1>4, <2>1, LeastPosition, Zenon
  <2>3. e \in 0 .. Len(queue) /\ ~DrainFits(f[e])
    BY <2>2
  <2>4. e # 0
    <3>1. SUFFICES ASSUME e = 0
                   PROVE  FALSE
      OBVIOUS
    <3>2. f[e] = DrainStart
      BY <1>2, <2>3, <3>1, Zenon
    <3> QED
      BY <1>3, <2>3, <3>2
  <2>5. e \in 1 .. Len(queue) /\ e - 1 \in 0 .. Len(queue) /\ ~(e <= e - 1)
    BY <1>0, <2>3, <2>4
  <2>6. DrainFits(f[e - 1])
    BY <2>2, <2>5
  <2>7. f[e] = HandleItem(f[e - 1], queue[e])
    BY <1>2, <2>3, <2>4, Zenon
  <2>8. queue[e] \in Items /\ (queue[e].kind = "done" => Exited(queue[e].run))
    BY <2>5 DEF WindowInv, WindowTypeOK, EndIsTrue
  <2>9. DrainFits(HandleItem(f[e - 1], queue[e]))
    BY <2>6, <2>8, HandleFits
  <2> QED
    BY <2>3, <2>7, <2>9
<1>5. Len(queue) \in 0 .. Len(queue)
  BY <1>0
<1> QED
  BY <1>1, <1>4, <1>5

-----------------------------------------------------------------------------
(* The steps.  A launched process keeps its result, an exited one its code. *)

ChildrenGrow ==
    \A p \in Runs :
        /\ child[p].state # "unborn" => /\ child'[p].state # "unborn"
                                        /\ child'[p].result = child[p].result
        /\ Exited(p) => Exited(p)'
        /\ child[p].code = "ok" => child'[p].code = "ok"

LEMMA GrowthKeepsLogs ==
    ASSUME WindowInv, ChildrenGrow, \A r \in Results : saved'[r].log = saved[r].log
    PROVE  LogsAreOwn(saved)'
<1>1. SUFFICES ASSUME NEW r \in Results, saved'[r].log # {}
               PROVE  \E p \in Runs : /\ saved'[r].log = {p}
                                      /\ child'[p].result = r /\ child'[p].code = "ok"
  BY DEF LogsAreOwn
<1>2. PICK p \in Runs : saved[r].log = {p} /\ child[p].result = r /\ child[p].code = "ok"
  BY <1>1 DEF WindowInv, LogsAreOwn
<1>3. child[p].state # "unborn"
  BY <1>2, WindowAssumption DEF WindowInv, ChildrenFit
<1> QED
  BY <1>1, <1>2, <1>3 DEF ChildrenGrow

LEMMA GrowthKeepsWindow ==
    ASSUME WindowInv, ChildrenGrow, win'.run = win.run, win'.shown = win.shown,
           win'.paths = win.paths
    PROVE  Fits(win)'
<1>1. Fits(win) /\ win.run \in Runs \cup {NoRun}
  BY DEF WindowInv, WindowTypeOK, Windows
<1> QED
  BY <1>1 DEF Fits, ChildrenGrow

LEMMA GrowthKeepsQueue ==
    ASSUME WindowInv, ChildrenGrow, UNCHANGED queue
    PROVE  EndIsTrue'
<1>1. \A i \in 1 .. Len(queue) : queue[i] \in Items
  BY DEF WindowInv, WindowTypeOK
<1> QED
  BY <1>1 DEF WindowInv, EndIsTrue, ChildrenGrow, Items

LEMMA TellKeeps ==
    ASSUME WindowInv, NEW p \in Runs, NEW what \in Said, Tell(p, what)
    PROVE  WindowInv'
<1> DEFINE item == [kind |-> what, run |-> p]
           res == child[p].result
<1>1. child[p] \in Children /\ saved \in Saves /\ queue \in Seq(Items) /\ child \in [Runs -> Children]
  BY DEF WindowInv, WindowTypeOK
<1>2. child[p].state # "unborn" /\ (what = "done" => Exited(p))
  BY DEF Tell, Said, Alive, Exited
<1>3. child' = [child EXCEPT ![p].told = @ \cup {what}]
  BY DEF Tell
<1>4. LET c == [child[p] EXCEPT !.told = @ \cup {what}] IN
         /\ c \in Children /\ c.state = child[p].state
         /\ c.result = child[p].result /\ c.code = child[p].code
  BY <1>1 DEF Children
<1>5. child' = [child EXCEPT ![p] = [child[p] EXCEPT !.told = @ \cup {what}]]
  BY <1>1, <1>3
<1>6. /\ child' \in [Runs -> Children]
      /\ \A q \in Runs : /\ child'[q].state = child[q].state
                         /\ child'[q].result = child[q].result
                         /\ child'[q].code = child[q].code
  BY <1>1, <1>4, <1>5
<1>7. ChildrenGrow /\ ChildrenFit'
  BY <1>6 DEF WindowInv, ChildrenGrow, ChildrenFit, Exited
<1>8. saved' \in Saves /\ \A r \in Results : saved'[r].log = saved[r].log
  <2>1. res \in Results
    BY <1>1, <1>2 DEF WindowInv, ChildrenFit, Children
  <2>2. saved' = [saved EXCEPT ![res].json = @ \/ ~Exited(p)]
    BY DEF Tell
  <2>3. PICK b \in BOOLEAN : saved' = [saved EXCEPT ![res].json = b]
    BY <2>2, Zenon
  <2>4. \A r \in Results : saved[r] \in [json : BOOLEAN, log : SUBSET Runs]
    BY <1>1 DEF Saves
  <2> QED
    BY <1>1, <2>1, <2>3, <2>4 DEF Saves
<1>9. queue' = Append(queue, item) /\ item \in Items
  BY DEF Tell, Items
<1>10. queue' \in Seq(Items) /\ EndIsTrue'
  <2>1. queue' \in Seq(Items) /\ Len(queue') = Len(queue) + 1
    BY <1>1, <1>9, AppendProperties
  <2>2. \A i \in 1 .. Len(queue) : queue'[i] = queue[i]
    BY <1>1, <1>9, AppendProperties
  <2>3. queue'[Len(queue) + 1] = item
    BY <1>1, <1>9, AppendProperties
  <2>4. ASSUME NEW i \in 1 .. Len(queue'), queue'[i].kind = "done"
        PROVE  child'[queue'[i].run].state = "exited"
    <3>1. CASE i \in 1 .. Len(queue)
      <4>1. queue[i] \in Items /\ Exited(queue[i].run) /\ queue'[i] = queue[i]
        BY <1>1, <2>2, <2>4, <3>1 DEF WindowInv, EndIsTrue
      <4> QED
        BY <4>1, <1>7 DEF ChildrenGrow, Items, Exited
    <3>2. CASE i = Len(queue) + 1
      <4>1. queue'[i] = item /\ what = "done"
        BY <2>3, <2>4, <3>2
      <4> QED
        BY <1>2, <1>7, <4>1 DEF ChildrenGrow, Exited
    <3> QED
      BY <1>1, <2>1, <3>1, <3>2, LenProperties
  <2> QED
    BY <2>1, <2>4 DEF EndIsTrue, Exited
<1>11. UNCHANGED <<control, win>>
  BY DEF Tell
<1>12. WindowTypeOK'
  BY <1>6, <1>8, <1>10, <1>11 DEF WindowInv, WindowTypeOK
<1>13. Fits(win)' /\ LogsAreOwn(saved)'
  BY <1>7, <1>8, <1>11, GrowthKeepsLogs, GrowthKeepsWindow
<1> QED
  BY <1>7, <1>10, <1>12, <1>13 DEF WindowInv

LEMMA ExitKeeps ==
    ASSUME WindowInv, NEW p \in Runs, NEW code \in {"ok", "failed"}, Exit(p, code)
    PROVE  WindowInv'
<1>1. child[p] \in Children /\ child \in [Runs -> Children]
  BY DEF WindowInv, WindowTypeOK
<1>2. child[p].state = "working"
  BY DEF Exit, Alive
<1>3. child' = [child EXCEPT ![p] = [child[p] EXCEPT !.state = "exited", !.code = code]]
  BY <1>1 DEF Exit
<1>4. LET c == [child[p] EXCEPT !.state = "exited", !.code = code] IN
         /\ c \in Children /\ c.state = "exited"
         /\ c.result = child[p].result /\ c.code = code
  BY <1>1 DEF Children
<1>5. /\ child' \in [Runs -> Children]
      /\ child'[p].state = "exited" /\ child'[p].result = child[p].result
      /\ \A q \in Runs : q # p => child'[q] = child[q]
  BY <1>1, <1>3, <1>4
<1>6. child[p].code = "none"
  BY <1>2 DEF WindowInv, ChildrenFit, Exited
<1>7. ChildrenGrow /\ ChildrenFit'
  BY <1>2, <1>5, <1>6 DEF WindowInv, ChildrenGrow, ChildrenFit, Exited
<1>8. UNCHANGED <<control, queue, win, saved>>
  BY DEF Exit
<1>9. WindowTypeOK'
  BY <1>5, <1>8 DEF WindowInv, WindowTypeOK
<1>10. Fits(win)' /\ LogsAreOwn(saved)' /\ EndIsTrue'
  BY <1>7, <1>8, GrowthKeepsLogs, GrowthKeepsWindow, GrowthKeepsQueue
<1> QED
  BY <1>7, <1>9, <1>10 DEF WindowInv

LEMMA LaunchKeeps ==
    ASSUME WindowInv, NEW p \in Runs, NEW r \in Results, NEW paths \in SUBSET {r},
           LaunchProcess(p, paths, r), UNCHANGED <<queue, saved>>
    PROVE  WindowInv'
<1>1. child[p] \in Children /\ child \in [Runs -> Children]
  BY DEF WindowInv, WindowTypeOK
<1>2. child[p].state = "unborn"
  BY DEF LaunchProcess, StartProcess
<1>3. child' = [child EXCEPT ![p] = [child[p] EXCEPT !.state = "working", !.result = r]]
  BY <1>1 DEF LaunchProcess, StartProcess
<1>4. LET c == [child[p] EXCEPT !.state = "working", !.result = r] IN
         /\ c \in Children /\ c.state = "working"
         /\ c.result = r /\ c.code = child[p].code
  BY <1>1 DEF Children
<1>5. /\ child' \in [Runs -> Children]
      /\ child'[p].state = "working" /\ child'[p].result = r
      /\ child'[p].code = child[p].code
      /\ \A q \in Runs : q # p => child'[q] = child[q]
  BY <1>1, <1>3, <1>4
<1>6. child[p].code = "none"
  BY <1>2 DEF WindowInv, ChildrenFit, Exited
<1>7. r # NoRun /\ p # NoRun
  BY WindowAssumption
<1>8. ChildrenGrow /\ ChildrenFit'
  BY <1>2, <1>5, <1>6, <1>7 DEF WindowInv, ChildrenGrow, ChildrenFit, Exited
<1>9. LogsAreOwn(saved)' /\ EndIsTrue'
  BY <1>8, GrowthKeepsLogs, GrowthKeepsQueue
<1>10. /\ win' \in Windows /\ win'.run = p
       /\ win'.shown = {} /\ win'.paths = paths
  BY DEF LaunchProcess, Idle, Windows
<1>11. control' \in SUBSET Runs
  BY DEF WindowInv, WindowTypeOK, LaunchProcess, StartProcess
<1>12. Fits(win)'
  BY <1>5, <1>7, <1>10 DEF Fits
<1>13. WindowTypeOK'
  BY <1>5, <1>10, <1>11 DEF WindowInv, WindowTypeOK
<1> QED
  BY <1>8, <1>9, <1>12, <1>13 DEF WindowInv

\* poll_output: what it leaves behind, and that a run it lets go of has exited.
LEMMA PollKeeps ==
    ASSUME WindowInv, NEW quiet \in BOOLEAN, PollOutput(quiet)
    PROVE  WindowInv' /\ \A p \in Runs : win.run = p /\ win'.run = NoRun => Exited(p)
<1> DEFINE s == Drained
           exited == s.win.run # NoRun /\ Exited(s.win.run)
           ends == exited /\ ShouldFinalize(s, quiet)
           noted == [s EXCEPT !.win.exitSeen = @ \/ exited]
           end == IF ends THEN FinishActive(s) ELSE noted
<1>1. DrainFits(s)
  BY DrainedFits
<1>2. /\ win' = end.win /\ saved' = end.saved /\ control' = end.control
      /\ queue' = <<>> /\ child' = child
  BY Zenon DEF PollOutput
<1>3. DrainFits(end)
  <2>1. CASE ends
    <3>1. s.win.run \in Runs
      BY <1>1, <2>1 DEF DrainFits, Drains, Windows
    <3> HIDE DEF s
    <3>2. DrainFits(FinishActive(s))
      BY <1>1, <2>1, <3>1, FinishFits, Zenon
    <3> QED
      BY <2>1, <3>2
  <2>2. CASE ~ends
    <3> HIDE DEF s, exited
    <3>1. s \in Drains /\ s.win \in Windows
      BY <1>1 DEF DrainFits, Drains
    <3>2. PICK b \in BOOLEAN : noted = [s EXCEPT !.win.exitSeen = b]
      BY Zenon
    <3>3. LET w == [s.win EXCEPT !.exitSeen = b] IN
             /\ w \in Windows /\ w.run = s.win.run /\ w.shown = s.win.shown
             /\ w.paths = s.win.paths
      BY <3>1 DEF Windows
    <3> HIDE DEF noted
    <3>4. /\ noted \in Drains /\ noted.win.run = s.win.run /\ noted.win.shown = s.win.shown
          /\ noted.win.paths = s.win.paths /\ noted.saved = s.saved
      BY <3>1, <3>2, <3>3 DEF Drains
    <3>5. DrainFits(noted)
      BY <1>1, <3>4 DEF DrainFits, Fits
    <3> QED
      BY <2>2, <3>5
  <2> QED
    BY <2>1, <2>2
<1> HIDE DEF end
<1>4. end \in Drains /\ Fits(end.win) /\ LogsAreOwn(end.saved)
  BY <1>3 DEF DrainFits
<1>5. WindowTypeOK'
  <2>1. child' \in [Runs -> Children]
    BY <1>2 DEF WindowInv, WindowTypeOK
  <2>2. win' \in Windows /\ saved' \in Saves /\ control' \in SUBSET Runs
    BY <1>2, <1>4 DEF Drains
  <2>3. queue' \in Seq(Items)
    BY <1>2
  <2> QED
    BY <2>1, <2>2, <2>3 DEF WindowTypeOK
<1>6. ChildrenFit'
  BY <1>2 DEF WindowInv, ChildrenFit, Exited
<1>7. EndIsTrue'
  BY <1>2 DEF EndIsTrue
<1>8. Fits(win)' /\ LogsAreOwn(saved)'
  BY <1>2, <1>4 DEF Fits, LogsAreOwn
<1>9. ASSUME NEW p \in Runs, win.run = p, win'.run = NoRun
      PROVE  Exited(p)
  BY <1>2, <1>3, <1>9, WindowAssumption DEF DrainFits
<1> QED
  BY <1>5, <1>6, <1>7, <1>8, <1>9 DEF WindowInv

\* Whatever else happens leaves the processes, the queue and the logs alone.
LEMMA RestKeeps ==
    ASSUME WindowInv, UNCHANGED <<child, control, queue, saved>>,
           win' = win \/ win' = [win EXCEPT !.open = FALSE]
    PROVE  WindowInv' /\ win'.run = win.run
<1>1. win \in Windows
  BY DEF WindowInv, WindowTypeOK
<1>2. /\ win' \in Windows /\ win'.run = win.run /\ win'.shown = win.shown
      /\ win'.paths = win.paths
  BY <1>1 DEF Windows
<1>3. ChildrenGrow /\ ChildrenFit'
  BY DEF WindowInv, ChildrenGrow, ChildrenFit, Exited
<1>4. Fits(win)' /\ LogsAreOwn(saved)' /\ EndIsTrue'
  BY <1>2, <1>3, GrowthKeepsLogs, GrowthKeepsWindow, GrowthKeepsQueue
<1>5. WindowTypeOK'
  BY <1>2 DEF WindowInv, WindowTypeOK
<1> QED
  BY <1>2, <1>3, <1>4, <1>5 DEF WindowInv

\* Every step keeps the invariant, and lets go of a run only that has exited.
LEMMA WindowStep ==
    ASSUME WindowInv, [WindowNext]_windowVars
    PROVE  WindowInv' /\ \A p \in Runs : win.run = p /\ win'.run = NoRun => Exited(p)
<1> DEFINE Kept == \A p \in Runs : win.run = p /\ win'.run = NoRun => Exited(p)
<1>0. win.run = win'.run => Kept
  BY WindowAssumption
<1>1. ASSUME NEW p \in Runs, ChildStep(p)
      PROVE  WindowInv' /\ Kept
  <2>1. UNCHANGED win
    BY <1>1 DEF ChildStep, Tell, Exit
  <2>2. WindowInv'
    BY <1>1, TellKeeps, ExitKeeps DEF ChildStep, Said
  <2> QED
    BY <1>0, <2>1, <2>2
<1>2. CASE Click
  BY <1>0, <1>2, RestKeeps DEF Click, ClickStart, ClickClose, ClickRecovery
<1>3. CASE AnswerNo \/ AnswerCases \/ AnswerClose
  BY <1>0, <1>3, RestKeeps DEF AnswerNo, AnswerCases, AnswerClose, Answered
<1>4. ASSUME NEW p \in Runs, NEW r \in Results, NEW paths \in SUBSET {r},
             LaunchProcess(p, paths, r), UNCHANGED <<queue, saved>>
      PROVE  WindowInv' /\ Kept
  <2>1. win'.run # NoRun
    BY <1>4, WindowAssumption DEF LaunchProcess, Idle
  <2> QED
    BY <1>4, <2>1, LaunchKeeps
<1>5. CASE AnswerPreview
  <2>1. PICK p \in Runs, r \in Results : LaunchProcess(p, {}, r)
    BY <1>5 DEF AnswerPreview
  <2>2. UNCHANGED <<queue, saved>> /\ {} \in SUBSET {r}
    BY <1>5 DEF AnswerPreview, Answered
  <2> QED
    BY <1>4, <2>1, <2>2
<1>6. CASE AnswerRecovery
  <2>1. PICK p \in Runs, r \in Results : LaunchProcess(p, {r}, r)
    BY <1>6 DEF AnswerRecovery
  <2>2. UNCHANGED <<queue, saved>> /\ {r} \in SUBSET {r}
    BY <1>6 DEF AnswerRecovery, Answered
  <2> QED
    BY <1>4, <2>1, <2>2
<1>7. CASE Callback
  <2>1. ASSUME NEW i \in 1 .. Len(workers), InspectionDone(i)
        PROVE  WindowInv' /\ Kept
    BY <1>0, <2>1, RestKeeps DEF InspectionDone
  <2> QED
    BY <1>7, <2>1, PollKeeps DEF Callback
<1>8. CASE UNCHANGED windowVars
  BY <1>0, <1>8, RestKeeps DEF windowVars
<1> QED
  BY <1>1, <1>2, <1>3, <1>5, <1>6, <1>7, <1>8 DEF WindowNext, Answer

\* WindowInv holds in every state of the window.
THEOREM WindowKeepsOrder == WindowSpec => []WindowInv
<1>1. WindowInit => WindowInv
  <2>1. SUFFICES ASSUME WindowInit
                 PROVE  WindowInv
    OBVIOUS
  <2>2. WindowTypeOK
    BY <2>1 DEF WindowInit, WindowTypeOK, Unborn, Idle, Children, Items, Windows, Saves
  <2>3. ChildrenFit /\ EndIsTrue
    BY <2>1 DEF WindowInit, ChildrenFit, EndIsTrue, Unborn
  <2>4. Fits(win) /\ LogsAreOwn(saved)
    BY <2>1 DEF WindowInit, Idle, Fits, LogsAreOwn
  <2> QED
    BY <2>2, <2>3, <2>4 DEF WindowInv
<1>2. WindowInv /\ [WindowNext]_windowVars => WindowInv'
  BY WindowStep
<1> QED
  BY <1>1, <1>2, PTL DEF WindowSpec

\* A saved run log holds the lines of one run, which ended well and whose result
\* it stands beside (launch_process, poll_output, finish_active_process).
THEOREM LogsAreTheRunsOwn == WindowSpec => []SavedLogIsTheRunsOwn
<1>1. WindowInv => SavedLogIsTheRunsOwn
  BY DEF WindowInv, SavedLogIsTheRunsOwn
<1> QED
  BY <1>1, WindowKeepsOrder, PTL

\* The window lets go of a run only once that run has exited (poll_output).
THEOREM RunsEndByTheirOwnExit == WindowSpec => OnlyItsOwnExitEndsARun
<1>1. WindowInv /\ [WindowNext]_windowVars
      => [\A p \in Runs : win.run = p /\ win'.run = NoRun => Exited(p)]_windowVars
  BY WindowStep
<1> QED
  BY <1>1, WindowKeepsOrder, PTL DEF WindowSpec, OnlyItsOwnExitEndsARun
=============================================================================
