---------------------------- MODULE MCEventStore ----------------------------
(* Two connections to the journal of a job with a case and two attempts. *)
EXTENDS EventStore, TLC

CONSTANTS parent, runner, job, case, first, second, none

MCParentOf == (job :> none) @@ (case :> job) @@ (first :> case) @@ (second :> case)

Event(e, s) == [entity |-> e, state |-> s]

\* start_stage, prepare_recovery, finish_job, resume_job
ParentBatches ==
    {<<Event(job, "running")>>,
     <<Event(case, "recovered"), Event(job, "recovered")>>,
     <<Event(job, "interrupted")>>}

\* begin_case, a failed and a successful record_case
RunnerBatches ==
    {<<Event(case, "running"), Event(first, "running")>>,
     <<Event(first, "failed"), Event(case, "failed")>>,
     <<Event(second, "running"), Event(second, "complete"), Event(case, "complete")>>}

MCBatchesOf == (parent :> ParentBatches) @@ (runner :> RunnerBatches)
=============================================================================
