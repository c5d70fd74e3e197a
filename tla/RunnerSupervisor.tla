-------------------------- MODULE RunnerSupervisor --------------------------
(***************************************************************************)
(* The supervision of one workload runner: RunnerSupervisor.run            *)
(* (scripts/runtime/runner_supervisor.py) as run_supervised_stage calls it,*)
(* stop_process_tree, and the other side of the pipe, main of              *)
(* workload_runner.py with its heartbeat thread.                           *)
(*                                                                         *)
(* Four threads of control: the runner's workload, its heartbeat, the      *)
(* parent's reader thread that moves lines from the pipe to a queue, and   *)
(* the parent's loop, which handles lines, exports the JSON after every    *)
(* commit, watches the heartbeat and cancels.  Time passes in ticks; the   *)
(* loop and the reader react within one.                                   *)
(***************************************************************************)
EXTENDS Naturals, Sequences, FiniteSets

CONSTANTS
    MaxCommits,        \* bound on the commits of the runner
    BeatPeriod,        \* ticks between two heartbeats (5 seconds)
    HeartbeatTimeout,  \* ticks of silence the parent puts up with (30 seconds)
    GracefulTimeout,   \* ticks a cancelled runner is given (10 seconds)
    ExportTime,        \* the longest export of the JSON, in ticks
    MaxInterrupts,     \* bound on Ctrl-C
    Faults             \* "crash": the runner dies without a word; "freeze": it
                       \* stalls, heartbeat and all; "export": an export raises

ASSUME SupervisorAssumption ==
    /\ MaxCommits \in Nat /\ ExportTime \in Nat /\ MaxInterrupts \in Nat
    /\ BeatPeriod \in Nat \ {0}
    /\ HeartbeatTimeout \in Nat \ {0}
    /\ GracefulTimeout \in Nat
    /\ Faults \subseteq {"crash", "freeze", "export"}

VARIABLES
    \* the runner
    work,       \* "new", "busy", "committed" (not yet announced), "said", "dead"
    code,       \* how it exited: "none", "ok", "error", "killed"
    health,     \* whether it stalls: "never", "now", "was"
    engine,     \* the engine server it started is alive
    commits,    \* its commits to the journal
    beatAge,    \* ticks since its last heartbeat
    warned,     \* it has been sent SIGINT
    \* between them
    pipe, queue,
    eof,        \* the reader has put the sentinel None
    \* the parent
    pc,
    closed,     \* stream_closed
    terminal,   \* the statuses of the terminal lines seen
    silence,    \* clock() - last_heartbeat
    left,       \* what is left of the export, or of the graceful period
    cancels,    \* calls of cancel made: one in run, one in run_supervised_stage
    owned,      \* stop_process_tree has captured the engine
    why,        \* what is being raised: "none", "silent", "export", "interrupt"
    interrupts,
    exported,   \* commits the JSON shows
    outcome     \* of run_supervised_stage: "none", "section", "failed", "raised"

runnerVars == <<work, code, health, engine, commits, beatAge, warned>>
lineVars == <<pipe, queue, eof>>
parentVars == <<pc, closed, terminal, silence, left, cancels, owned, why,
                interrupts, exported, outcome>>
vars == <<runnerVars, lineVars, parentVars>>

Alive == work \notin {"new", "dead"}
Runs == Alive /\ health # "now"

\* The heartbeat thread runs until the workload has ended.
Beating == work \in {"busy", "committed"} /\ health # "now"

Init ==
    /\ work = "new" /\ code = "none" /\ health = "never" /\ engine = FALSE
    /\ commits = 0 /\ beatAge = 0 /\ warned = FALSE
    /\ pipe = <<>> /\ queue = <<>> /\ eof = FALSE
    /\ pc = "start" /\ closed = FALSE /\ terminal = <<>> /\ silence = 0 /\ left = 0
    /\ cancels = 0 /\ owned = FALSE /\ why = "none" /\ interrupts = 0
    /\ exported = 0 /\ outcome = "none"

-----------------------------------------------------------------------------
(***************************************************************************)
(* The runner.                                                             *)
(***************************************************************************)

Write(line) == pipe' = Append(pipe, line)

StartEngine ==
    /\ work = "busy" /\ Runs /\ ~engine
    /\ engine' = TRUE
    /\ UNCHANGED <<work, code, health, commits, beatAge, warned, lineVars, parentVars>>

\* An append to the journal; notify announces it afterwards.
Commit ==
    /\ work = "busy" /\ Runs
    /\ commits < MaxCommits
    /\ commits' = commits + 1
    /\ work' = "committed"
    /\ UNCHANGED <<code, health, engine, beatAge, warned, lineVars, parentVars>>

Announce ==
    /\ work = "committed" /\ Runs
    /\ Write("event")
    /\ work' = "busy"
    /\ UNCHANGED <<code, health, engine, commits, beatAge, warned, queue, eof, parentVars>>

Beat ==
    /\ Beating
    /\ beatAge = BeatPeriod
    /\ Write("heartbeat")
    /\ beatAge' = 0
    /\ UNCHANGED <<work, code, health, engine, commits, warned, queue, eof, parentVars>>

\* The workload returns or raises; the engine is stopped, then the terminal
\* line is written.
End(status) ==
    /\ Runs
    /\ \/ work = "busy"
       \/ work = "committed" /\ warned /\ status = "failed"
    /\ status \in {"complete", "failed"}
    /\ engine' = FALSE
    /\ Write(status)
    /\ work' = "said"
    /\ code' = IF status = "complete" THEN "ok" ELSE "error"
    /\ UNCHANGED <<health, commits, beatAge, warned, queue, eof, parentVars>>

Exit ==
    /\ work = "said" /\ Runs
    /\ work' = "dead"
    /\ UNCHANGED <<code, health, engine, commits, beatAge, warned, lineVars, parentVars>>

Die ==
    /\ "crash" \in Faults
    /\ work \in {"busy", "committed"}
    /\ work' = "dead" /\ code' = "killed"
    /\ UNCHANGED <<health, engine, commits, beatAge, warned, lineVars, parentVars>>

Freeze ==
    /\ "freeze" \in Faults
    /\ Alive /\ health = "never"
    /\ health' = "now"
    /\ UNCHANGED <<work, code, engine, commits, beatAge, warned, lineVars, parentVars>>

Thaw ==
    /\ Alive /\ health = "now"
    /\ health' = "was"
    /\ UNCHANGED <<work, code, engine, commits, beatAge, warned, lineVars, parentVars>>

-----------------------------------------------------------------------------
(***************************************************************************)
(* The reader thread, _read_output.                                        *)
(***************************************************************************)

ReadLine ==
    /\ pipe # <<>>
    /\ queue' = Append(queue, Head(pipe))
    /\ pipe' = Tail(pipe)
    /\ UNCHANGED <<eof, runnerVars, parentVars>>

\* The engine logs to a file of its own and does not hold the pipe.
ReadEnd ==
    /\ pipe = <<>> /\ work = "dead" /\ ~eof
    /\ queue' = Append(queue, "end")
    /\ eof' = TRUE
    /\ UNCHANGED <<pipe, runnerVars, parentVars>>

-----------------------------------------------------------------------------
(***************************************************************************)
(* The parent's loop.                                                      *)
(***************************************************************************)

Start ==
    /\ pc = "start"
    /\ work' = "busy"
    /\ pc' = "loop"
    /\ UNCHANGED <<code, health, engine, commits, beatAge, warned, lineVars, closed,
                   terminal, silence, left, cancels, owned, why, interrupts, exported,
                   outcome>>

\* Mutant: the loop ends with the process, not with its output.
LoopEndsEarly == work = "dead"

LoopEnds == work = "dead" /\ closed

\* Mutant: the clock of the last heartbeat is not reset.
SilenceSinceStart(line) == silence

SilenceAfter(line) == IF line = "heartbeat" THEN 0 ELSE silence

\* One line, accept_line and on_runner_event.
Take ==
    /\ pc = "loop" /\ ~LoopEnds /\ queue # <<>>
    /\ queue' = Tail(queue)
    /\ closed' = (closed \/ Head(queue) = "end")
    /\ silence' = SilenceAfter(Head(queue))
    /\ terminal' = IF Head(queue) \in {"complete", "failed"}
                   THEN Append(terminal, Head(queue)) ELSE terminal
    /\ IF Head(queue) = "event"
       THEN pc' = "export" /\ left' \in 0 .. ExportTime
       ELSE pc' = "check" /\ left' = left
    /\ UNCHANGED <<pipe, eof, runnerVars, cancels, owned, why, interrupts, exported,
                   outcome>>

\* project and save_fn
Export ==
    /\ pc = "export" /\ left = 0
    /\ exported' = commits
    /\ pc' = "check"
    /\ UNCHANGED <<runnerVars, lineVars, closed, terminal, silence, left, cancels, owned,
                   why, interrupts, outcome>>

\* Into the except block of run with reason.
Raise(reason) ==
    /\ why' = reason
    /\ pc' = "cancel"
    /\ cancels' = 1
    /\ UNCHANGED <<lineVars, closed, terminal, silence, left, owned, exported, outcome>>

ExportRaises ==
    /\ "export" \in Faults
    /\ pc = "export" /\ left = 0
    /\ Raise("export")
    /\ UNCHANGED <<runnerVars, interrupts>>

\* Mutant: the heartbeat is looked at only when nothing arrives.
TooSilentWhenIdle == Alive /\ silence > HeartbeatTimeout /\ pc = "loop"

TooSilent == Alive /\ silence > HeartbeatTimeout

\* check_heartbeat, after a line or after 0.25 seconds without one.
HeartbeatLost ==
    /\ pc = "check" \/ (pc = "loop" /\ ~LoopEnds /\ queue = <<>>)
    /\ TooSilent
    /\ Raise("silent")
    /\ UNCHANGED <<runnerVars, interrupts>>

Check ==
    /\ pc = "check" /\ ~TooSilent
    /\ pc' = "loop"
    /\ UNCHANGED <<runnerVars, lineVars, closed, terminal, silence, left, cancels, owned,
                   why, interrupts, exported, outcome>>

\* run returns; the finally block of run_supervised_stage cancels.
Return ==
    /\ pc = "loop" /\ LoopEnds
    /\ pc' = "cancel"
    /\ cancels' = 2
    /\ UNCHANGED <<runnerVars, lineVars, closed, terminal, silence, left, owned, why,
                   interrupts, exported, outcome>>

\* An exception that nothing in run_supervised_stage handles.
Escape(reason) ==
    /\ why' = reason
    /\ pc' = "done"
    /\ outcome' = "raised"
    /\ UNCHANGED <<lineVars, closed, terminal, silence, left, cancels, owned, exported>>

FinalRaises ==
    /\ "export" \in Faults
    /\ pc = "final"
    /\ Escape("export")
    /\ UNCHANGED <<runnerVars, interrupts>>

Cancelling == pc \in {"cancel", "grace", "reap"}

\* Ctrl-C or a signal handler that exits.  One that falls into the first
\* cancel leads to the second, one that falls into the second escapes.
Interrupt ==
    /\ interrupts < MaxInterrupts
    /\ interrupts' = interrupts + 1
    /\ \/ pc \in {"loop", "export", "check"} /\ Raise("interrupt")
       \/ /\ Cancelling /\ cancels = 1
          /\ pc' = "cancel" /\ cancels' = 2 /\ why' = "interrupt"
          /\ UNCHANGED <<lineVars, closed, terminal, silence, left, owned, exported, outcome>>
       \/ Cancelling /\ cancels = 2 /\ Escape("interrupt")
       \/ pc = "final" /\ Escape("interrupt")
    /\ UNCHANGED runnerVars

-----------------------------------------------------------------------------
(***************************************************************************)
(* stop_process_tree.                                                      *)
(***************************************************************************)

\* The descendants of a live runner are captured and its group gets SIGINT;
\* a dead one has no descendants any more.
Signal ==
    /\ pc = "cancel"
    /\ owned' = (Alive /\ engine)
    /\ warned' = (warned \/ Alive)
    /\ engine' \in IF Alive THEN {engine, FALSE} ELSE {engine}
    /\ pc' = IF Alive THEN "grace" ELSE "reap"
    /\ left' = GracefulTimeout
    /\ UNCHANGED <<work, code, health, commits, beatAge, lineVars, closed, terminal,
                   silence, cancels, why, interrupts, exported, outcome>>

\* Mutant: wait without a timeout.
WaitEnds ==
    /\ pc = "grace" /\ ~Alive
    /\ pc' = "reap"
    /\ UNCHANGED <<runnerVars, lineVars, closed, terminal, silence, left, cancels, owned,
                   why, interrupts, exported, outcome>>

\* process.wait(timeout) returns or gives up.
GraceEnds ==
    /\ pc = "grace"
    /\ ~Alive \/ left = 0
    /\ pc' = "reap"
    /\ UNCHANGED <<runnerVars, lineVars, closed, terminal, silence, left, cancels, owned,
                   why, interrupts, exported, outcome>>

\* Where the parent goes when a cancel has ended.
AfterCancel ==
    /\ cancels' = 2
    /\ IF cancels = 1 THEN pc' = "cancel" /\ outcome' = outcome
       ELSE IF why = "none" THEN pc' = "final" /\ outcome' = outcome
       ELSE pc' = "done" /\ outcome' = "raised"

\* Mutant: a runner that ignores SIGINT is left to itself.
ReapEngineOnly ==
    /\ pc = "reap"
    /\ engine' = (engine /\ ~owned)
    /\ AfterCancel
    /\ UNCHANGED <<work, code, health, commits, beatAge, warned, lineVars, closed, terminal,
                   silence, left, owned, why, interrupts, exported>>

\* Captured descendants and a runner that is still there are killed.
Reap ==
    /\ pc = "reap"
    /\ engine' = (engine /\ ~owned)
    /\ IF Alive THEN work' = "dead" /\ code' = "killed"
       ELSE UNCHANGED <<work, code>>
    /\ AfterCancel
    /\ UNCHANGED <<health, commits, beatAge, warned, lineVars, closed, terminal,
                   silence, left, owned, why, interrupts, exported>>

Accepted == code = "ok" /\ terminal = <<"complete">>

\* Mutant: the last section is saved only of a runner that succeeded.
FinalIfAccepted ==
    /\ pc = "final"
    /\ pc' = "done"
    /\ exported' = IF Accepted THEN commits ELSE exported
    /\ outcome' = IF Accepted THEN "section" ELSE "failed"
    /\ UNCHANGED <<runnerVars, lineVars, closed, terminal, silence, left, cancels, owned,
                   why, interrupts>>

\* The last section is saved, then the exit status and the terminal line judged.
Final ==
    /\ pc = "final"
    /\ pc' = "done"
    /\ exported' = commits
    /\ outcome' = IF Accepted THEN "section" ELSE "failed"
    /\ UNCHANGED <<runnerVars, lineVars, closed, terminal, silence, left, cancels, owned,
                   why, interrupts>>

-----------------------------------------------------------------------------
(***************************************************************************)
(* Time.                                                                   *)
(***************************************************************************)

\* What happens within a tick has happened: a line is read, a heartbeat that is
\* due is sent, a runner that has written its terminal line exits.
Quiet ==
    /\ pipe = <<>>
    /\ work = "said" => health = "now"
    /\ work = "dead" => eof
    /\ Beating => beatAge < BeatPeriod
    /\ \/ pc = "loop" /\ ~LoopEnds /\ queue = <<>> /\ ~TooSilent
       \/ pc = "export" /\ left > 0
       \/ pc = "grace" /\ left > 0 /\ Alive

Tick ==
    /\ Quiet
    /\ silence' = silence + 1
    /\ beatAge' = IF Beating THEN beatAge + 1 ELSE beatAge
    /\ left' = IF pc = "loop" THEN left ELSE left - 1
    /\ UNCHANGED <<work, code, health, engine, commits, warned, lineVars, pc, closed,
                   terminal, cancels, owned, why, interrupts, exported, outcome>>

-----------------------------------------------------------------------------
Workload ==
    \/ StartEngine \/ Commit \/ Announce \/ Exit
    \/ \E status \in {"complete", "failed"} : End(status)

Reader == ReadLine \/ ReadEnd

Parent ==
    \/ Start \/ Take \/ Export \/ HeartbeatLost \/ Check \/ Return
    \/ Signal \/ GraceEnds \/ Reap \/ Final

Next ==
    \/ Workload \/ Beat \/ Die \/ Freeze \/ Thaw
    \/ Reader
    \/ Parent \/ ExportRaises \/ FinalRaises \/ Interrupt
    \/ Tick

Spec == Init /\ [][Next]_vars

\* Threads are scheduled, the clock runs, and the workload ends: each of its
\* requests has a timeout.  Nothing is assumed of a runner that stalls.
Fairness ==
    /\ WF_vars(Parent) /\ WF_vars(Reader) /\ WF_vars(Tick) /\ WF_vars(Beat)
    /\ WF_vars(Announce) /\ WF_vars(Exit)
    /\ WF_vars(\E status \in {"complete", "failed"} : End(status))

FairSpec == Spec /\ Fairness

-----------------------------------------------------------------------------
(***************************************************************************)
(* Properties.                                                             *)
(***************************************************************************)

Lines == {"event", "heartbeat", "complete", "failed"}

\* Every variable keeps its type.
SupervisorTypeOK ==
    /\ work \in {"new", "busy", "committed", "said", "dead"}
    /\ code \in {"none", "ok", "error", "killed"}
    /\ health \in {"never", "now", "was"}
    /\ engine \in BOOLEAN /\ warned \in BOOLEAN
    /\ commits \in 0 .. MaxCommits
    /\ beatAge \in 0 .. BeatPeriod
    /\ pipe \in Seq(Lines) /\ queue \in Seq(Lines \cup {"end"})
    /\ eof \in BOOLEAN /\ closed \in BOOLEAN /\ owned \in BOOLEAN
    /\ pc \in {"start", "loop", "export", "check", "cancel", "grace", "reap", "final", "done"}
    /\ terminal \in Seq({"complete", "failed"})
    /\ silence \in Nat /\ left \in Nat
    /\ cancels \in 0 .. 2
    /\ why \in {"none", "silent", "export", "interrupt"}
    /\ interrupts \in 0 .. MaxInterrupts
    /\ exported \in 0 .. MaxCommits
    /\ outcome \in {"none", "section", "failed", "raised"}

\* When run_supervised_stage is over, so is the runner: nothing else writes to
\* the journal any more.  It takes an interrupt in each of two cancels to
\* break this.
RunnerIsGone == pc = "done" => work = "dead"

\* A runner that exits with success and that nothing interrupts is not
\* reported as failed: its terminal line is handled even when the process has
\* ended long before its output was read.
SuccessIsSeen == pc = "done" /\ code = "ok" /\ why = "none" => outcome = "section"

\* When supervision returns rather than raises, the JSON shows all the journal
\* holds of the stage, also the commits of a runner that died before it could
\* announce them.
ReturnedStageIsExported == outcome \in {"section", "failed"} => exported = commits

\* Only a runner that stalled is given up for its silence, as long as
\* BeatPeriod + MaxCommits * ExportTime <= HeartbeatTimeout: heartbeats wait in
\* the queue behind the exports of the commits before them.
OnlySilenceIsPunished == why = "silent" => health # "never"

\* A runner is not left silent for longer than the timeout, the tick it takes
\* to notice and one export, however many of its lines are still to be handled.
SilenceIsBounded ==
    pc \in {"loop", "export", "check"} /\ Alive =>
        silence <= HeartbeatTimeout + 1 + ExportTime

\* What a run takes supervision for (RunnerSucceeds, RunnerFails and Interrupt of
\* BenchmarkRun), unless it is interrupted twice: a runner commits as long as there is
\* no outcome, the outcome comes once and to stay, when the runner has gone; and the
\* stage is a success exactly when the runner ended well and nothing was raised.
SupervisionIsOneStep ==
    [][interrupts' <= 1 =>
          /\ commits' # commits => outcome = "none"
          /\ outcome # "none" => UNCHANGED <<work, commits, outcome, exported>>
          /\ outcome' # outcome =>
                /\ work' = "dead" /\ commits' = commits
                /\ outcome' = "section" <=> code' = "ok" /\ why' = "none"
                /\ outcome' \in {"section", "failed"} => exported' = commits']_vars

\* Supervision ends, whether the runner finishes, dies or stalls.
SupervisionEnds == <>(pc = "done")

\* No engine server outlives its supervised runner ("on failure sends a
\* graceful interrupt before bounded terminate/kill escalation against that
\* owned group", docs/how-it-works.md:128).
EngineIsGone == pc = "done" => ~engine
-----------------------------------------------------------------------------
(***************************************************************************)
(* The inductive invariant behind the safety properties.                   *)
(***************************************************************************)

Statuses == {"complete", "failed"}
NoTerminalIn(lines) == \A i \in 1 .. Len(lines) : lines[i] \notin Statuses
OneTerminalIn(lines, status) ==
    \E i \in 1 .. Len(lines) :
        /\ lines[i] = status
        /\ \A j \in 1 .. Len(lines) : j # i => lines[j] \notin Statuses

\* What the parent has not handled yet.
Pending == queue \o pipe

\* The one status of a runner is written when it has ended, and is then in its
\* output or has been seen.
StatusIsOnItsWay ==
    /\ code \in {"none", "killed"} \/ work \in {"said", "dead"}
    /\ work \in {"new", "busy", "committed"} =>
          code = "none" /\ terminal = <<>> /\ NoTerminalIn(Pending)
    /\ code = "ok" =>
          \/ terminal = <<>> /\ OneTerminalIn(Pending, "complete")
          \/ terminal = <<"complete">> /\ NoTerminalIn(Pending)

\* The sentinel comes after everything else.
SentinelIsLast ==
    /\ eof => work = "dead" /\ pipe = <<>>
    /\ closed => eof /\ queue = <<>>
    /\ \A i \in 1 .. Len(queue) : queue[i] = "end" => eof /\ i = Len(queue)

\* Where the parent is, and what it knows of the runner there.
ParentKnows ==
    /\ work = "new" <=> pc = "start"
    /\ pc = "start" => silence = 0
    /\ pc \in {"start", "loop", "export", "check"} => why = "none"
    /\ Cancelling /\ why = "none" => work = "dead" /\ closed /\ cancels = 2
    /\ Cancelling => cancels \in {1, 2}
    /\ Cancelling /\ cancels = 2 => work = "dead" \/ interrupts > 0
    /\ pc = "final" => work = "dead" /\ closed /\ why = "none"
    /\ pc = "done" => work = "dead" \/ interrupts > 1
    /\ pc = "done" => why # "none" \/ outcome = IF Accepted THEN "section" ELSE "failed"
    /\ pc = "done" /\ why = "none" => work = "dead" /\ closed
    /\ outcome \in {"section", "failed"} =>
          pc = "done" /\ work = "dead" /\ exported = commits

SilenceIsWatched ==
    Alive =>
        /\ pc = "loop" => silence <= HeartbeatTimeout + 1
        /\ pc = "export" => silence + left <= HeartbeatTimeout + 1 + ExportTime
        /\ pc = "check" => silence <= HeartbeatTimeout + 1 + ExportTime

\* There is an outcome when the parent is done with the stage, and no sooner.
DoneHasOutcome == pc = "done" <=> outcome # "none"

SupInv ==
    SupervisorTypeOK /\ StatusIsOnItsWay /\ SentinelIsLast /\ ParentKnows
    /\ SilenceIsWatched

\* Why a runner that does not stall is not given up (EnoughPatience is the
\* condition on the constants).  While no heartbeat is on its way the silence is
\* no older than the last one; while one is, the parent has been silent for at
\* most one period and the exports of the events it has taken, ever.
EnoughPatience == BeatPeriod + MaxCommits * ExportTime <= HeartbeatTimeout

EventsIn(lines) == {i \in 1 .. Len(lines) : lines[i] = "event"}
NoBeatIn(lines) == \A i \in 1 .. Len(lines) : lines[i] # "heartbeat"

Announced == IF work = "committed" THEN commits - 1 ELSE commits
Taken == Announced - Cardinality(EventsIn(Pending))
ToExport == IF pc = "export" THEN left ELSE 0

BeatsArrive ==
    /\ Cardinality(EventsIn(Pending)) <= Announced
    /\ work = "committed" => commits > 0
    /\ pc = "export" => Taken > 0 /\ left <= ExportTime
    /\ NoBeatIn(Pending) => silence <= beatAge
    /\ ~NoBeatIn(Pending) => silence + ToExport <= BeatPeriod + Taken * ExportTime

PatienceInv ==
    /\ work = "new" => pipe = <<>> /\ queue = <<>> /\ commits = 0
    /\ health = "never" /\ Alive /\ pc \in {"loop", "export", "check"} => BeatsArrive
    /\ OnlySilenceIsPunished
=============================================================================
