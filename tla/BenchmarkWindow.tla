--------------------------- MODULE BenchmarkWindow ---------------------------
(***************************************************************************)
(* The benchmark window (scripts/app/benchmark_gui.py): the processes it   *)
(* launches, the control file through which it pauses them, the queue its  *)
(* reader threads fill and poll_output drains every 100 ms, the actions of *)
(* the Result History and Engine Management tabs, and the other end of the *)
(* control file in the workload (scripts/runtime/pause_control.py).        *)
(*                                                                         *)
(* A handler that asks a question runs a nested event loop: timers, worker *)
(* results and so other dialogs are served while it waits, and it goes on  *)
(* from where it stood once the dialogs opened over it are answered.  A    *)
(* handler is therefore cut at its questions, `dialogs' is the stack of    *)
(* the questions that wait, and only the last one can be answered.         *)
(***************************************************************************)
EXTENDS Naturals, Sequences, SequencesExt

CONSTANTS
    Runs,             \* the processes the window may launch, numbered in that order
    Results,          \* the result files
    Earlier,          \* those of earlier sessions
    NoRun,
    Kinds,            \* of recovery: "recovery", "retry", "fork"
    MaxInspections    \* bound on the recovery inspections under way together

ASSUME WindowAssumption == Runs \subseteq Nat /\ NoRun \notin Runs /\ NoRun \notin Results

VARIABLES
    child,            \* the launched processes
    control,          \* their control files
    queue,            \* output_queue
    win,              \* the variables of run_benchmark_gui
    dialogs,          \* the questions that wait for an answer, the last on top
    workers,          \* recovery inspections under way in worker threads
    saved             \* per result: the JSON exists, whose lines its log holds

windowVars == <<child, control, queue, win, dialogs, workers, saved>>

Unborn == [state |-> "unborn", result |-> NoRun, told |-> {}, code |-> "none"]

\* The window before a run and after it.  Its run log and its result paths stay
\* on, but nothing reads them before launch_process sets them anew; the control
\* path is that of the run, and Start is enabled where there is none.
Idle == [run |-> NoRun, paths |-> {}, exitSeen |-> FALSE, shown |-> {}, open |-> TRUE]

WindowInit == /\ child = [p \in Runs |-> Unborn]
        /\ control = {}
        /\ queue = <<>>
        /\ win = Idle
        /\ dialogs = <<>>
        /\ workers = <<>>
        /\ saved = [r \in Results |-> [json |-> r \in Earlier, log |-> {}]]

Alive(p) == child[p].state = "working"
Exited(p) == child[p].state = "exited"
\* process is not None and process.poll() is None
Active == win.run # NoRun /\ Alive(win.run)
Free == win.open /\ dialogs = <<>>    \* the user can reach the buttons
Top == Last(dialogs)
Question(ask, kind, r) == [ask |-> ask, kind |-> kind, result |-> r]
Ask(d) == dialogs' = Append(dialogs, d)
-----------------------------------------------------------------------------
(* The launched process and its reader thread. *)

\* read_process: output, with or without the progress event that names the
\* complete result, and the end of it.  The pipe may outlive the process, whose
\* own children inherit it.
Tell(p, what) ==
    /\ CASE what = "line" -> child[p].state # "unborn" /\ child[p].told = {}
         [] what = "result" -> Alive(p) /\ child[p].told = {}
         [] what = "done" -> Exited(p) /\ "done" \notin child[p].told
    /\ child' = [child EXCEPT ![p].told = @ \cup {what}]
    /\ queue' = Append(queue, [kind |-> what, run |-> p])
    /\ saved' = [saved EXCEPT ![child[p].result].json = @ \/ ~Exited(p)]
    /\ UNCHANGED <<control, win, dialogs, workers>>

Exit(p, code) ==
    /\ Alive(p)
    /\ code = "ok" => "result" \in child[p].told
    /\ child' = [child EXCEPT ![p].state = "exited", ![p].code = code]
    /\ UNCHANGED <<control, queue, win, dialogs, workers, saved>>

-----------------------------------------------------------------------------
(* poll_output and finish_active_process. *)

\* The text of the log, saved beside every result the window has been told of.
WriteRunLogs(s) ==
    [r \in Results |-> IF r \in s.win.paths THEN [s.saved[r] EXCEPT !.log = s.win.shown]
                       ELSE s.saved[r]]

\* A process that ended with exit code 0 has its log saved; the control file is
\* unlinked and the buttons are set back.
FinishActive(s) ==
    LET p == s.win.run IN
    [win |-> [Idle EXCEPT !.open = s.win.open],
     saved |-> IF child[p].code = "ok" THEN WriteRunLogs(s) ELSE s.saved,
     control |-> s.control \ {p},
     heard |-> s.heard]

\* A bug: poll_output does not compare the source of an item with the process.
HandleAnyItem(s, item) ==
    IF s.win.run = NoRun THEN s
    ELSE IF item.kind = "done" THEN FinishActive(s)
    ELSE [s EXCEPT !.win.shown = @ \cup {item.run}, !.heard = TRUE]

HandleItem(s, item) ==
    IF item.run # s.win.run THEN s
    ELSE IF item.kind = "done" THEN FinishActive(s)
    ELSE [s EXCEPT !.win.shown = @ \cup {item.run}, !.heard = TRUE,
                   !.win.paths = @ \cup {child[q].result : q \in {item.run} \cap
                                            (IF item.kind = "result" THEN Runs ELSE {})}]

Drained ==
    LET drain[n \in 0 .. Len(queue)] ==
            IF n = 0 THEN [win |-> win, saved |-> saved, control |-> control, heard |-> FALSE]
            ELSE HandleItem(drain[n - 1], queue[n])
    IN  drain[Len(queue)]

\* A bug: only the reader's "done" ends a run.
WaitForReader(s, quiet) == FALSE

\* should_finalize_process_exit: the process has exited, as an earlier call saw,
\* and its output has been quiet for 0.25 seconds since.
ShouldFinalize(s, quiet) == s.win.exitSeen /\ quiet /\ ~s.heard

PollOutput(quiet) ==
    /\ win.open
    /\ \E s \in {Drained} :
         LET exited == s.win.run # NoRun /\ Exited(s.win.run) IN
         \E end \in {IF exited /\ ShouldFinalize(s, quiet) THEN FinishActive(s)
                     ELSE [s EXCEPT !.win.exitSeen = @ \/ exited]} :
            /\ win' = end.win /\ saved' = end.saved /\ control' = end.control
    /\ queue' = <<>>
    /\ UNCHANGED <<child, dialogs, workers>>
-----------------------------------------------------------------------------
(* Launching, and closing the window. *)

\* launch_controlled_process: a new control file, then the process.
StartProcess(p, r) ==
    /\ child[p].state = "unborn" /\ \A q \in Runs : q < p => child[q].state # "unborn"
    /\ control' = control \cup {p}
    /\ child' = [child EXCEPT ![p].state = "working", ![p].result = r]

\* A bug: launch_process leaves the text of the log in place.
LaunchKeepsLog(p, paths, r) ==
    /\ StartProcess(p, r)
    /\ win' = [Idle EXCEPT !.run = p, !.paths = paths, !.shown = win.shown]

\* launch_process, whatever the window was watching.  A benchmark tells of its
\* result, that of a recovery is known.
LaunchProcess(p, paths, r) ==
    /\ StartProcess(p, r)
    /\ win' = [Idle EXCEPT !.run = p, !.paths = paths]

\* start_run: a valid configuration is shown as a plan to confirm.
ClickStart ==
    /\ Free /\ win.run = NoRun
    /\ Ask(Question("preview", NoRun, NoRun))
    /\ UNCHANGED <<child, control, queue, win, workers, saved>>

\* close_window, while no runtime is updated: a run that is active is asked about.
ClickClose ==
    /\ Free
    /\ \/ /\ Active
          /\ Ask(Question("close", NoRun, NoRun)) /\ UNCHANGED win
       \/ /\ ~Active
          /\ win' = [win EXCEPT !.open = FALSE] /\ UNCHANGED dialogs
    /\ UNCHANGED <<child, control, queue, workers, saved>>
-----------------------------------------------------------------------------
(* Result History. *)

\* inspect_recovery: the inspection runs in a thread of its own.
ClickRecovery(kind, r) ==
    /\ Free /\ saved[r].json /\ Len(workers) < MaxInspections
    /\ workers' = Append(workers, [kind |-> kind, result |-> r])
    /\ UNCHANGED <<child, control, queue, win, dialogs, saved>>

\* Its finish, and HistoryProcessActions.start: nothing comes of a result that
\* cannot be resumed or while a process is active; a retry first asks which
\* cases, and only then looks for an active process.
InspectionDone(i) ==
    /\ win.open
    /\ workers' = RemoveAt(workers, i)
    /\ \/ UNCHANGED dialogs
       \/ /\ workers[i].kind = "retry"
          /\ Ask(Question("cases", "retry", workers[i].result))
       \/ /\ workers[i].kind # "retry" /\ ~Active
          /\ Ask(Question("confirm", workers[i].kind, workers[i].result))
    /\ UNCHANGED <<child, control, queue, win, saved>>
-----------------------------------------------------------------------------
(* The answers, one per question. *)

Answered == dialogs' = Front(dialogs) /\ UNCHANGED <<queue, workers>>
Asked(what) == win.open /\ dialogs # <<>> /\ Top.ask = what

\* Also a "yes" whose process cannot be launched: launch_process shows the error
\* and returns.
AnswerNo ==
    /\ win.open /\ dialogs # <<>>
    /\ Answered /\ UNCHANGED <<child, control, win, saved>>

AnswerPreview ==
    /\ Asked("preview") /\ Answered
    /\ \E p \in Runs, r \in Results : ~saved[r].json /\ LaunchProcess(p, {}, r)
    /\ UNCHANGED saved

AnswerCases ==
    /\ Asked("cases")
    /\ dialogs' = IF Active THEN Front(dialogs)
                  ELSE [dialogs EXCEPT ![Len(dialogs)].ask = "confirm"]
    /\ UNCHANGED <<child, control, queue, win, workers, saved>>

\* resume, retry and fork; a fork writes a result of its own.
AnswerRecovery ==
    /\ Asked("confirm") /\ Answered
    /\ \E p \in Runs, r \in Results :
          /\ IF Top.kind = "fork" THEN ~saved[r].json ELSE r = Top.result
          /\ LaunchProcess(p, {r}, r)
    /\ UNCHANGED saved

AnswerClose ==
    /\ Asked("close")
    /\ win' = [win EXCEPT !.open = FALSE]
    /\ dialogs' = <<>>
    /\ UNCHANGED <<child, control, queue, workers, saved>>
-----------------------------------------------------------------------------
ChildStep(p) == \/ \E what \in {"line", "result", "done"} : Tell(p, what)
                \/ \E code \in {"ok", "failed"} : Exit(p, code)

Click == \/ ClickStart \/ ClickClose
         \/ \E kind \in Kinds, r \in Results : ClickRecovery(kind, r)

Answer == \/ AnswerNo \/ AnswerPreview \/ AnswerCases \/ AnswerRecovery \/ AnswerClose

Callback == \/ \E quiet \in BOOLEAN : PollOutput(quiet)
            \/ \E i \in 1 .. Len(workers) : InspectionDone(i)

\* Nobody watches the processes once the window is closed.
WindowNext == (\E p \in Runs : win.open /\ ChildStep(p)) \/ Click \/ Answer \/ Callback

WindowSpec == WindowInit /\ [][WindowNext]_windowVars

\* root.after calls poll_output again and again, nested loop or not, and time passes.
FairSpec == WindowSpec /\ WF_windowVars(PollOutput(TRUE))
-----------------------------------------------------------------------------
Said == {"line", "result", "done"}
Children == [state : {"unborn", "working", "exited"}, result : Results \cup {NoRun},
             told : SUBSET Said, code : {"none", "ok", "failed"}]
Items == [kind : Said, run : Runs]
Windows == [run : Runs \cup {NoRun}, paths : SUBSET Results, exitSeen : BOOLEAN,
            shown : SUBSET Runs, open : BOOLEAN]
Saves == [Results -> [json : BOOLEAN, log : SUBSET Runs]]

WindowTypeOK == /\ child \in [Runs -> Children]
                /\ control \in SUBSET Runs
                /\ queue \in Seq(Items)
                /\ win \in Windows
                /\ saved \in Saves

\* A process has a result file from its launch on, and an exit code from its end on.
ChildrenFit == \A p \in Runs :
    /\ child[p].state = "unborn" <=> child[p].result = NoRun
    /\ child[p].code # "none" => Exited(p)

\* The end of the output is read after that of the process: what poll_output
\* takes for the end of the run is one.
EndIsTrue == \A i \in 1 .. Len(queue) : queue[i].kind = "done" => Exited(queue[i].run)

\* A window w shows lines of the process it watches and knows of its result only.
Fits(w) == IF w.run = NoRun THEN w.shown = {} /\ w.paths = {}
           ELSE /\ child[w.run].state # "unborn"
                /\ w.shown \subseteq {w.run}
                /\ w.paths \subseteq {child[w.run].result}

LogsAreOwn(sv) == \A r \in Results : sv[r].log # {} =>
    \E p \in Runs : sv[r].log = {p} /\ child[p].result = r /\ child[p].code = "ok"

\* What makes SavedLogIsTheRunsOwn and OnlyItsOwnExitEndsARun inductive.
WindowInv == WindowTypeOK /\ ChildrenFit /\ EndIsTrue /\ Fits(win) /\ LogsAreOwn(saved)

\* The window lets go of a run only once that run has exited: neither the late
\* "done" of an earlier run nor a quiet spell ends it (poll_output).
OnlyItsOwnExitEndsARun ==
    [][\A p \in Runs : win.run = p /\ win'.run = NoRun => Exited(p)]_windowVars

\* A saved run log holds the lines of one run: one that ended well and whose
\* result it stands beside (launch_process, poll_output, finish_active_process).
SavedLogIsTheRunsOwn == LogsAreOwn(saved)

\* The window comes back from a run that has exited, also when something that
\* run started keeps the pipe open (should_finalize_process_exit).
WindowComesBack ==
    \A p \in Runs : (win.run = p /\ Exited(p)) ~> (win.run # p \/ ~win.open)

\* One launched process at a time: "Stop the active process first."
\* (HistoryProcessActions.start).
OneBenchmarkAtATime == \A p, q \in Runs : Alive(p) /\ Alive(q) => p = q
=============================================================================
