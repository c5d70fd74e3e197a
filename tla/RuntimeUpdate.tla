----------------------------- MODULE RuntimeUpdate -----------------------------
(***************************************************************************)
(* Updates of the app-managed runtimes from the Engine Management tab: the *)
(* tab (scripts/app/engine_management.py), the worker thread of an update  *)
(* (benchmark_gui_screens/engines.py, scripts/setup/managed_llamacpp.py,   *)
(* runtime_update.py) and the directory transaction by which staged        *)
(* runtimes replace those in use (directory_transaction.py).               *)
(*                                                                         *)
(* A directory holds a version that works, a tree that does not, nothing,  *)
(* or is absent.  The siblings an update works in carry its token: nobody  *)
(* else uses them, and those a killed update left stay as they are.        *)
(***************************************************************************)
EXTENDS Naturals, Sequences, SequencesExt

CONSTANTS Targets, Family,            \* as in RuntimeSet
          Native,                     \* the one of the Family that macOS has
          Absent, Empty, Broken,      \* what a directory may hold besides a version
          MaxUpdates,                 \* bound on the updates; the n-th installs version n
          MaxFaults                   \* bound on the failing file operations

Contents == Nat \cup {Absent, Empty, Broken}

ASSUME UpdateAssumption ==
    /\ IsFiniteSet(Targets)
    /\ Family \subseteq Targets /\ Native \in Family /\ MaxUpdates \in Nat /\ MaxFaults \in Nat
    /\ Absent \notin Nat /\ Empty \notin Nat /\ Broken \notin Nat
    /\ Absent # Empty /\ Absent # Broken /\ Empty # Broken

VARIABLES
    target,     \* the runtime directories
    backup,     \* their siblings .{name}-backup-{token}
    candidate,  \* their siblings .{name}-family-stage-{token}; for vLLM, -update-{token}
    release,    \* the staging directory of install_managed_llamacpp
    orphans,    \* runtimes with a version that works in the backup of a killed update
    job,        \* the update under way, with its RuntimeUpdateControl
    tab,        \* the window: open, loading, its question, a benchmark running; the platform
    updates,    \* updates begun
    faults,     \* file operations that failed
    harmed      \* runtimes that a failed rollback or a kill may have damaged

disk == <<target, backup, candidate, release, orphans>>
updateVars == <<disk, job, tab, updates, faults, harmed>>

Idle == [pc |-> "idle", todo |-> <<>>, at |-> 1, version |-> 0, usable |-> FALSE,
         had |-> {}, moved |-> {}, clean |-> TRUE, cancelled |-> FALSE, result |-> "none"]

UpdateInit ==
    /\ tab \in [open : {TRUE}, loading : {TRUE}, question : {"none"}, running : {FALSE},
                    macos : BOOLEAN]
    /\ target \in [Targets -> {0, Absent}]
    /\ \A t \in Targets : target[t] = Absent <=> tab.macos
    /\ backup = [t \in Targets |-> Absent]
    /\ candidate = backup /\ release = backup
    /\ orphans = {}
    /\ job = Idle
    /\ updates = 0 /\ faults = 0
    /\ harmed = {}

Here == job.todo[job.at]                        \* the runtime being staged
Continue(pc) == job' = [job EXCEPT !.pc = pc]
End(result) == job' = [job EXCEPT !.pc = "cleanup", !.result = result]
Fault == faults < MaxFaults /\ faults' = faults + 1
Put(t, c) == [target EXCEPT ![t] = c]
Elements(s) == {s[i] : i \in 1 .. Len(s)}
Known == faults' = faults /\ harmed' = harmed   \* a step that goes well
-----------------------------------------------------------------------------
(* install_managed_llamacpp, into the candidate directory.                 *)

\* The candidate is made.  The release cannot be had, the update was cancelled, or
\* it goes on.
InstallBegin ==
    /\ job.pc = "install"
    /\ candidate' = [candidate EXCEPT ![Here] = Empty]
    /\ End("failed") \/ (~job.cancelled /\ Continue("archive"))
    /\ Known /\ UNCHANGED <<target, backup, release, orphans, tab>>

\* The assets are downloaded and extracted and the outcome validated: none fits,
\* one is incomplete, or it works.  An error is logged and leads to the build.
Archive ==
    /\ job.pc = "archive"
    /\ \E c \in {Absent, Broken, job.version} :
          /\ release' = [release EXCEPT ![Here] = c]
          /\ job' = [job EXCEPT !.pc = "archived",
                                !.usable = c = job.version /\ ~job.cancelled]
    /\ Known /\ UNCHANGED <<target, backup, candidate, orphans, tab>>

\* rebuild_managed_llamacpp, in the same place: clone, configure, build, validate,
\* swap.  Its commands do not start, or are killed, once the update is cancelled.
Build ==
    /\ job.pc = "archived"
    /\ \/ /\ job.cancelled /\ End("failed") /\ UNCHANGED release
       \/ /\ ~job.cancelled /\ job.usable /\ Continue("swap") /\ UNCHANGED release
       \/ /\ ~job.cancelled /\ ~job.usable
          /\ \E c \in {Broken, job.version} :
                /\ release' = [release EXCEPT ![Here] = c]
                /\ IF c = job.version THEN Continue("built") ELSE End("failed")
    /\ Known /\ UNCHANGED <<target, backup, candidate, orphans, tab>>

Validate ==
    /\ job.pc = "built"
    /\ IF job.cancelled THEN End("failed") ELSE Continue("swap")
    /\ Known /\ UNCHANGED <<disk, tab>>

\* swap_staged_directory between the release and the empty candidate, nothing of
\* which is in use: it succeeds, or the candidate is given up.  A command of the
\* last validation that was cancelled counts as a failed one.
Swap ==
    /\ job.pc = "swap"
    /\ \/ /\ ~job.cancelled
          /\ candidate' = [candidate EXCEPT ![Here] = release[Here]]
          /\ IF job.at < Len(job.todo)
             THEN job' = [job EXCEPT !.pc = "install", !.at = @ + 1]
             ELSE job' = [job EXCEPT !.pc = "backup", !.at = 1,
                              !.had = {t \in Elements(job.todo) : target[t] # Absent}]
       \/ End("failed") /\ UNCHANGED candidate
    /\ release' = [release EXCEPT ![Here] = Absent]
    /\ Known /\ UNCHANGED <<target, backup, orphans, tab>>
-----------------------------------------------------------------------------
(* swap_staged_directories: every runtime of the update moves to its backup, *)
(* then every candidate takes its place.                                   *)

Advance(next) == IF job.at < Len(job.todo) THEN [job EXCEPT !.at = @ + 1]
                 ELSE [job EXCEPT !.at = 1, !.pc = next]
Commits(done) == IF done.pc = "discard" THEN harmed \ Elements(job.todo) ELSE harmed

\* A bug: a failed replacement leaves the directories as they are.
NoRollBack == End("restored")

RollBack == job' = [job EXCEPT !.pc = "undo_remove", !.at = Len(job.todo)]

Backup ==
    /\ job.pc = "backup"
    /\ \/ /\ IF Here \in job.had
             THEN /\ backup' = [backup EXCEPT ![Here] = target[Here]]
                  /\ target' = Put(Here, Absent)
             ELSE UNCHANGED <<target, backup>>
          /\ job' = Advance("place")
          /\ Known
       \/ Here \in job.had /\ Fault /\ RollBack /\ UNCHANGED <<target, backup, harmed>>
    /\ UNCHANGED <<candidate, release, orphans, tab>>

Place ==
    /\ job.pc = "place"
    /\ \/ /\ target' = Put(Here, candidate[Here])
          /\ candidate' = [candidate EXCEPT ![Here] = Absent]
          /\ job' = [Advance("discard") EXCEPT !.moved = @ \cup {Here}]
          /\ harmed' = Commits(job') /\ UNCHANGED faults
       \/ Fault /\ RollBack /\ UNCHANGED <<target, candidate, harmed>>
    /\ UNCHANGED <<backup, release, orphans, tab>>

Retreat(next) == IF job.at > 1 THEN [job EXCEPT !.at = @ - 1]
                 ELSE [job EXCEPT !.at = Len(job.todo), !.pc = next]

\* The rollback goes on past its errors; rmtree fails halfway.
UndoRemove ==
    /\ job.pc = "undo_remove"
    /\ \/ /\ target' = IF Here \in job.moved THEN Put(Here, Absent) ELSE target
          /\ job' = Retreat("undo_restore") /\ Known
       \/ /\ Here \in job.moved /\ target[Here] # Absent
          /\ target' = Put(Here, Broken)
          /\ Fault /\ job' = [Retreat("undo_restore") EXCEPT !.clean = FALSE]
          /\ harmed' = harmed \cup {Here}
    /\ UNCHANGED <<backup, candidate, release, orphans, tab>>

\* A directory is not renamed over one that is there.  The family is said to be
\* restored whatever happened.
BackedUp(t) == t \in job.had /\ backup[t] # Absent
UndoRestore ==
    /\ job.pc = "undo_restore"
    /\ LET told == IF job.clean \/ Here \in Family THEN "restored" ELSE "harmed"
           done == [Retreat("cleanup") EXCEPT !.result = told] IN
       \/ /\ ~BackedUp(Here) /\ job' = done /\ Known /\ UNCHANGED <<target, backup>>
       \/ /\ BackedUp(Here) /\ target[Here] = Absent
          /\ target' = Put(Here, backup[Here])
          /\ backup' = [backup EXCEPT ![Here] = Absent]
          /\ job' = done /\ Known
       \/ /\ BackedUp(Here)
          /\ IF target[Here] = Absent THEN Fault ELSE UNCHANGED faults
          /\ job' = [done EXCEPT !.clean = FALSE, !.result = IF Here \in Family THEN @ ELSE "harmed"]
          /\ harmed' = harmed \cup {Here}
          /\ UNCHANGED <<target, backup>>
    /\ UNCHANGED <<candidate, release, orphans, tab>>

\* The old runtimes go; one that cannot be removed is reported.
Discard ==
    /\ job.pc = "discard"
    /\ \/ backup' = [backup EXCEPT ![Here] = Absent] /\ UNCHANGED faults
       \/ backup[Here] # Absent /\ backup' = [backup EXCEPT ![Here] = Broken] /\ Fault
    /\ job' = [Advance("cleanup") EXCEPT !.result = "ok"]
    /\ UNCHANGED <<target, candidate, release, orphans, tab, harmed>>
-----------------------------------------------------------------------------
(* update_managed_vllm: a trial installation in a sibling, which is removed *)
(* again, then the installation at the final path, with the old environment *)
(* aside: a virtual environment cannot be moved.                            *)

TrialInstall ==
    /\ job.pc = "trial"
    /\ \E c \in {Absent, Broken, job.version} :
          /\ candidate' = [candidate EXCEPT ![Here] = c]
          /\ IF c = job.version /\ ~job.cancelled THEN Continue("trial_validate") ELSE End("failed")
    /\ Known /\ UNCHANGED <<target, backup, release, orphans, tab>>

TrialValidate ==
    /\ job.pc = "trial_validate"
    /\ \/ End("failed") /\ Known /\ UNCHANGED <<target, backup, candidate>>
       \/ /\ ~job.cancelled
          /\ candidate' = [candidate EXCEPT ![Here] = Absent]
          /\ Continue("aside") /\ Known /\ UNCHANGED <<target, backup>>
       \/ ~job.cancelled /\ Fault /\ End("failed") /\ UNCHANGED <<target, backup, candidate, harmed>>
    /\ UNCHANGED <<release, orphans, tab>>

Aside ==
    /\ job.pc = "aside"
    /\ \/ /\ backup' = [backup EXCEPT ![Here] = target[Here]]
          /\ target' = Put(Here, Absent)
          /\ job' = [job EXCEPT !.pc = "final", !.had = {Here}, !.moved = {Here}] /\ Known
       \/ Fault /\ End("failed") /\ UNCHANGED <<target, backup, harmed>>
    /\ UNCHANGED <<candidate, release, orphans, tab>>

\* A bug: the old environment goes before the new one is known to work.
DiscardBeforeValidation ==
    /\ job.pc = "final"
    /\ \E c \in {Broken, job.version} : target' = Put(Here, c)
    /\ Continue("discard")
    /\ Known /\ UNCHANGED <<backup, candidate, release, orphans, tab>>

FinalInstall ==
    /\ job.pc = "final"
    /\ \E c \in {Absent, Broken, job.version} :
          /\ target' = Put(Here, c)
          /\ IF c = job.version /\ ~job.cancelled THEN Continue("final_validate") ELSE RollBack
    /\ Known /\ UNCHANGED <<backup, candidate, release, orphans, tab>>

FinalValidate ==
    /\ job.pc = "final_validate"
    /\ RollBack \/ (~job.cancelled /\ Continue("discard"))
    /\ harmed' = Commits(job')
    /\ UNCHANGED <<disk, tab, faults>>
-----------------------------------------------------------------------------
(* The end of the worker, and of the process.                              *)

\* The finally blocks: what was staged is removed, errors ignored.
CleanUp ==
    /\ job.pc = "cleanup"
    /\ candidate' = [t \in Targets |-> Absent]
    /\ release' = [t \in Targets |-> Absent]
    /\ Continue("reported")
    /\ Known /\ UNCHANGED <<target, backup, orphans, tab>>

\* The directories of an update are being moved, and it has not succeeded yet.
Replacing == job.pc \in {"backup", "place", "undo_remove", "undo_restore", "final",
                         "final_validate"}

Kept == orphans \cup {t \in Targets : backup[t] \in Nat}

\* The process is killed, and with it the worker, a daemon thread.
Kill ==
    /\ job.pc # "idle"
    /\ job' = Idle
    /\ tab' = [tab EXCEPT !.open = FALSE, !.question = "none", !.loading = FALSE]
    /\ harmed' = harmed \cup {t \in Elements(job.todo) : Replacing /\
                                  (backup[t] # Absent \/ t \in job.moved)}
    /\ orphans' = Kept
    /\ backup' = [t \in Targets |-> Absent]
    /\ candidate' = [t \in Targets |-> Absent]
    /\ release' = [t \in Targets |-> Absent]
    /\ UNCHANGED <<target, updates, faults>>

Reopen == /\ ~tab.open
          /\ tab' = [tab EXCEPT !.open = TRUE, !.loading = TRUE]
          /\ UNCHANGED <<disk, job, updates, faults, harmed>>
-----------------------------------------------------------------------------
(* The tab.                                                                 *)

Free == tab.open /\ tab.question = "none"
Busy == job.pc # "idle"                 \* active_control[0] is not None
TabStep == UNCHANGED <<disk, updates, faults, harmed>>

\* update_engine, before its question, and after it.
ClickUpdate ==
    /\ Free /\ ~tab.loading /\ ~tab.running
    /\ tab' = [tab EXCEPT !.question = "update"]
    /\ TabStep /\ UNCHANGED job

\* The app-managed llama.cpp runtimes, or the vLLM environment.
Selections == {SetToSeq({t \in Family : target[t] # Absent \/ (tab.macos /\ t = Native)})} \cup
                  {<<t>> : t \in {u \in Targets \ Family : target[u] # Absent}}

AnswerUpdate ==
    /\ tab.open /\ tab.question = "update"
    /\ \/ /\ tab' = [tab EXCEPT !.question = "none"]
          /\ UNCHANGED <<job, backup, orphans, updates>>
       \/ \E todo \in Selections \ {<<>>} :
             /\ updates < MaxUpdates /\ updates' = updates + 1
             /\ tab' = [tab EXCEPT !.question = "none", !.loading = TRUE]
             /\ job' = [Idle EXCEPT !.todo = todo, !.version = updates + 1,
                                    !.pc = IF Head(todo) \in Family THEN "install" ELSE "trial"]
             /\ orphans' = Kept
             /\ backup' = [t \in Targets |-> Absent]
    /\ UNCHANGED <<target, candidate, release, faults, harmed>>

\* cancel_update: the control is told and the running command killed.
CancelUpdate ==
    /\ Free /\ Busy /\ ~job.cancelled
    /\ job' = [job EXCEPT !.cancelled = TRUE]
    /\ TabStep /\ UNCHANGED tab

\* update_finished: the result is told, and an update followed by a new inspection.
UpdateFinished ==
    /\ tab.open /\ job.pc = "reported"
    /\ job' = Idle
    /\ tab' = [tab EXCEPT !.loading = job.result = "ok"]
    /\ TabStep

\* refresh and refresh_finished.
Refresh ==
    /\ Free /\ ~tab.loading
    /\ tab' = [tab EXCEPT !.loading = TRUE]
    /\ TabStep /\ UNCHANGED job

RefreshFinished ==
    /\ tab.open /\ tab.loading /\ ~Busy
    /\ tab' = [tab EXCEPT !.loading = FALSE]
    /\ TabStep /\ UNCHANGED job

\* start_run looks at the window's process alone.
StartRun ==
    /\ Free /\ ~tab.running
    /\ tab' = [tab EXCEPT !.running = TRUE]
    /\ TabStep /\ UNCHANGED job

EndRun ==
    /\ tab.open /\ tab.running
    /\ tab' = [tab EXCEPT !.running = FALSE]
    /\ TabStep /\ UNCHANGED job

\* close_window: while an update is under way the window stays, and asks.
Close ==
    /\ Free
    /\ tab' = IF Busy THEN [tab EXCEPT !.question = "close"] ELSE [tab EXCEPT !.open = FALSE]
    /\ TabStep /\ UNCHANGED job

AnswerClose ==
    /\ tab.open /\ tab.question = "close"
    /\ \E yes \in BOOLEAN : job' = IF Busy THEN [job EXCEPT !.cancelled = @ \/ yes] ELSE job
    /\ tab' = [tab EXCEPT !.question = "none"]
    /\ TabStep
-----------------------------------------------------------------------------
Worker == \/ InstallBegin \/ Archive \/ Build \/ Validate \/ Swap
          \/ Backup \/ Place \/ UndoRemove \/ UndoRestore \/ Discard
          \/ TrialInstall \/ TrialValidate \/ Aside \/ FinalInstall \/ FinalValidate
          \/ CleanUp

Window == \/ ClickUpdate \/ AnswerUpdate \/ CancelUpdate \/ UpdateFinished
          \/ Refresh \/ RefreshFinished \/ StartRun \/ EndRun \/ Close \/ AnswerClose \/ Reopen

UpdateNext == (Worker /\ UNCHANGED updates) \/ Window \/ Kill

UpdateSpec == UpdateInit /\ [][UpdateNext]_updateVars
-----------------------------------------------------------------------------
\* What the runtime directories hold, those of an update under way as before it.
Installed ==
    [t \in Targets |-> IF Replacing /\ t \in Elements(job.todo) /\ backup[t] # Absent
                       THEN backup[t] ELSE target[t]]

\* An update replaces every runtime of the family or none, whatever fails; only a
\* rollback that fails or a kill in the middle harms one (swap_staged_directories,
\* update_managed_vllm).
Set == INSTANCE RuntimeSet WITH installed <- Installed
ReplacesAllOrNothing == Set!Spec

\* A runtime that was there can be had back, in its place or in a backup, at every
\* moment: also between the renames, after a rollback that failed and after a kill.
Survives(t) == target[t] \in Nat \/ backup[t] \in Nat \/ t \in orphans
RuntimeSurvives == [][\A t \in Targets : Survives(t) => Survives(t)']_updateVars

\* An update that says the prior runtimes were restored has restored them: "a
\* replacement failure restores the entire prior runtime family" (docs/setup.md).
RestoredIsRestored == job.result = "restored" => job.clean

\* The runtimes do not change under a benchmark: "Stop the active benchmark first."
\* (update_engine).
NoChangeUnderARun == [][tab.running => target' = target]_updateVars

-----------------------------------------------------------------------------
(* What the refinement and the survival of the runtimes rest on.            *)

Staging == {"install", "archive", "archived", "built", "swap"}
Trying == {"trial", "trial_validate", "aside"}
Moving == {"backup", "place"}
Finishing == {"final", "final_validate"}
Undoing == {"undo_remove", "undo_restore"}
Over == {"discard", "cleanup", "reported"}

Jobs == [pc : {"idle"} \cup Staging \cup Trying \cup Moving \cup Finishing \cup Undoing \cup Over,
         todo : Seq(Targets), at : Nat, version : Nat, usable : BOOLEAN,
         had : SUBSET Targets, moved : SUBSET Targets,
         clean : BOOLEAN, cancelled : BOOLEAN,
         result : {"none", "ok", "failed", "restored", "harmed"}]
Tabs == [open : BOOLEAN, loading : BOOLEAN, question : {"none", "update", "close"},
         running : BOOLEAN, macos : BOOLEAN]

UpdateTypeOK ==
    /\ target \in [Targets -> Contents] /\ backup \in [Targets -> Contents]
    /\ candidate \in [Targets -> Contents] /\ release \in [Targets -> Contents]
    /\ orphans \subseteq Targets /\ harmed \subseteq Targets
    /\ job \in Jobs /\ tab \in Tabs
    /\ updates \in 0 .. MaxUpdates /\ faults \in 0 .. MaxFaults

\* One update at a time: while it lasts the tab is loading, and Update is disabled.
OneUpdate == Busy => tab.open /\ tab.loading /\ tab.question # "update"

\* An update is of the runtimes of the family that there are, or of one other.
UpdateFits ==
    Busy =>
        /\ job.at \in 1 .. Len(job.todo)
        /\ \A i, k \in 1 .. Len(job.todo) : job.todo[i] = job.todo[k] => i = k
        /\ \/ /\ Elements(job.todo) \subseteq Family /\ job.pc \notin Trying \cup Finishing
              /\ \A t \in Family \ Elements(job.todo) : target[t] = Absent
           \/ /\ Len(job.todo) = 1 /\ Elements(job.todo) \cap Family = {}
              /\ job.pc \notin Staging \cup Moving
        /\ job.pc \in Trying => target[Here] # Absent

\* On macOS there is only the native runtime; elsewhere an update begins with
\* runtimes that are there.
MacHasNative ==
    /\ tab.macos => /\ \A t \in Targets \ {Native} : target[t] = Absent
                    /\ Busy => Elements(job.todo) \subseteq {Native}
    /\ job.pc \in Staging =>
        Len(job.todo) = 1 \/ \A t \in Elements(job.todo) : target[t] # Absent

\* What was staged works.
StagedWorks ==
    /\ job.pc \in Staging => \A i \in 1 .. job.at - 1 : candidate[job.todo[i]] = job.version
    /\ job.pc = "archived" /\ job.usable => release[Here] = job.version
    /\ job.pc \in {"built", "swap"} => release[Here] = job.version
    /\ job.pc = "backup" => \A t \in Elements(job.todo) : candidate[t] = job.version
    /\ job.pc = "place" =>
        /\ \A i \in job.at .. Len(job.todo) : candidate[job.todo[i]] = job.version
        /\ \A i \in 1 .. job.at - 1 : target[job.todo[i]] = job.version
    /\ job.pc \in {"final_validate", "discard"} =>
        \A t \in Elements(job.todo) : target[t] = job.version

\* The directories while they are replaced.
BackedUpFirst ==
    /\ job.pc \in Staging \cup Trying =>
        job.moved = {} /\ \A t \in Targets : backup[t] = Absent
    /\ Replacing =>
        /\ job.moved \subseteq job.had
        /\ \A t \in Elements(job.todo) : backup[t] # Absent => t \in job.had
    /\ job.pc = "backup" =>
        /\ job.moved = {}
        /\ Len(job.todo) = 1 \/ Elements(job.todo) \subseteq job.had
        /\ \A i \in 1 .. job.at - 1 :
              LET t == job.todo[i] IN
              target[t] = Absent /\ (t \in job.had => backup[t] # Absent)
        /\ \A i \in job.at .. Len(job.todo) :
              LET t == job.todo[i] IN
              backup[t] = Absent /\ (target[t] # Absent <=> t \in job.had)
    /\ job.pc = "place" =>
        /\ job.moved = {job.todo[i] : i \in 1 .. job.at - 1}
        /\ Len(job.todo) = 1 \/ Elements(job.todo) \subseteq job.had
        /\ \A t \in Elements(job.todo) : t \in job.had => backup[t] # Absent
        /\ \A i \in job.at .. Len(job.todo) : target[job.todo[i]] = Absent
    /\ job.pc \in Finishing => \A t \in Elements(job.todo) : t \in job.had /\ backup[t] # Absent

\* What a rollback has put back, or damaged.
UndoneOrHarmed ==
    /\ job.pc \in {"undo_remove", "undo_restore"} =>
        \A i \in 1 .. Len(job.todo) :
            job.todo[i] \in job.moved /\ (job.pc = "undo_restore" => i <= job.at)
            => backup[job.todo[i]] # Absent
    /\ job.pc = "undo_restore" =>
        \A i \in job.at + 1 .. Len(job.todo) :
            backup[job.todo[i]] = Absent \/ job.todo[i] \in harmed

\* A runtime of which only a tree that does not work is left had its last version
\* put aside.
AsideIsKept ==
    \A t \in Targets :
        /\ target[t] \in Nat \cup {Absent} \/ backup[t] \in Nat \/ t \in orphans
        /\ Replacing /\ t \in Elements(job.todo) =>
                backup[t] \in Nat \cup {Absent} \/ t \in orphans

UpdateInv ==
    /\ UpdateTypeOK
    /\ OneUpdate
    /\ UpdateFits
    /\ MacHasNative
    /\ StagedWorks
    /\ BackedUpFirst
    /\ UndoneOrHarmed
    /\ AsideIsKept
=============================================================================
