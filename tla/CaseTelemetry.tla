---------------------------- MODULE CaseTelemetry -----------------------------
(***************************************************************************)
(* The resource telemetry of one stage: the timeline of samples that the   *)
(* workload's thread ("main") and the sampler's thread ("clock") append to *)
(* (TelemetrySampler), its cutting into cases (CaseTelemetry), the spans   *)
(* that case energy is integrated over (power_block), and the privileged   *)
(* reader process of a RAPL counter, which the benchmark may not kill      *)
(* (RaplPowerSource).  A workload marks its pauses in one of three ways.   *)
(***************************************************************************)
EXTENDS Integers, Sequences

CONSTANTS
    Stages,       \* records [style, pauses, failures]: how the workload marks its
                  \* pauses, "image", "sustained" or "plain", how many the user
                  \* asks for, and bound: samples whose sensors fail
    MaxCases,     \* bound: cases of the stage
    MaxCalls,     \* bound: measured calls of a case
    MaxTicks      \* bound: samples of the sampler's thread

Styles == {"image", "sustained", "plain"}

ASSUME StagesAssumption == Stages \subseteq [style : Styles, pauses : Nat, failures : Nat]

Threads == {"main", "clock"}
Windows == {"idle", "model_load", "pause", "measured"}

VARIABLES
    stage,
    at,             \* where the workload's thread is
    case,           \* the case it works on, from 1
    calls,          \* measured calls of this case
    window, epoch,  \* _window, and how many times it was set
    samples,        \* _samples: [time, window, epoch]
    failed,         \* _failed_samples
    lock,           \* _capture_lock: a thread or "free"
    capture,        \* thread -> its step in capture()
    stamp,          \* thread -> its timestamp, and the window it read
    now,            \* time.monotonic(), counted in events that are told apart
    ticks,
    stopping, sampler,     \* _stop_event, and whether its thread runs
    cursor, failedCursor,
    blocks,         \* the finished cases: [from, to, failed]
    asked, pauses,  \* the user's pause, and how many were asked for
    sentinel,       \* the file the reader looks for
    reader,         \* the privileged reader process
    work, held      \* history: when a call was measured, [time, case, window],
                    \* and when a pause held the workload, [time, window]

timeline == <<window, epoch, samples, failed>>
capturing == <<lock, capture, stamp, now>>
cutting == <<cursor, failedCursor, blocks>>
thread == <<ticks, stopping, sampler>>
user == <<asked, pauses>>
rapl == <<sentinel, reader>>
history == <<work, held>>
progress == <<stage, case, calls>>
vars == <<at, progress, timeline, capturing, cutting, thread, user, rapl, history>>

NoStamp == [time |-> 0, window |-> "idle", epoch |-> 0]

Init ==
    /\ stage \in Stages
    /\ at = "new" /\ case = 1 /\ calls = 0
    /\ window = "idle" /\ epoch = 0 /\ samples = <<>> /\ failed = 0
    /\ lock = "free" /\ capture = [t \in Threads |-> "no"]
    /\ stamp = [t \in Threads |-> NoStamp] /\ now = 0
    /\ ticks = 0 /\ stopping = FALSE /\ sampler = FALSE
    /\ cursor = 0 /\ failedCursor = 0 /\ blocks = <<>>
    /\ asked = FALSE /\ pauses = 0
    /\ sentinel = FALSE /\ reader = "none"
    /\ work = {} /\ held = {}

-------------------------------------------------------------------------------
\* capture(), by either thread.

Free(t) == capture[t] = "no"
Ask(t) == capture' = [capture EXCEPT ![t] = "wait"]

\* A bug: the thread does not take the capture lock.
StampUnlocked(t) ==
    /\ capture[t] = "wait"
    /\ now' = now + 1
    /\ stamp' = [stamp EXCEPT ![t].time = now + 1]
    /\ capture' = [capture EXCEPT ![t] = "stamped"]
    /\ UNCHANGED <<at, progress, timeline, lock, cutting, thread, user, rapl, history>>

\* The capture lock is taken and the time read.
Stamp(t) ==
    /\ capture[t] = "wait" /\ lock = "free"
    /\ lock' = t
    /\ now' = now + 1
    /\ stamp' = [stamp EXCEPT ![t].time = now + 1]
    /\ capture' = [capture EXCEPT ![t] = "stamped"]
    /\ UNCHANGED <<at, progress, timeline, cutting, thread, user, rapl, history>>

\* The window is read under the sampler's lock.
ReadWindow(t) ==
    /\ capture[t] = "stamped"
    /\ stamp' = [stamp EXCEPT ![t].window = window, ![t].epoch = epoch]
    /\ capture' = [capture EXCEPT ![t] = "reading"]
    /\ UNCHANGED <<at, progress, timeline, lock, now, cutting, thread, user, rapl, history>>

\* The sensors answer, or fail and are counted; the sample is kept either way.
Keep(t) ==
    /\ capture[t] = "reading"
    /\ \E fails \in {0, 1} :
        /\ failed + fails <= stage.failures
        /\ failed' = failed + fails
    /\ samples' = Append(samples, stamp[t])
    /\ lock' = "free"
    /\ stamp' = [stamp EXCEPT ![t] = NoStamp]
    /\ capture' = [capture EXCEPT ![t] = "no"]
    /\ UNCHANGED <<at, progress, window, epoch, now, cutting, thread, user, rapl, history>>

-------------------------------------------------------------------------------
\* The workload's thread.

\* mark_window: the window is set, then a sample is taken.
Mark(name) ==
    /\ window' = name /\ epoch' = epoch + 1
    /\ Ask("main")
    /\ UNCHANGED <<samples, failed, lock, stamp, now>>

\* The sentinel, the reader (which may fail to start) and the thread start;
\* then idle is marked.  The cursors are reset after that.
Start ==
    /\ at = "new"
    /\ \E ok \in BOOLEAN :
        /\ sentinel' = ok
        /\ reader' = IF ok THEN "test" ELSE "gone"
    /\ sampler' = TRUE
    /\ Mark("idle")
    /\ at' = "ready"
    /\ UNCHANGED <<progress, ticks, stopping, cutting, user, history>>

BeginModelLoad ==
    /\ at = "ready" /\ Free("main") /\ window = "idle" /\ case <= MaxCases
    /\ Mark("model_load")
    /\ UNCHANGED <<at, progress, cutting, thread, user, rapl, history>>

\* An image run marks a pause before each call; the other workloads begin
\* the case's window once.
BeginMeasured ==
    /\ Free("main") /\ calls < MaxCalls
    /\ \/ at = "ready" /\ window = "model_load" /\ stage.style # "image"
       \/ at = "resumed"
    /\ Mark("measured")
    /\ at' = IF at = "resumed" THEN "measuring" ELSE "between"
    /\ UNCHANGED <<progress, cutting, thread, user, rapl, history>>

\* A measured call.
Call ==
    /\ at = "measuring" /\ Free("main") /\ calls < MaxCalls
    /\ now' = now + 1 /\ calls' = calls + 1
    /\ work' = work \cup {[time |-> now + 1, case |-> case, window |-> window]}
    /\ at' = "between"
    /\ UNCHANGED <<stage, case, timeline, lock, capture, stamp, cutting, thread, user,
                   rapl, held>>

\* Before a call: a pause is marked always, when one is asked for, or never.
MarksPause ==
    \/ stage.style = "image"
    \/ stage.style = "sustained" /\ asked

CheckPause ==
    /\ Free("main") /\ calls < MaxCalls
    /\ \/ at = "between"
       \/ at = "ready" /\ window = "model_load" /\ stage.style = "image"
    /\ IF MarksPause
       THEN at' = "pausing" /\ Ask("main")      \* the first half of begin_pause
       ELSE at' = "waiting" /\ UNCHANGED capture
    /\ UNCHANGED <<progress, timeline, lock, stamp, now, cutting, thread, user, rapl, history>>

MarkPause ==
    /\ at = "pausing" /\ Free("main")
    /\ Mark("pause")
    /\ at' = "waiting"
    /\ UNCHANGED <<progress, cutting, thread, user, rapl, history>>

\* wait_if_paused: a pause holds the workload until it is lifted, for at least
\* one poll of 0.2 s; the sampler's thread is taken not to stay that long
\* between reading the time and reading the window.
Hold ==
    /\ at = "waiting" /\ Free("main") /\ asked
    /\ capture["clock"] # "stamped"
    /\ now' = now + 1
    /\ held' = held \cup {[time |-> now + 1, window |-> window]}
    /\ at' = "held"
    /\ UNCHANGED <<progress, timeline, lock, capture, stamp, cutting, thread, user,
                   rapl, work>>

\* The workload goes on: an image run marks its call's window again, a
\* sustained one only when wait_if_paused says that it waited.
GoOn ==
    /\ at \in {"waiting", "held"} /\ Free("main") /\ ~asked
    /\ at' = IF stage.style = "image" \/ (stage.style = "sustained" /\ at = "held")
             THEN "resumed" ELSE "measuring"
    /\ UNCHANGED <<progress, timeline, capturing, cutting, thread, user, rapl, history>>

-------------------------------------------------------------------------------
\* finish_case.

\* A bug: the case ends without its last sample.
FinishUnsampled ==
    /\ at \in {"ready", "between"} /\ Free("main") /\ window # "idle"
    /\ at' = "finishing"
    /\ UNCHANGED <<progress, timeline, capturing, cutting, thread, user, rapl, history>>

\* The last sample of a case, also of one whose model failed to load.
FinishCase ==
    /\ at \in {"ready", "between"} /\ Free("main") /\ window # "idle"
    /\ Ask("main")
    /\ at' = "finishing"
    /\ UNCHANGED <<progress, timeline, lock, stamp, now, cutting, thread, user, rapl, history>>

\* The samples since the cursor are the case's.
Cut ==
    /\ at = "finishing" /\ Free("main")
    /\ blocks' = Append(blocks, [from |-> cursor + 1, to |-> Len(samples), failed |-> 0])
    /\ cursor' = Len(samples)
    /\ at' = "cut"
    /\ UNCHANGED <<progress, timeline, capturing, failedCursor, thread, user, rapl, history>>

\* The failures since the other cursor are the case's; the counter is read
\* again to move that cursor.
CountFailures ==
    /\ at = "cut"
    /\ blocks' = [blocks EXCEPT ![Len(blocks)].failed = failed - failedCursor]
    /\ at' = "counted"
    /\ UNCHANGED <<progress, timeline, capturing, cursor, failedCursor, thread, user,
                   rapl, history>>

MoveFailedCursor ==
    /\ at = "counted"
    /\ failedCursor' = failed
    /\ at' = "reported"
    /\ UNCHANGED <<progress, timeline, capturing, cursor, blocks, thread, user, rapl, history>>

MarkIdle ==
    /\ at = "reported"
    /\ Mark("idle")
    /\ case' = case + 1 /\ calls' = 0
    /\ at' = "ready"
    /\ UNCHANGED <<stage, cutting, thread, user, rapl, history>>

-------------------------------------------------------------------------------
\* The end of the stage, the sampler's thread, the user and the reader.

\* The stage ends, between cases or with an exception in one.
Stop ==
    /\ at \in {"ready", "between", "resumed"} /\ Free("main")
    /\ stopping' = TRUE
    /\ at' = "joining"
    /\ UNCHANGED <<progress, timeline, capturing, cutting, ticks, sampler, user, rapl,
                   history>>

\* A bug: the sentinel stays.
LeaveSentinel ==
    /\ at = "joining" /\ at' = "leaving"
    /\ UNCHANGED <<progress, timeline, capturing, cutting, thread, user, rapl, history>>

\* The thread has ended or the wait for it timed out; the sentinel is removed.
RemoveSentinel ==
    /\ at = "joining"
    /\ sentinel' = FALSE
    /\ at' = "leaving"
    /\ UNCHANGED <<progress, timeline, capturing, cutting, thread, user, reader, history>>

\* The reader has gone or is terminated after a timeout, which the benchmark
\* may not be allowed to do.
LeaveReader ==
    /\ at = "leaving"
    /\ \E refused \in BOOLEAN :
        reader' = IF refused THEN reader ELSE "gone"
    /\ at' = "stopped"
    /\ UNCHANGED <<progress, timeline, capturing, cutting, thread, user, sentinel, history>>

\* The process is killed, with its threads and all they know.
Die ==
    /\ at \notin {"new", "stopped", "dead"}
    /\ at' = "dead" /\ case' = 1 /\ calls' = 0
    /\ sampler' = FALSE /\ lock' = "free" /\ now' = 0 /\ ticks' = 0 /\ stopping' = FALSE
    /\ capture' = [t \in Threads |-> "no"] /\ stamp' = [t \in Threads |-> NoStamp]
    /\ window' = "idle" /\ epoch' = 0 /\ samples' = <<>> /\ failed' = 0
    /\ cursor' = 0 /\ failedCursor' = 0 /\ blocks' = <<>>
    /\ asked' = FALSE /\ work' = {} /\ held' = {}
    /\ UNCHANGED <<stage, pauses, rapl>>

Tick ==
    /\ sampler /\ ~stopping /\ Free("clock") /\ ticks < MaxTicks
    /\ ticks' = ticks + 1
    /\ Ask("clock")
    /\ UNCHANGED <<at, progress, timeline, lock, stamp, now, cutting, stopping, sampler,
                   user, rapl, history>>

EndThread ==
    /\ sampler /\ stopping /\ Free("clock")
    /\ sampler' = FALSE
    /\ UNCHANGED <<at, progress, timeline, capturing, cutting, ticks, stopping, user,
                   rapl, history>>

AskPause ==
    /\ ~asked /\ pauses < stage.pauses /\ at \notin {"new", "stopped", "dead"}
    /\ asked' = TRUE /\ pauses' = pauses + 1
    /\ UNCHANGED <<at, progress, timeline, capturing, cutting, thread, rapl, history>>

AskResume ==
    /\ asked
    /\ asked' = FALSE
    /\ UNCHANGED <<at, progress, timeline, capturing, cutting, thread, pauses, rapl, history>>

\* The reader's shell loop: the sentinel and the benchmark are looked for
\* before each reading; a reading fails when nobody is left to read the pipe.
ReaderTests ==
    /\ reader = "test"
    /\ \E reads \in BOOLEAN :
        reader' = IF reads /\ sentinel /\ at # "dead" THEN "sleep" ELSE "gone"
    /\ UNCHANGED <<at, progress, timeline, capturing, cutting, thread, user, sentinel, history>>

ReaderSleeps ==
    /\ reader = "sleep"
    /\ reader' = "test"
    /\ UNCHANGED <<at, progress, timeline, capturing, cutting, thread, user, sentinel, history>>

Reader == ReaderTests \/ ReaderSleeps

Capture(t) == Stamp(t) \/ ReadWindow(t) \/ Keep(t)

Workload ==
    \/ Start \/ BeginModelLoad \/ BeginMeasured \/ Call
    \/ CheckPause \/ MarkPause \/ Hold \/ GoOn
    \/ FinishCase \/ Cut \/ CountFailures \/ MoveFailedCursor \/ MarkIdle
    \/ Stop \/ RemoveSentinel \/ LeaveReader

Next ==
    \/ Workload \/ Die
    \/ \E t \in Threads : Capture(t)
    \/ Tick \/ EndThread
    \/ AskPause \/ AskResume
    \/ Reader

\* The reader is a process of its own: the system lets it run on.
Spec == Init /\ [][Next]_vars /\ WF_vars(Reader)

-------------------------------------------------------------------------------
\* What a case's energy is integrated over.

\* A bug: the measured samples of a case are integrated across what lies
\* between them.
JoinedAll(i, j) == samples[i].window = "measured" /\ samples[j].window = "measured"

\* Two samples are joined when every sample from one to the other is
\* measured, whatever its label.
Joined(i, j) == \A k \in i .. j : samples[k].window = "measured"

\* Two samples in one case, joined.
Integrated(i, j) ==
    \E b \in 1 .. Len(blocks) :
        blocks[b].from <= i /\ i < j /\ j <= blocks[b].to /\ Joined(i, j)

-------------------------------------------------------------------------------
Places == {"new", "ready", "between", "pausing", "waiting", "held", "resumed", "measuring",
           "finishing", "cut", "counted", "reported", "joining", "leaving", "stopped", "dead"}
Samples == [time : Nat, window : Windows, epoch : Nat]

\* The type of the state.
TypeOK ==
    /\ stage \in Stages
    /\ at \in Places /\ case \in Nat \ {0} /\ calls \in Nat
    /\ window \in Windows /\ epoch \in Nat /\ failed \in Nat
    /\ samples \in Seq(Samples)
    /\ lock \in Threads \cup {"free"}
    /\ capture \in [Threads -> {"no", "wait", "stamped", "reading"}]
    /\ stamp \in [Threads -> Samples]
    /\ now \in Nat /\ ticks \in Nat
    /\ stopping \in BOOLEAN /\ sampler \in BOOLEAN
    /\ cursor \in Nat /\ failedCursor \in Nat
    /\ blocks \in Seq([from : Nat, to : Nat, failed : Int])
    /\ asked \in BOOLEAN /\ pauses \in Nat
    /\ sentinel \in BOOLEAN /\ reader \in {"none", "test", "sleep", "gone"}
    /\ work \subseteq [time : Nat, case : Nat \ {0}, window : Windows]
    /\ held \subseteq [time : Nat, window : Windows]

\* The samples of both threads are kept in the order of their times and of
\* the windows they are labelled with: durations and integrals over
\* neighbours mean what they say.
TimelineIsOrdered ==
    \A i \in 1 .. Len(samples) - 1 :
        /\ samples[i].time < samples[i + 1].time
        /\ samples[i].epoch <= samples[i + 1].epoch

\* The pause h lies between two samples that a case integrates over.
Bridged(h) ==
    \E i, j \in 1 .. Len(samples) :
        samples[i].time < h.time /\ h.time < samples[j].time /\ Integrated(i, j)

\* Energy never bridges an unmeasured gap: what docs/workloads.md promises of
\* every workload (case_energy), and what holds of those that mark their pauses.
NoPauseIsIntegrated == \A h \in held : ~Bridged(h)

\* No pause that held the workload after begin_pause, and no pause of an image
\* run, lies between two samples that a case integrates over, whichever thread
\* took them and however late.
MarkedPausesAreNotIntegrated ==
    \A h \in held : h.window = "pause" \/ stage.style = "image" => ~Bridged(h)

\* Every call of a finished case that was made in the measured window lies
\* between two samples that the case integrates over, paused or not: no call's
\* energy is left out.  A soak test whose pause is lifted before it waits calls
\* in the window of the pause.
CallsAreCovered ==
    \A w \in work : w.window = "measured" /\ w.case <= Len(blocks) =>
        LET own == blocks[w.case].from .. blocks[w.case].to
        IN  \E i, j \in own :
                samples[i].time < w.time /\ w.time < samples[j].time /\ Joined(i, j)

-------------------------------------------------------------------------------
\* The inductive invariant behind these, in parts.

Busy(t) == capture[t] \in {"stamped", "reading"}

\* One thread captures at a time, later than every sample, in the window that
\* it has read; only the workload's thread sets the window, when it captures
\* nothing.
CaptureIsExclusive ==
    \A t \in Threads : Busy(t) <=> lock = t

TimesAreOrdered ==
    /\ \A i, j \in 1 .. Len(samples) : i < j => samples[i].time < samples[j].time
    /\ \A i \in 1 .. Len(samples) : samples[i].time <= now
    /\ \A t \in Threads : Busy(t) =>
          /\ stamp[t].time <= now
          /\ \A i \in 1 .. Len(samples) : samples[i].time < stamp[t].time

EpochsAreOrdered ==
    /\ \A i, j \in 1 .. Len(samples) : i < j => samples[i].epoch <= samples[j].epoch
    /\ \A i \in 1 .. Len(samples) : samples[i].epoch <= epoch
    /\ \A t \in Threads : capture[t] = "reading" =>
          /\ stamp[t].epoch <= epoch
          /\ \A i \in 1 .. Len(samples) : samples[i].epoch <= stamp[t].epoch

\* What is labelled with the present epoch is labelled with its window.
LabelsAgree ==
    /\ \A i \in 1 .. Len(samples) : samples[i].epoch = epoch => samples[i].window = window
    /\ \A t \in Threads :
          capture[t] = "reading" /\ stamp[t].epoch = epoch => stamp[t].window = window

\* After mark_window there is a sample of the new window.
MarksAreSampled ==
    /\ epoch > 0 /\ Free("main") =>
          samples # <<>> /\ samples[Len(samples)].epoch = epoch
    /\ capture["main"] = "reading" => stamp["main"].epoch = epoch

\* Nothing is captured for the workload while a case is cut, and nothing at all
\* before the telemetry starts and after the process died.
CapturesFitPlace ==
    /\ at \in {"cut", "counted", "reported"} => Free("main")
    /\ at \in {"new", "dead"} =>
          ~sampler /\ epoch = 0 /\ capture = [t \in Threads |-> "no"]
    /\ at \notin {"new", "dead"} => epoch > 0

OrderInv == /\ CaptureIsExclusive /\ TimesAreOrdered /\ EpochsAreOrdered
            /\ LabelsAgree /\ MarksAreSampled /\ CapturesFitPlace

\* An image run waits in the window of the pause that it marked.
WindowFitsPlace ==
    stage.style = "image" =>
        /\ at \in {"waiting", "held"} => window = "pause"
        /\ \A h \in held : h.window = "pause"

\* When the marked pauses held the workload.
Marked == {h.time : h \in {x \in held : x.window = "pause"}}

PauseSampled(i, h) ==
    \E k \in i .. Len(samples) : samples[k].time < h /\ samples[k].window = "pause"

\* What was sampled last before a marked pause held the workload is a pause.
HoldsAreMarked ==
    \A h \in Marked :
        /\ h <= now
        /\ \A t \in Threads :
              /\ capture[t] = "stamped" => stamp[t].time > h
              /\ capture[t] = "reading" => stamp[t].time > h \/ stamp[t].window = "pause"
        /\ \A i \in 1 .. Len(samples) : samples[i].time < h => PauseSampled(i, h)

PauseInv == WindowFitsPlace /\ HoldsAreMarked

Covered(w, own) ==
    \E i, j \in own : samples[i].time < w.time /\ w.time < samples[j].time /\ Joined(i, j)

\* The samples of the case under way, and a call of it that is still measured:
\* everything sampled since before it, and what is being sampled, is measured.
Cutting == at \in {"cut", "counted", "reported"}
Own == cursor + 1 .. Len(samples)
MeasuredFrom(i) ==
    /\ \A k \in i .. Len(samples) : samples[k].window = "measured"
    /\ \A t \in Threads : capture[t] = "reading" => stamp[t].window = "measured"
Open(w) == /\ window = "measured"
           /\ \E i \in Own : samples[i].time < w.time /\ MeasuredFrom(i)

\* Before a pause is marked, and before the case is cut, every call has a
\* sample after it.
Closed == at \in {"pausing", "finishing"} /\ Free("main")

CutsFit ==
    /\ cursor <= Len(samples)
    /\ Len(blocks) = IF Cutting THEN case ELSE case - 1
    /\ \A b \in 1 .. Len(blocks) : 1 <= blocks[b].from /\ blocks[b].to <= cursor
    /\ ~Cutting => \A i \in 1 .. cursor : samples[i].epoch < epoch

WorkIsPast ==
    /\ \A w \in work : w.time <= now /\ w.case <= case
    /\ at \in {"new", "ready"} => \A w \in work : w.case < case
    /\ Busy("main") => \A w \in work : w.time < stamp["main"].time

OwnCallsAreCovered ==
    ~Cutting =>
        \A w \in work : w.window = "measured" /\ w.case = case =>
            Covered(w, Own) \/ (~Closed /\ Open(w))

CoverInv == CutsFit /\ WorkIsPast /\ OwnCallsAreCovered /\ CallsAreCovered

\* Once the stage's telemetry stopped or its process died, the privileged
\* reader ends by itself.
ReaderGoes == (at \in {"stopped", "dead"}) ~> (reader \in {"none", "gone"})
===============================================================================
