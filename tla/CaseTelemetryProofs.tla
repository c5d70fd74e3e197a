------------------------- MODULE CaseTelemetryProofs --------------------------
(***************************************************************************)
(* The timeline of a stage is in order, its integrals bridge no pause that *)
(* was marked, and every call is covered, for any workload and number of   *)
(* pauses, cases, calls, samples of the sampler's thread and failures.     *)
(***************************************************************************)
EXTENDS CaseTelemetry, SequenceTheorems, TLAPS

-------------------------------------------------------------------------------
(***************************************************************************)
(* Type correctness.                                                       *)
(***************************************************************************)

LEMMA TelemetryTypeInit == Init => TypeOK
<1> SUFFICES ASSUME Init PROVE TypeOK
  OBVIOUS
<1>1. <<>> \in Seq(Samples) /\ <<>> \in Seq([from : Nat, to : Nat, failed : Int])
  OBVIOUS
<1>2. stopping \in BOOLEAN /\ sampler \in BOOLEAN /\ asked \in BOOLEAN /\ sentinel \in BOOLEAN
  BY Zenon DEF Init
<1>3. NoStamp \in Samples
  BY DEF NoStamp, Samples, Windows
<1>4. stamp \in [Threads -> Samples] /\ capture \in [Threads -> {"no", "wait", "stamped", "reading"}]
  BY <1>3 DEF Init
<1> QED
  BY <1>1, <1>2, <1>4 DEF Init, TypeOK, Places, Windows

LEMMA AskKeepsType ==
    ASSUME TypeOK, NEW t \in Threads, Ask(t)
    PROVE  capture' \in [Threads -> {"no", "wait", "stamped", "reading"}]
BY DEF TypeOK, Ask

LEMMA MarkKeepsType ==
    ASSUME TypeOK, NEW name \in Windows, Mark(name)
    PROVE  /\ window' \in Windows /\ epoch' \in Nat
           /\ capture' \in [Threads -> {"no", "wait", "stamped", "reading"}]
           /\ UNCHANGED <<samples, failed, lock, stamp, now>>
<1>1. capture' \in [Threads -> {"no", "wait", "stamped", "reading"}]
  BY AskKeepsType DEF Mark, Threads
<1> QED
  BY <1>1 DEF Mark, TypeOK

LEMMA CaptureKeepsType ==
    ASSUME TypeOK, NEW t \in Threads, Capture(t)
    PROVE  TypeOK'
<1>1. CASE Stamp(t)
  <2>1. stamp' \in [Threads -> Samples]
    <3>1. stamp[t] \in Samples /\ now + 1 \in Nat
      BY DEF TypeOK
    <3>2. [stamp[t] EXCEPT !.time = now + 1] \in Samples
      BY <3>1 DEF Samples
    <3> QED
      BY <1>1, <3>2 DEF Stamp, TypeOK
  <2>2. capture' \in [Threads -> {"no", "wait", "stamped", "reading"}]
    BY <1>1 DEF Stamp, TypeOK
  <2>3. lock' \in Threads \cup {"free"} /\ now' \in Nat
    BY <1>1 DEF Stamp, TypeOK
  <2> QED
    BY <1>1, <2>1, <2>2, <2>3
       DEF Stamp, TypeOK, progress, timeline, cutting, thread, user, rapl, history
<1>2. CASE ReadWindow(t)
  <2>1. stamp' \in [Threads -> Samples]
    BY <1>2 DEF ReadWindow, TypeOK, Samples
  <2>2. capture' \in [Threads -> {"no", "wait", "stamped", "reading"}]
    BY <1>2 DEF ReadWindow, TypeOK
  <2> QED
    BY <1>2, <2>1, <2>2
       DEF ReadWindow, TypeOK, progress, timeline, cutting, thread, user, rapl, history
<1>3. CASE Keep(t)
  <2>1. stamp' \in [Threads -> Samples]
    BY <1>3 DEF Keep, TypeOK, Samples, NoStamp, Windows
  <2>2. capture' \in [Threads -> {"no", "wait", "stamped", "reading"}]
    BY <1>3 DEF Keep, TypeOK
  <2>3. samples' \in Seq(Samples)
    <3>1. stamp[t] \in Samples
      BY DEF TypeOK
    <3> QED
      BY <1>3, <3>1, AppendProperties DEF Keep, TypeOK
  <2>4. lock' \in Threads \cup {"free"} /\ failed' \in Nat
    BY <1>3 DEF Keep, TypeOK
  <2> QED
    BY <1>3, <2>1, <2>2, <2>3, <2>4
       DEF Keep, TypeOK, progress, cutting, thread, user, rapl, history
<1> QED
  BY <1>1, <1>2, <1>3 DEF Capture

\* The workload's thread, one step per action.
LEMMA WorkloadKeepsType ==
    ASSUME TypeOK, Workload
    PROVE  TypeOK'
<1> USE DEF Places
<1>0. "idle" \in Windows /\ "model_load" \in Windows /\ "pause" \in Windows
      /\ "measured" \in Windows /\ "main" \in Threads
  BY DEF Windows, Threads
<1>1. CASE Start
  <2>1. sentinel' \in BOOLEAN /\ reader' \in {"none", "test", "sleep", "gone"}
        /\ sampler' \in BOOLEAN
    BY <1>1, Zenon DEF Start
  <2>2. Mark("idle")
    BY <1>1 DEF Start
  <2> QED
    BY <1>0, <1>1, <2>1, <2>2, MarkKeepsType
       DEF Start, TypeOK, progress, cutting, user, history
<1>2. CASE BeginModelLoad
  BY <1>0, <1>2, MarkKeepsType
     DEF BeginModelLoad, TypeOK, progress, cutting, thread, user, rapl, history
<1>3. CASE BeginMeasured
  BY <1>0, <1>3, MarkKeepsType
     DEF BeginMeasured, TypeOK, progress, cutting, thread, user, rapl, history
<1>4. CASE Call
  BY <1>4 DEF Call, TypeOK, timeline, cutting, thread, user, rapl
<1>5. CASE CheckPause
  <2>1. capture' \in [Threads -> {"no", "wait", "stamped", "reading"}]
    BY <1>0, <1>5, AskKeepsType DEF CheckPause, TypeOK
  <2> QED
    BY <1>5, <2>1 DEF CheckPause, TypeOK, progress, timeline, cutting, thread, user, rapl, history
<1>6. CASE MarkPause
  BY <1>0, <1>6, MarkKeepsType
     DEF MarkPause, TypeOK, progress, cutting, thread, user, rapl, history
<1>7. CASE Hold
  BY <1>7 DEF Hold, TypeOK, progress, timeline, cutting, thread, user, rapl
<1>8. CASE GoOn
  BY <1>8 DEF GoOn, TypeOK, progress, timeline, capturing, cutting, thread, user, rapl, history
<1>9. CASE FinishCase
  <2>1. capture' \in [Threads -> {"no", "wait", "stamped", "reading"}]
    BY <1>0, <1>9, AskKeepsType DEF FinishCase
  <2> QED
    BY <1>9, <2>1 DEF FinishCase, TypeOK, progress, timeline, cutting, thread, user, rapl, history
<1>10. CASE Cut
  <2>1. Len(samples) \in Nat
    BY DEF TypeOK
  <2>2. blocks' \in Seq([from : Nat, to : Nat, failed : Int])
    BY <1>10, <2>1 DEF Cut, TypeOK
  <2> QED
    BY <1>10, <2>1, <2>2
       DEF Cut, TypeOK, progress, timeline, capturing, thread, user, rapl, history
<1>11. CASE CountFailures
  <2>1. blocks' \in Seq([from : Nat, to : Nat, failed : Int])
    <3> DEFINE Blocks == [from : Nat, to : Nat, failed : Int]
               last == Len(blocks)
               e == [blocks[last] EXCEPT !.failed = failed - failedCursor]
    <3>1. failed - failedCursor \in Int /\ blocks \in Seq(Blocks) /\ last \in Nat
      BY DEF TypeOK
    <3>2. blocks' = [blocks EXCEPT ![last] = e]
      BY <1>11 DEF CountFailures
    <3> HIDE DEF Blocks, e
    <3>3. CASE last = 0
      <4>1. blocks \in [1 .. 0 -> Blocks] /\ 0 \notin 1 .. 0
        BY <3>1, <3>3, LenProperties
      <4>2. blocks' \in [1 .. 0 -> Blocks]
        BY <3>2, <3>3, <4>1
      <4> QED
        BY <4>2, SeqDef DEF Blocks
    <3>4. CASE last # 0
      <4>1. last \in 1 .. Len(blocks)
        BY <3>1, <3>4
      <4>2. blocks[last] \in Blocks
        BY <3>1, <4>1, ElementOfSeq
      <4>3. e \in Blocks
        BY <3>1, <4>2 DEF e, Blocks
      <4>4. blocks' \in Seq(Blocks)
        BY <3>1, <3>2, <4>1, <4>3, ExceptSeq
      <4> QED
        BY <4>4 DEF Blocks
    <3> QED
      BY <3>3, <3>4
  <2> QED
    BY <1>11, <2>1
       DEF CountFailures, TypeOK, progress, timeline, capturing, thread, user, rapl, history
<1>12. CASE MoveFailedCursor
  BY <1>12 DEF MoveFailedCursor, TypeOK, progress, timeline, capturing, thread, user, rapl, history
<1>13. CASE MarkIdle
  BY <1>0, <1>13, MarkKeepsType
     DEF MarkIdle, TypeOK, cutting, thread, user, rapl, history
<1>14. CASE Stop
  <2>1. stopping' \in BOOLEAN
    BY <1>14, Zenon DEF Stop
  <2> QED
    BY <1>14, <2>1 DEF Stop, TypeOK, progress, timeline, capturing, cutting, user, rapl, history
<1>15. CASE RemoveSentinel
  <2>1. sentinel' \in BOOLEAN
    BY <1>15, Zenon DEF RemoveSentinel
  <2> QED
    BY <1>15, <2>1
       DEF RemoveSentinel, TypeOK, progress, timeline, capturing, cutting, thread, user, history
<1>16. CASE LeaveReader
  BY <1>16 DEF LeaveReader, TypeOK, progress, timeline, capturing, cutting, thread, user, history
<1> QED
  BY <1>1, <1>2, <1>3, <1>4, <1>5, <1>6, <1>7, <1>8, <1>9, <1>10, <1>11, <1>12, <1>13,
     <1>14, <1>15, <1>16 DEF Workload

LEMMA TelemetryTypeStep ==
    ASSUME TypeOK, [Next]_vars
    PROVE  TypeOK'
<1>1. CASE Workload
  BY <1>1, WorkloadKeepsType
<1>2. CASE \E t \in Threads : Capture(t)
  BY <1>2, CaptureKeepsType
<1>3. CASE Die
  <2>1. /\ sampler' \in BOOLEAN /\ stopping' \in BOOLEAN /\ asked' \in BOOLEAN
    BY <1>3, Zenon DEF Die
  <2>2. stamp' \in [Threads -> Samples]
        /\ capture' \in [Threads -> {"no", "wait", "stamped", "reading"}]
    BY <1>3 DEF Die, NoStamp, Samples, Windows
  <2>3. samples' \in Seq(Samples) /\ blocks' \in Seq([from : Nat, to : Nat, failed : Int])
    BY <1>3 DEF Die
  <2> QED
    BY <1>3, <2>1, <2>2, <2>3 DEF Die, TypeOK, Places, Windows, rapl
<1>4. CASE Tick
  <2>1. capture' \in [Threads -> {"no", "wait", "stamped", "reading"}]
    BY <1>4, AskKeepsType DEF Tick, Threads
  <2> QED
    BY <1>4, <2>1 DEF Tick, TypeOK, progress, timeline, cutting, user, rapl, history
<1>5. CASE EndThread
  <2>1. sampler' \in BOOLEAN
    BY <1>5, Zenon DEF EndThread
  <2> QED
    BY <1>5, <2>1 DEF EndThread, TypeOK, progress, timeline, capturing, cutting, user, rapl, history
<1>6. CASE AskPause
  <2>1. asked' \in BOOLEAN
    BY <1>6, Zenon DEF AskPause
  <2> QED
    BY <1>6, <2>1 DEF AskPause, TypeOK, progress, timeline, capturing, cutting, thread, rapl, history
<1>7. CASE AskResume
  <2>1. asked' \in BOOLEAN
    BY <1>7, Zenon DEF AskResume
  <2> QED
    BY <1>7, <2>1
       DEF AskResume, TypeOK, progress, timeline, capturing, cutting, thread, rapl, history
<1>8. CASE Reader
  BY <1>8 DEF Reader, ReaderTests, ReaderSleeps, TypeOK, progress, timeline, capturing, cutting,
              thread, user, history
<1>9. CASE UNCHANGED vars
  BY <1>9 DEF vars, TypeOK, progress, timeline, capturing, cutting, thread, user, rapl, history
<1> QED
  BY <1>1, <1>2, <1>3, <1>4, <1>5, <1>6, <1>7, <1>8, <1>9 DEF Next

\* Every variable keeps its type, whatever the stages, cases, calls and samples.
THEOREM TelemetryTypeCorrect == Spec => []TypeOK
BY TelemetryTypeInit, TelemetryTypeStep, PTL DEF Spec

-------------------------------------------------------------------------------
(***************************************************************************)
(* The order of the timeline.  To the state that captures and windows make *)
(* up, every step is one of a few kinds.                                   *)
(***************************************************************************)
captured == <<window, epoch, samples, lock, capture, stamp, now>>

\* Time passes; a thread asks for a sample; the workload sets the window.
Passes == now' = now + 1 /\ UNCHANGED <<window, epoch, samples, lock, capture, stamp>>
Asks(t) == Free(t) /\ Ask(t) /\ UNCHANGED <<window, epoch, samples, lock, stamp, now>>
Marks == /\ Free("main") /\ Ask("main")
         /\ window' \in Windows /\ epoch' = epoch + 1
         /\ UNCHANGED <<samples, lock, stamp, now>>

Steps == \/ UNCHANGED captured \/ Passes \/ Marks \/ Die
         \/ \E t \in Threads : Asks(t) \/ Stamp(t) \/ ReadWindow(t) \/ Keep(t)

LEMMA MarkMarks ==
    ASSUME NEW name \in Windows, Free("main"), Mark(name)
    PROVE  Marks
BY DEF Mark, Marks

LEMMA WorkloadSteps ==
    ASSUME TypeOK, CapturesFitPlace, Workload
    PROVE  Steps
<1>0. "idle" \in Windows /\ "model_load" \in Windows /\ "pause" \in Windows
      /\ "measured" \in Windows /\ "main" \in Threads
  BY DEF Windows, Threads
<1>1. CASE Start
  <2>1. Free("main")
    BY <1>0, <1>1 DEF Start, CapturesFitPlace, Free
  <2> QED
    BY <1>0, <1>1, <2>1, MarkMarks DEF Start, Steps
<1>2. CASE BeginModelLoad
  BY <1>0, <1>2, MarkMarks DEF BeginModelLoad, Steps
<1>3. CASE BeginMeasured
  BY <1>0, <1>3, MarkMarks DEF BeginMeasured, Steps
<1>4. CASE Call
  BY <1>4 DEF Call, Passes, Steps, timeline
<1>5. CASE CheckPause
  BY <1>0, <1>5 DEF CheckPause, Asks, Steps, timeline, captured
<1>6. CASE MarkPause
  BY <1>0, <1>6, MarkMarks DEF MarkPause, Steps
<1>7. CASE Hold
  BY <1>7 DEF Hold, Passes, Steps, timeline
<1>8. CASE GoOn
  BY <1>8 DEF GoOn, Steps, captured, timeline, capturing
<1>9. CASE FinishCase
  BY <1>0, <1>9 DEF FinishCase, Asks, Steps, timeline
<1>10. CASE Cut \/ CountFailures \/ MoveFailedCursor
  BY <1>10 DEF Cut, CountFailures, MoveFailedCursor, Steps, captured, timeline, capturing
<1>11. CASE MarkIdle
  <2>1. Free("main")
    BY <1>11 DEF MarkIdle, CapturesFitPlace
  <2> QED
    BY <1>0, <1>11, <2>1, MarkMarks DEF MarkIdle, Steps
<1>12. CASE Stop \/ RemoveSentinel \/ LeaveReader
  BY <1>12 DEF Stop, RemoveSentinel, LeaveReader, Steps, captured, timeline, capturing
<1> QED
  BY <1>1, <1>2, <1>3, <1>4, <1>5, <1>6, <1>7, <1>8, <1>9, <1>10, <1>11, <1>12 DEF Workload

LEMMA EveryStepIsOfAKind ==
    ASSUME TypeOK, CapturesFitPlace, [Next]_vars
    PROVE  Steps
<1>1. CASE Workload
  BY <1>1, WorkloadSteps
<1>2. CASE \E t \in Threads : Capture(t)
  BY <1>2 DEF Capture, Steps
<1>3. CASE Die
  BY <1>3 DEF Steps
<1>4. CASE Tick
  BY <1>4 DEF Tick, Asks, Steps, Threads, timeline
<1>5. CASE EndThread \/ AskPause \/ AskResume \/ Reader
  BY <1>5 DEF EndThread, AskPause, AskResume, Reader, ReaderTests, ReaderSleeps,
              Steps, captured, timeline, capturing
<1>6. CASE UNCHANGED vars
  BY <1>6 DEF vars, Steps, captured, timeline, capturing
<1> QED
  BY <1>1, <1>2, <1>3, <1>4, <1>5, <1>6 DEF Next

\* What an appended sample leaves alone, and where it is.
LEMMA KeptLast ==
    ASSUME TypeOK, NEW t \in Threads, Keep(t)
    PROVE  /\ Len(samples) \in Nat /\ Len(samples') = Len(samples) + 1
           /\ samples'[Len(samples) + 1] = stamp[t]
           /\ \A i \in 1 .. Len(samples) : samples'[i] = samples[i]
<1>1. samples \in Seq(Samples) /\ stamp[t] \in Samples
  BY DEF TypeOK
<1>2. samples' = Append(samples, stamp[t])
  BY DEF Keep
<1> QED
  BY <1>1, <1>2, AppendProperties

LEMMA KeptOrOld ==
    ASSUME TypeOK, NEW t \in Threads, Keep(t), NEW i \in 1 .. Len(samples')
    PROVE  \/ i \in 1 .. Len(samples) /\ samples'[i] = samples[i]
           \/ i = Len(samples) + 1 /\ samples'[i] = stamp[t]
BY KeptLast

\* A sample is of numbers.
LEMMA SamplesAreNumbered ==
    ASSUME TypeOK
    PROVE  /\ Len(samples) \in Nat
           /\ \A i \in 1 .. Len(samples) :
                 samples[i].time \in Nat /\ samples[i].epoch \in Nat
           /\ \A t \in Threads : stamp[t].time \in Nat /\ stamp[t].epoch \in Nat
           /\ now \in Nat /\ epoch \in Nat
<1>1. samples \in Seq(Samples)
  BY DEF TypeOK
<1>2. \A i \in 1 .. Len(samples) : samples[i] \in Samples
  BY <1>1, ElementOfSeq
<1> QED
  BY <1>1, <1>2 DEF TypeOK, Samples

LEMMA OrderInit == Init => OrderInv
BY DEF Init, OrderInv, CaptureIsExclusive, TimesAreOrdered, EpochsAreOrdered, LabelsAgree,
       MarksAreSampled, CapturesFitPlace, Busy, Free, Threads

LEMMA ExclusiveStep ==
    ASSUME TypeOK, CaptureIsExclusive, Steps
    PROVE  CaptureIsExclusive'
<1> USE DEF CaptureIsExclusive, Busy, Threads
<1>1. CASE UNCHANGED captured \/ Passes
  BY <1>1 DEF captured, Passes
<1>2. CASE Marks \/ (\E t \in Threads : Asks(t))
  BY <1>2 DEF Marks, Asks, Ask, Free, TypeOK
<1>3. CASE Die
  BY <1>3 DEF Die
<1>4. ASSUME NEW t \in Threads, Stamp(t) \/ ReadWindow(t) \/ Keep(t)
      PROVE  CaptureIsExclusive'
  BY <1>4 DEF Stamp, ReadWindow, Keep, TypeOK
<1> QED
  BY <1>1, <1>2, <1>3, <1>4 DEF Steps

LEMMA TimesStep ==
    ASSUME TypeOK, CaptureIsExclusive, TimesAreOrdered, Steps
    PROVE  TimesAreOrdered'
<1> USE SamplesAreNumbered DEF TimesAreOrdered
<1>1. CASE UNCHANGED captured \/ Passes
  BY <1>1 DEF captured, Passes, Busy
<1>2. CASE Marks \/ (\E t \in Threads : Asks(t))
  BY <1>2 DEF Marks, Asks, Ask, Free, Busy, Threads, TypeOK
<1>3. CASE Die
  BY <1>3 DEF Die, Busy
<1>4. ASSUME NEW t \in Threads, Stamp(t)
      PROVE  TimesAreOrdered'
  <2>1. samples' = samples /\ now' = now + 1 /\ stamp'[t].time = now + 1
    BY <1>4 DEF Stamp, TypeOK, timeline, Samples
  <2>2. \A u \in Threads \ {t} : ~Busy(u)'
    BY <1>4 DEF Stamp, CaptureIsExclusive, Busy, TypeOK, Threads
  <2> QED
    BY <2>1, <2>2
<1>5. ASSUME NEW t \in Threads, ReadWindow(t)
      PROVE  TimesAreOrdered'
  <2>1. samples' = samples /\ now' = now
    BY <1>5 DEF ReadWindow, timeline
  <2>2. \A u \in Threads : stamp'[u].time = stamp[u].time /\ (Busy(u)' <=> Busy(u))
    BY <1>5 DEF ReadWindow, TypeOK, Busy, Samples
  <2> QED
    BY <2>1, <2>2
<1>6. ASSUME NEW t \in Threads, Keep(t)
      PROVE  TimesAreOrdered'
  <2>1. now' = now /\ \A u \in Threads : ~Busy(u)'
    BY <1>6 DEF Keep, CaptureIsExclusive, Busy, TypeOK, Threads
  <2>2. Busy(t)
    BY <1>6 DEF Keep, Busy
  <2>3. stamp[t].time <= now /\ \A i \in 1 .. Len(samples) : samples[i].time < stamp[t].time
    BY <2>2
  <2>4. \A i, j \in 1 .. Len(samples') : i < j => samples'[i].time < samples'[j].time
    <3> SUFFICES ASSUME NEW i \in 1 .. Len(samples'), NEW j \in 1 .. Len(samples'), i < j
                 PROVE  samples'[i].time < samples'[j].time
      OBVIOUS
    <3>1. i \in 1 .. Len(samples) /\ samples'[i] = samples[i]
      BY <1>6, KeptLast
    <3>2. \/ j \in 1 .. Len(samples) /\ samples'[j] = samples[j]
          \/ samples'[j] = stamp[t]
      BY <1>6, KeptOrOld
    <3> QED
      BY <2>3, <3>1, <3>2
  <2>5. \A i \in 1 .. Len(samples') : samples'[i].time <= now
    BY <1>6, <2>3, KeptOrOld
  <2> QED
    BY <2>1, <2>4, <2>5
<1> QED
  BY <1>1, <1>2, <1>3, <1>4, <1>5, <1>6 DEF Steps

LEMMA EpochsStep ==
    ASSUME TypeOK, CaptureIsExclusive, EpochsAreOrdered, Steps
    PROVE  EpochsAreOrdered'
<1> USE SamplesAreNumbered DEF EpochsAreOrdered
<1>1. CASE UNCHANGED captured \/ Passes
  BY <1>1 DEF captured, Passes
<1>2. CASE \E t \in Threads : Asks(t)
  BY <1>2 DEF Asks, Ask, Free, Threads, TypeOK
<1>3. CASE Marks
  BY <1>3 DEF Marks, Ask, Free, Threads, TypeOK
<1>4. CASE Die
  BY <1>4 DEF Die
<1>5. ASSUME NEW t \in Threads, Stamp(t)
      PROVE  EpochsAreOrdered'
  <2>1. samples' = samples /\ epoch' = epoch
    BY <1>5 DEF Stamp, timeline
  <2>2. \A u \in Threads : capture'[u] = "reading" =>
          capture[u] = "reading" /\ stamp'[u] = stamp[u]
    BY <1>5 DEF Stamp, TypeOK
  <2> QED
    BY <2>1, <2>2
<1>6. ASSUME NEW t \in Threads, ReadWindow(t)
      PROVE  EpochsAreOrdered'
  <2>1. samples' = samples /\ epoch' = epoch /\ stamp'[t].epoch = epoch
    BY <1>6 DEF ReadWindow, timeline, TypeOK, Samples
  <2>2. \A u \in Threads \ {t} : capture'[u] = "reading" =>
          capture[u] = "reading" /\ stamp'[u] = stamp[u]
    BY <1>6 DEF ReadWindow, TypeOK
  <2> QED
    BY <2>1, <2>2
<1>7. ASSUME NEW t \in Threads, Keep(t)
      PROVE  EpochsAreOrdered'
  <2>1. epoch' = epoch /\ \A u \in Threads : capture'[u] # "reading"
    BY <1>7 DEF Keep, CaptureIsExclusive, Busy, TypeOK, Threads
  <2>2. capture[t] = "reading"
    BY <1>7 DEF Keep
  <2>3. stamp[t].epoch <= epoch
        /\ \A i \in 1 .. Len(samples) : samples[i].epoch <= stamp[t].epoch
    BY <2>2
  <2>4. \A i, j \in 1 .. Len(samples') : i < j => samples'[i].epoch <= samples'[j].epoch
    <3> SUFFICES ASSUME NEW i \in 1 .. Len(samples'), NEW j \in 1 .. Len(samples'), i < j
                 PROVE  samples'[i].epoch <= samples'[j].epoch
      OBVIOUS
    <3>1. i \in 1 .. Len(samples) /\ samples'[i] = samples[i]
      BY <1>7, KeptLast
    <3>2. \/ j \in 1 .. Len(samples) /\ samples'[j] = samples[j]
          \/ samples'[j] = stamp[t]
      BY <1>7, KeptOrOld
    <3> QED
      BY <2>3, <3>1, <3>2
  <2>5. \A i \in 1 .. Len(samples') : samples'[i].epoch <= epoch
    BY <1>7, <2>3, KeptOrOld
  <2> QED
    BY <2>1, <2>4, <2>5
<1> QED
  BY <1>1, <1>2, <1>3, <1>4, <1>5, <1>6, <1>7 DEF Steps

LEMMA LabelsStep ==
    ASSUME TypeOK, CaptureIsExclusive, EpochsAreOrdered, LabelsAgree, Steps
    PROVE  LabelsAgree'
<1> USE SamplesAreNumbered DEF LabelsAgree
<1>1. CASE UNCHANGED captured \/ Passes
  BY <1>1 DEF captured, Passes
<1>2. CASE \E t \in Threads : Asks(t)
  BY <1>2 DEF Asks, Ask, Free, Threads, TypeOK
<1>3. CASE Marks
  <2>1. \A i \in 1 .. Len(samples) : samples[i].epoch < epoch'
    BY <1>3 DEF Marks, EpochsAreOrdered
  <2>2. \A u \in Threads : capture'[u] = "reading" => stamp'[u].epoch < epoch'
    BY <1>3 DEF Marks, EpochsAreOrdered, Ask, TypeOK, Threads
  <2>3. samples' = samples
    BY <1>3 DEF Marks
  <2>4. epoch' \in Nat /\ \A u \in Threads : stamp'[u].epoch \in Nat
    BY <1>3 DEF Marks
  <2> QED
    BY <2>1, <2>2, <2>3, <2>4
<1>4. CASE Die
  BY <1>4 DEF Die
<1>5. ASSUME NEW t \in Threads, Stamp(t)
      PROVE  LabelsAgree'
  <2>1. samples' = samples /\ epoch' = epoch /\ window' = window
    BY <1>5 DEF Stamp, timeline
  <2>2. \A u \in Threads : capture'[u] = "reading" =>
          capture[u] = "reading" /\ stamp'[u] = stamp[u]
    BY <1>5 DEF Stamp, TypeOK
  <2> QED
    BY <2>1, <2>2
<1>6. ASSUME NEW t \in Threads, ReadWindow(t)
      PROVE  LabelsAgree'
  <2>1. samples' = samples /\ epoch' = epoch /\ window' = window /\ stamp'[t].window = window
    BY <1>6 DEF ReadWindow, timeline, TypeOK, Samples
  <2>2. \A u \in Threads \ {t} : capture'[u] = "reading" =>
          capture[u] = "reading" /\ stamp'[u] = stamp[u]
    BY <1>6 DEF ReadWindow, TypeOK
  <2> QED
    BY <2>1, <2>2
<1>7. ASSUME NEW t \in Threads, Keep(t)
      PROVE  LabelsAgree'
  <2>1. epoch' = epoch /\ window' = window /\ \A u \in Threads : capture'[u] # "reading"
    BY <1>7 DEF Keep, CaptureIsExclusive, Busy, TypeOK, Threads
  <2>2. capture[t] = "reading"
    BY <1>7 DEF Keep
  <2> QED
    BY <1>7, <2>1, <2>2, KeptLast
<1> QED
  BY <1>1, <1>2, <1>3, <1>4, <1>5, <1>6, <1>7 DEF Steps

LEMMA MarksStep ==
    ASSUME TypeOK, CaptureIsExclusive, EpochsAreOrdered, MarksAreSampled, Steps
    PROVE  MarksAreSampled'
<1> USE SamplesAreNumbered DEF MarksAreSampled, Free
<1>1. CASE UNCHANGED captured \/ Passes
  BY <1>1 DEF captured, Passes
<1>2. CASE \E t \in Threads : Asks(t)
  BY <1>2 DEF Asks, Ask, Free, Threads, TypeOK
<1>3. CASE Marks
  BY <1>3 DEF Marks, Ask, Threads, TypeOK
<1>4. CASE Die
  BY <1>4 DEF Die, Threads
<1>5. ASSUME NEW t \in Threads, Stamp(t)
      PROVE  MarksAreSampled'
  BY <1>5 DEF Stamp, timeline, TypeOK, Threads
<1>6. ASSUME NEW t \in Threads, ReadWindow(t)
      PROVE  MarksAreSampled'
  BY <1>6 DEF ReadWindow, timeline, TypeOK, Threads, Samples
<1>7. ASSUME NEW t \in Threads, Keep(t)
      PROVE  MarksAreSampled'
  <2>1. epoch' = epoch /\ capture'["main"] # "reading"
    BY <1>7 DEF Keep, CaptureIsExclusive, Busy, TypeOK, Threads
  <2>2. SUFFICES ASSUME epoch > 0, capture'["main"] = "no"
                 PROVE  samples' # <<>> /\ samples'[Len(samples')].epoch = epoch
    BY <2>1
  <2>3. stamp[t].epoch = epoch
    <3>1. CASE t = "main"
      BY <1>7, <3>1 DEF Keep
    <3>2. CASE t # "main"
      <4>1. capture["main"] = "no" /\ capture[t] = "reading"
        BY <1>7, <2>2, <3>2 DEF Keep, TypeOK, Threads
      <4>2. samples # <<>> /\ samples[Len(samples)].epoch = epoch
        BY <2>2, <4>1
      <4>3. Len(samples) \in 1 .. Len(samples)
        BY <4>2, EmptySeq DEF TypeOK
      <4> QED
        BY <4>1, <4>2, <4>3 DEF EpochsAreOrdered
    <3> QED
      BY <3>1, <3>2
  <2> QED
    BY <1>7, <2>3, KeptLast
<1> QED
  BY <1>1, <1>2, <1>3, <1>4, <1>5, <1>6, <1>7 DEF Steps

LEMMA CapturesFitPlaceStep ==
    ASSUME TypeOK, CapturesFitPlace, [Next]_vars
    PROVE  CapturesFitPlace'
<1> USE DEF CapturesFitPlace, Free
<1>0. "main" \in Threads /\ "clock" \in Threads
  BY DEF Threads
<1>1. CASE Start \/ BeginModelLoad \/ BeginMeasured \/ MarkPause \/ MarkIdle
  <2>1. epoch' = epoch + 1 /\ at' \notin {"new", "dead", "cut", "counted", "reported"}
    BY <1>1 DEF Start, BeginModelLoad, BeginMeasured, MarkPause, MarkIdle, Mark
  <2> QED
    BY <2>1 DEF TypeOK
<1>2. CASE Call \/ CheckPause \/ Hold \/ GoOn \/ FinishCase
  BY <1>2 DEF Call, CheckPause, Hold, GoOn, FinishCase, timeline
<1>3. CASE Cut \/ CountFailures \/ MoveFailedCursor
  BY <1>3 DEF Cut, CountFailures, MoveFailedCursor, timeline, capturing
<1>4. CASE Stop \/ RemoveSentinel \/ LeaveReader
  BY <1>4 DEF Stop, RemoveSentinel, LeaveReader, timeline, capturing
<1>5. ASSUME NEW t \in Threads, Capture(t)
      PROVE  CapturesFitPlace'
  <2>1. at' = at /\ epoch' = epoch /\ sampler' = sampler /\ capture[t] # "no"
    BY <1>5 DEF Capture, Stamp, ReadWindow, Keep, timeline, thread
  <2>2. capture' = [capture EXCEPT ![t] = capture'[t]]
    BY <1>5 DEF Capture, Stamp, ReadWindow, Keep, TypeOK
  <2> QED
    BY <1>0, <2>1, <2>2 DEF TypeOK
<1>6. CASE Die
  BY <1>6 DEF Die
<1>7. CASE Tick
  BY <1>0, <1>7 DEF Tick, Ask, TypeOK, timeline
<1>8. CASE EndThread \/ AskPause \/ AskResume \/ Reader
  BY <1>8 DEF EndThread, AskPause, AskResume, Reader, ReaderTests, ReaderSleeps, timeline,
              capturing, thread
<1>9. CASE UNCHANGED vars
  BY <1>9 DEF vars, timeline, capturing, thread
<1> QED
  BY <1>1, <1>2, <1>3, <1>4, <1>5, <1>6, <1>7, <1>8, <1>9 DEF Next, Workload

LEMMA OrderStep ==
    ASSUME TypeOK, OrderInv, [Next]_vars
    PROVE  OrderInv'
<1>1. Steps
  BY EveryStepIsOfAKind DEF OrderInv
<1> QED
  BY <1>1, ExclusiveStep, TimesStep, EpochsStep, LabelsStep, MarksStep, CapturesFitPlaceStep
     DEF OrderInv

LEMMA OrderIsAnInvariant == Spec => []OrderInv
BY OrderInit, OrderStep, TelemetryTypeCorrect, PTL DEF Spec

\* The samples of the sampler's thread and of the workload's are kept in the
\* order of their times and windows, however the two interleave.
THEOREM TimelineStaysOrdered == Spec => []TimelineIsOrdered
<1>1. TypeOK /\ OrderInv => TimelineIsOrdered
  <2> SUFFICES ASSUME TypeOK, OrderInv, NEW i \in 1 .. Len(samples) - 1
               PROVE  /\ samples[i].time < samples[i + 1].time
                      /\ samples[i].epoch <= samples[i + 1].epoch
    BY DEF TimelineIsOrdered
  <2>1. i \in 1 .. Len(samples) /\ i + 1 \in 1 .. Len(samples) /\ i < i + 1
    BY SamplesAreNumbered
  <2> QED
    BY <2>1 DEF OrderInv, TimesAreOrdered, EpochsAreOrdered
<1> QED
  BY <1>1, TelemetryTypeCorrect, OrderIsAnInvariant, PTL

-------------------------------------------------------------------------------
(***************************************************************************)
(* Pauses are marked before they hold the workload.                        *)
(***************************************************************************)

LEMMA PauseInit ==
    ASSUME Init
    PROVE  PauseInv
BY DEF Init, PauseInv, WindowFitsPlace, HoldsAreMarked, Marked

LEMMA WindowFitsStep ==
    ASSUME TypeOK, WindowFitsPlace, [Next]_vars
    PROVE  WindowFitsPlace'
<1> USE DEF WindowFitsPlace
<1>1. CASE Start \/ BeginModelLoad
  BY <1>1 DEF Start, BeginModelLoad, Mark, progress, history
<1>2. CASE BeginMeasured
  BY <1>2 DEF BeginMeasured, Mark, progress, history
<1>3. CASE Call
  BY <1>3 DEF Call, timeline
<1>4. CASE CheckPause
  BY <1>4 DEF CheckPause, MarksPause, progress, timeline, history
<1>5. CASE MarkPause
  BY <1>5 DEF MarkPause, Mark, progress, history
<1>6. CASE Hold
  BY <1>6 DEF Hold, progress, timeline
<1>7. CASE GoOn
  BY <1>7 DEF GoOn, progress, timeline, history
<1>8. CASE FinishCase \/ Cut \/ CountFailures \/ MoveFailedCursor
  BY <1>8 DEF FinishCase, Cut, CountFailures, MoveFailedCursor, progress, timeline, history
<1>9. CASE MarkIdle
  BY <1>9 DEF MarkIdle, Mark, history
<1>10. CASE Stop \/ RemoveSentinel \/ LeaveReader
  BY <1>10 DEF Stop, RemoveSentinel, LeaveReader, progress, timeline, history
<1>11. CASE \E t \in Threads : Capture(t)
  BY <1>11 DEF Capture, Stamp, ReadWindow, Keep, progress, timeline, history
<1>12. CASE Die
  BY <1>12 DEF Die
<1>13. CASE Tick \/ EndThread \/ AskPause \/ AskResume \/ Reader
  BY <1>13 DEF Tick, EndThread, AskPause, AskResume, Reader, ReaderTests, ReaderSleeps, progress,
               timeline, history
<1>14. CASE UNCHANGED vars
  BY <1>14 DEF vars, progress, timeline, history
<1> QED
  BY <1>1, <1>2, <1>3, <1>4, <1>5, <1>6, <1>7, <1>8, <1>9, <1>10, <1>11, <1>12, <1>13, <1>14
     DEF Next, Workload

\* The newest sample that anybody took or is about to keep is of the window that
\* the workload's thread set last, when it captures nothing.
LEMMA NewestIsPresent ==
    ASSUME TypeOK, OrderInv, epoch > 0, Free("main")
    PROVE  /\ Len(samples) \in 1 .. Len(samples)
           /\ samples[Len(samples)].epoch = epoch
           /\ samples[Len(samples)].window = window
           /\ \A t \in Threads : capture[t] = "reading" =>
                 stamp[t].epoch = epoch /\ stamp[t].window = window
<1> USE SamplesAreNumbered
<1>1. samples # <<>> /\ samples[Len(samples)].epoch = epoch
  BY DEF OrderInv, MarksAreSampled
<1>2. Len(samples) \in 1 .. Len(samples)
  BY <1>1, EmptySeq DEF TypeOK
<1>3. samples[Len(samples)].window = window
  BY <1>1, <1>2 DEF OrderInv, LabelsAgree
<1>4. ASSUME NEW t \in Threads, capture[t] = "reading"
      PROVE  stamp[t].epoch = epoch
  <2>1. stamp[t].epoch <= epoch /\ samples[Len(samples)].epoch <= stamp[t].epoch
    BY <1>2, <1>4 DEF OrderInv, EpochsAreOrdered
  <2> QED
    BY <1>1, <2>1
<1> QED
  BY <1>1, <1>2, <1>3, <1>4 DEF OrderInv, LabelsAgree

\* A pause that begins in its window is marked; another adds nothing.
LEMMA MarkedByHold ==
    ASSUME TypeOK, Hold
    PROVE  /\ Marked' \subseteq Marked \cup {now + 1}
           /\ window # "pause" => Marked' = Marked
<1> DEFINE new == [time |-> now + 1, window |-> window]
<1>1. held' = held \cup {new} /\ new.time = now + 1 /\ new.window = window
  BY DEF Hold
<1> HIDE DEF new
<1>2. ASSUME NEW h \in Marked' PROVE h \in Marked \/ (h = now + 1 /\ window = "pause")
  <2>1. PICK x \in held' : x.window = "pause" /\ h = x.time
    BY <1>2 DEF Marked
  <2>2. CASE x \in held
    BY <2>1, <2>2 DEF Marked
  <2>3. CASE x = new
    BY <1>1, <2>1, <2>3
  <2> QED
    BY <1>1, <2>1, <2>2, <2>3
<1>3. Marked \subseteq Marked'
  BY <1>1 DEF Marked
<1> QED
  BY <1>2, <1>3

LEMMA MarkedAreNumbers == TypeOK => Marked \subseteq Nat
BY DEF TypeOK, Marked

LEMMA HoldIsMarked ==
    ASSUME TypeOK, OrderInv, HoldsAreMarked, Hold
    PROVE  HoldsAreMarked'
<1> USE SamplesAreNumbered
<1>0. /\ samples' = samples /\ now' = now + 1 /\ stamp' = stamp /\ capture' = capture
      /\ Marked \subseteq Nat
  BY MarkedAreNumbers DEF Hold, timeline
<1>1. Free("main") /\ epoch > 0 /\ capture["clock"] # "stamped"
  BY DEF Hold, OrderInv, CapturesFitPlace
<1>2. /\ Marked' \subseteq Marked \cup {now + 1}
      /\ now + 1 \in Marked' => window = "pause" \/ now + 1 \in Marked
  BY MarkedByHold
<1>3. now + 1 \notin Marked
  BY <1>0 DEF HoldsAreMarked
<1>4. ASSUME NEW h \in Marked' PROVE h <= now'
  <2>1. h \in Marked => h \in Nat /\ h <= now
    BY <1>0 DEF HoldsAreMarked
  <2>2. h \in Marked \/ h = now + 1
    BY <1>2, <1>4
  <2> QED
    BY <1>0, <2>1, <2>2
<1>5. ASSUME NEW h \in Marked', NEW t \in Threads
      PROVE  /\ capture'[t] = "stamped" => stamp'[t].time > h
             /\ capture'[t] = "reading" => stamp'[t].time > h \/ stamp'[t].window = "pause"
  <2>1. CASE h \in Marked
    BY <1>0, <2>1 DEF HoldsAreMarked
  <2>2. CASE h = now + 1
    <3>1. capture[t] # "stamped"
      BY <1>1 DEF Threads, Free
    <3>2. window = "pause"
      BY <1>2, <1>3, <2>2
    <3> QED
      BY <1>0, <1>1, <3>1, <3>2, NewestIsPresent
  <2> QED
    BY <1>2, <2>1, <2>2
<1>6. ASSUME NEW h \in Marked', NEW i \in 1 .. Len(samples), samples[i].time < h
      PROVE  PauseSampled(i, h)
  <2>1. CASE h \in Marked
    BY <1>6, <2>1 DEF HoldsAreMarked
  <2>2. CASE h = now + 1
    <3>0. window = "pause"
      BY <1>2, <1>3, <2>2
    <3>1. Len(samples) \in 1 .. Len(samples) /\ samples[Len(samples)].window = "pause"
      BY <1>1, <3>0, NewestIsPresent
    <3>2. samples[Len(samples)].time <= now
      BY <3>1 DEF OrderInv, TimesAreOrdered
    <3>3. samples[Len(samples)].time < h /\ Len(samples) \in i .. Len(samples)
      BY <2>2, <3>1, <3>2
    <3> QED
      BY <3>1, <3>3 DEF PauseSampled
  <2> QED
    BY <1>2, <2>1, <2>2
<1>7. ASSUME NEW h \in Marked', NEW i \in 1 .. Len(samples'), samples'[i].time < h
      PROVE  PauseSampled(i, h)'
  BY <1>0, <1>6, <1>7 DEF PauseSampled
<1> QED
  BY <1>4, <1>5, <1>7 DEF HoldsAreMarked

\* Whatever else happens, no pause is added to the history.
LEMMA HeldStep ==
    ASSUME TypeOK, [Next]_vars, ~Hold
    PROVE  held' = held \/ held' = {}
<1>1. Workload => held' = held
  BY DEF Workload, Start, BeginModelLoad, BeginMeasured, Call, CheckPause, MarkPause, GoOn,
         FinishCase, Cut, CountFailures, MoveFailedCursor, MarkIdle, Stop, RemoveSentinel,
         LeaveReader, history
<1>2. ASSUME NEW t \in Threads, Capture(t)
      PROVE  held' = held
  BY <1>2 DEF Capture, Stamp, ReadWindow, Keep, history
<1>3. Tick \/ EndThread \/ AskPause \/ AskResume \/ Reader => held' = held
  BY DEF Tick, EndThread, AskPause, AskResume, Reader, ReaderTests, ReaderSleeps, history
<1>4. Die => held' = {}
  BY DEF Die
<1>5. UNCHANGED vars => held' = held
  BY DEF vars, history
<1> QED
  BY <1>1, <1>2, <1>3, <1>4, <1>5 DEF Next

LEMMA HoldsStep ==
    ASSUME TypeOK, OrderInv, HoldsAreMarked, [Next]_vars
    PROVE  HoldsAreMarked'
<1>0. Steps /\ Marked \subseteq Nat
  BY EveryStepIsOfAKind, MarkedAreNumbers DEF OrderInv
<1>1. CASE Hold
  BY <1>1, HoldIsMarked
<1>2. CASE Marked' = {}
  BY <1>2 DEF HoldsAreMarked
<1>3. CASE Marked' = Marked
  <2> USE <1>0, <1>3, SamplesAreNumbered DEF HoldsAreMarked
  <2>0. ASSUME samples' = samples, NEW h \in Marked, NEW i \in 1 .. Len(samples'),
               samples'[i].time < h
        PROVE  PauseSampled(i, h)'
    <3>1. PauseSampled(i, h)
      BY <2>0
    <3> QED
      BY <2>0, <3>1 DEF PauseSampled
  <2>1. CASE UNCHANGED captured \/ Passes
    <3>1. samples' = samples /\ stamp' = stamp /\ capture' = capture
          /\ (now' = now \/ now' = now + 1)
      BY <2>1 DEF captured, Passes
    <3> QED
      BY <2>0, <3>1
  <2>2. CASE Marks \/ \E t \in Threads : Asks(t)
    <3>1. samples' = samples /\ stamp' = stamp /\ now' = now
      BY <2>2 DEF Marks, Asks
    <3>2. \A u \in Threads : capture'[u] \in {capture[u], "wait"}
      BY <2>2 DEF Marks, Asks, Ask, Threads, TypeOK
    <3> QED
      BY <2>0, <3>1, <3>2
  <2>3. CASE Die
    BY <2>3 DEF Die, Marked
  <2>4. ASSUME NEW t \in Threads, Stamp(t)
        PROVE  HoldsAreMarked'
    <3>1. samples' = samples /\ now' = now + 1 /\ stamp'[t].time = now + 1
          /\ capture'[t] = "stamped"
      BY <2>4 DEF Stamp, timeline, TypeOK, Samples
    <3>2. \A u \in Threads \ {t} : capture'[u] = capture[u] /\ stamp'[u] = stamp[u]
      BY <2>4 DEF Stamp, TypeOK
    <3>3. \A h \in Marked : h <= now'
      BY <3>1
    <3>4. ASSUME NEW h \in Marked, NEW u \in Threads
          PROVE  /\ capture'[u] = "stamped" => stamp'[u].time > h
                 /\ capture'[u] = "reading" => stamp'[u].time > h \/ stamp'[u].window = "pause"
      BY <3>1, <3>2
    <3> QED
      BY <2>0, <3>1, <3>3, <3>4
  <2>5. ASSUME NEW t \in Threads, ReadWindow(t)
        PROVE  HoldsAreMarked'
    <3>1. samples' = samples /\ now' = now /\ stamp'[t].time = stamp[t].time
          /\ capture[t] = "stamped" /\ capture'[t] = "reading"
      BY <2>5 DEF ReadWindow, timeline, TypeOK, Samples
    <3>2. \A u \in Threads \ {t} : capture'[u] = capture[u] /\ stamp'[u] = stamp[u]
      BY <2>5 DEF ReadWindow, TypeOK
    <3>3. \A h \in Marked : h <= now'
      BY <3>1
    <3>4. ASSUME NEW h \in Marked, NEW u \in Threads
          PROVE  /\ capture'[u] = "stamped" => stamp'[u].time > h
                 /\ capture'[u] = "reading" => stamp'[u].time > h \/ stamp'[u].window = "pause"
      BY <3>1, <3>2
    <3> QED
      BY <2>0, <3>1, <3>3, <3>4
  <2>6. ASSUME NEW t \in Threads, Keep(t)
        PROVE  HoldsAreMarked'
    <3>1. now' = now /\ capture'[t] = "no" /\ capture[t] = "reading"
          /\ \A u \in Threads \ {t} : capture'[u] = capture[u] /\ stamp'[u] = stamp[u]
      BY <2>6 DEF Keep, TypeOK
    <3>2. ASSUME NEW h \in Marked, NEW i \in 1 .. Len(samples'), samples'[i].time < h
          PROVE  PauseSampled(i, h)'
      <4>1. CASE i \in 1 .. Len(samples) /\ samples'[i] = samples[i]
        <5>1. PICK k \in i .. Len(samples) :
                 samples[k].time < h /\ samples[k].window = "pause"
          BY <3>2, <4>1 DEF PauseSampled
        <5>2. k \in 1 .. Len(samples) /\ k \in i .. Len(samples') /\ samples'[k] = samples[k]
          BY <2>6, <4>1, <5>1, KeptLast
        <5> QED
          BY <5>1, <5>2 DEF PauseSampled
      <4>2. CASE i = Len(samples) + 1 /\ samples'[i] = stamp[t]
        <5>1. stamp[t].window = "pause"
          BY <3>1, <3>2, <4>2
        <5>2. i \in i .. Len(samples')
          BY <3>2
        <5> QED
          BY <3>2, <4>2, <5>1, <5>2 DEF PauseSampled
      <4> QED
        BY <2>6, <4>1, <4>2, KeptOrOld
    <3> QED
      BY <3>1, <3>2
  <2> QED
    BY <2>1, <2>2, <2>3, <2>4, <2>5, <2>6 DEF Steps
<1>4. ~Hold => Marked' = Marked \/ Marked' = {}
  BY HeldStep DEF Marked
<1> QED
  BY <1>1, <1>2, <1>3, <1>4

LEMMA PauseIsAnInvariant == Spec => []PauseInv
<1>1. TypeOK /\ OrderInv /\ PauseInv /\ [Next]_vars => PauseInv'
  BY HoldsStep, WindowFitsStep DEF PauseInv
<1>2. Init => PauseInv
  BY PauseInit
<1> QED
  BY <1>1, <1>2, TelemetryTypeCorrect, OrderIsAnInvariant, PTL DEF Spec

\* Whatever the workload, no pause that it marked lies between two samples that
\* a case's energy is integrated over, and an image run marks every pause.
THEOREM MarkedPausesAreNeverIntegrated == Spec => []MarkedPausesAreNotIntegrated
<1>1. ASSUME TypeOK, OrderInv, PauseInv
      PROVE  MarkedPausesAreNotIntegrated
  <2> SUFFICES ASSUME NEW x \in held, x.window = "pause" \/ stage.style = "image",
                      NEW i \in 1 .. Len(samples), NEW j \in 1 .. Len(samples),
                      samples[i].time < x.time, x.time < samples[j].time, Joined(i, j)
               PROVE  FALSE
    BY DEF MarkedPausesAreNotIntegrated, Bridged, Integrated
  <2> DEFINE h == x.time
  <2> USE <1>1, SamplesAreNumbered
  <2>0. h \in Marked /\ h \in Nat
    BY DEF PauseInv, WindowFitsPlace, Marked, TypeOK
  <2> HIDE DEF h
  <2>1. PICK k \in i .. Len(samples) : samples[k].time < h /\ samples[k].window = "pause"
    <3>1. samples[i].time < h
      BY DEF h
    <3> QED
      BY <2>0, <3>1 DEF PauseInv, HoldsAreMarked, PauseSampled
  <2>2. k \in 1 .. Len(samples) /\ h < samples[j].time
    BY DEF h
  <2>3. k < j
    <3>1. ~(j <= k)
      <4>1. j < k => samples[j].time < samples[k].time
        BY <2>2 DEF OrderInv, TimesAreOrdered
      <4> QED
        BY <2>0, <2>1, <2>2, <4>1
    <3> QED
      BY <2>2, <3>1
  <2>4. samples[k].window = "measured"
    BY <2>2, <2>3 DEF Joined
  <2> QED
    BY <2>1, <2>4
<1>2. TypeOK /\ OrderInv /\ PauseInv => MarkedPausesAreNotIntegrated
  BY <1>1
<1> QED
  BY <1>2, TelemetryTypeCorrect, OrderIsAnInvariant, PauseIsAnInvariant, PTL

-------------------------------------------------------------------------------
(***************************************************************************)
(* No measured call is left out.                                           *)
(***************************************************************************)

\* A timeline covers a call with some of its samples.
CoveredIn(s, w, own) ==
    \E i, j \in own : /\ s[i].time < w.time /\ w.time < s[j].time
                       /\ \A k \in i .. j : s[k].window = "measured"

LEMMA CoveredIsIn == \A w, own : Covered(w, own) <=> CoveredIn(samples, w, own)
BY DEF Covered, CoveredIn, Joined

\* What is covered stays covered in a longer timeline and a wider case.
LEMMA CoveredStays ==
    ASSUME NEW s, NEW u, NEW n \in Nat, \A i \in 1 .. n : u[i] = s[i],
           NEW own \in SUBSET (1 .. n), NEW wider, own \subseteq wider,
           NEW w, CoveredIn(s, w, own)
    PROVE  CoveredIn(u, w, wider)
<1>1. PICK i \in own, j \in own : /\ s[i].time < w.time /\ w.time < s[j].time
                                 /\ \A k \in i .. j : s[k].window = "measured"
  BY DEF CoveredIn
<1>2. \A k \in i .. j : k \in 1 .. n
  <2>1. i \in 1 .. n /\ j \in 1 .. n
    OBVIOUS
  <2> HIDE <1>1
  <2> QED
    BY <2>1
<1>3. \A k \in i .. j : u[k].window = "measured"
  BY <1>1, <1>2
<1>4. u[i] = s[i] /\ u[j] = s[j]
  BY <1>1
<1> QED
  BY <1>1, <1>3, <1>4 DEF CoveredIn

\* The cursors and the blocks stay, or are moved by one of these.
cuts == <<cursor, blocks, case>>
Moves == Cut \/ CountFailures \/ MarkIdle \/ Die

LEMMA CutsStay ==
    ASSUME [Next]_vars, ~Moves
    PROVE  /\ UNCHANGED cuts /\ stage' = stage
           /\ ~MoveFailedCursor => (Cutting' <=> Cutting)
           /\ MoveFailedCursor => Cutting /\ Cutting'
<1> USE DEF Moves, Cutting
<1>1. CASE MoveFailedCursor
  BY <1>1 DEF MoveFailedCursor, cuts, progress
<1>2. CASE Start \/ BeginModelLoad \/ BeginMeasured \/ Call \/ CheckPause \/ MarkPause
  BY <1>2 DEF Start, BeginModelLoad, BeginMeasured, Call, CheckPause, MarkPause, cuts, progress,
              cutting, MoveFailedCursor
<1>3. CASE Hold \/ GoOn \/ FinishCase \/ Stop \/ RemoveSentinel \/ LeaveReader
  BY <1>3 DEF Hold, GoOn, FinishCase, Stop, RemoveSentinel, LeaveReader, cuts, progress, cutting,
              MoveFailedCursor
<1>4. CASE \E t \in Threads : Capture(t)
  BY <1>4 DEF Capture, Stamp, ReadWindow, Keep, cuts, progress, cutting, MoveFailedCursor
<1>5. CASE Tick \/ EndThread \/ AskPause \/ AskResume \/ Reader
  BY <1>5 DEF Tick, EndThread, AskPause, AskResume, Reader, ReaderTests, ReaderSleeps, cuts,
              progress, cutting, MoveFailedCursor
<1>6. CASE UNCHANGED vars
  BY <1>6 DEF vars, cuts, progress, cutting, MoveFailedCursor
<1> QED
  BY <1>1, <1>2, <1>3, <1>4, <1>5, <1>6 DEF Next, Workload

LEMMA CutsInit ==
    ASSUME Init
    PROVE  CutsFit /\ WorkIsPast /\ OwnCallsAreCovered /\ CallsAreCovered
BY DEF Init, CutsFit, Cutting, WorkIsPast, OwnCallsAreCovered, CallsAreCovered

\* Where a block lies in the timeline.
LEMMA BlocksAreIn ==
    ASSUME TypeOK, CutsFit, NEW b \in 1 .. Len(blocks)
    PROVE  /\ blocks[b].from \in Nat /\ blocks[b].to \in Nat
           /\ blocks[b].from .. blocks[b].to \subseteq 1 .. Len(samples)
<1>1. blocks \in Seq([from : Nat, to : Nat, failed : Int])
  BY DEF TypeOK
<1>2. blocks[b] \in [from : Nat, to : Nat, failed : Int]
  BY <1>1, ElementOfSeq
<1>3. cursor \in Nat /\ Len(samples) \in Nat
  BY SamplesAreNumbered DEF TypeOK
<1> QED
  BY <1>2, <1>3 DEF CutsFit

LEMMA CutBlocks ==
    ASSUME TypeOK, Cut
    PROVE  /\ Len(blocks) \in Nat /\ Len(blocks') = Len(blocks) + 1
           /\ blocks'[Len(blocks) + 1] = [from |-> cursor + 1, to |-> Len(samples), failed |-> 0]
           /\ \A b \in 1 .. Len(blocks) : blocks'[b] = blocks[b]
<1> DEFINE Blocks == [from : Nat, to : Nat, failed : Int]
           new == [from |-> cursor + 1, to |-> Len(samples), failed |-> 0]
<1>1. blocks \in Seq(Blocks) /\ new \in Blocks
  BY SamplesAreNumbered DEF TypeOK
<1>2. blocks' = Append(blocks, new)
  BY DEF Cut
<1> HIDE DEF new, Blocks
<1>3. /\ Len(blocks) \in Nat /\ Len(blocks') = Len(blocks) + 1
      /\ blocks'[Len(blocks) + 1] = new
      /\ \A b \in 1 .. Len(blocks) : blocks'[b] = blocks[b]
  BY <1>1, <1>2, AppendProperties, LenProperties
<1> QED
  BY <1>3 DEF new

LEMMA CountedBlocks ==
    ASSUME TypeOK, CountFailures
    PROVE  /\ Len(blocks') = Len(blocks)
           /\ \A b \in 1 .. Len(blocks) :
                 blocks'[b].from = blocks[b].from /\ blocks'[b].to = blocks[b].to
<1> DEFINE Blocks == [from : Nat, to : Nat, failed : Int]
           last == Len(blocks)
           e == [blocks[last] EXCEPT !.failed = failed - failedCursor]
<1>1. blocks \in Seq(Blocks) /\ last \in Nat
  BY DEF TypeOK
<1>2. blocks' = [blocks EXCEPT ![last] = e] /\ DOMAIN blocks = 1 .. last
  BY <1>1, LenProperties DEF CountFailures
<1>3. DOMAIN blocks' = 1 .. last
  BY <1>2
<1>4. Len(blocks') = last
  <2>1. blocks' \in Seq([from : Nat, to : Nat, failed : Int])
    BY TelemetryTypeStep DEF TypeOK, Next, Workload
  <2> QED
    BY <1>1, <1>3, <2>1, LenProperties
<1>5. ASSUME NEW b \in 1 .. last
      PROVE  blocks'[b].from = blocks[b].from /\ blocks'[b].to = blocks[b].to
  <2>1. blocks[b] \in Blocks
    BY <1>1, ElementOfSeq
  <2>2. blocks'[b] = IF b = last THEN e ELSE blocks[b]
    BY <1>2
  <2> QED
    BY <2>1, <2>2
<1> QED
  BY <1>4, <1>5

LEMMA CutsStep ==
    ASSUME TypeOK, OrderInv, CutsFit, [Next]_vars
    PROVE  CutsFit'
<1> USE SamplesAreNumbered DEF CutsFit
<1>0. cursor \in Nat /\ case \in Nat /\ Len(blocks) \in Nat
  BY DEF TypeOK
<1>1. CASE Cut
  <2>1. cursor' = Len(samples) /\ samples' = samples /\ case' = case /\ Cutting' /\ ~Cutting
    BY <1>1 DEF Cut, progress, timeline, Cutting
  <2>2. ASSUME NEW b \in 1 .. Len(blocks')
        PROVE  1 <= blocks'[b].from /\ blocks'[b].to <= cursor'
    <3>1. CASE b \in 1 .. Len(blocks)
      BY <1>0, <1>1, <2>1, <3>1, CutBlocks, BlocksAreIn
    <3>2. CASE b = Len(blocks) + 1
      BY <1>0, <1>1, <2>1, <3>2, CutBlocks
    <3> QED
      BY <1>0, <1>1, <3>1, <3>2, CutBlocks
  <2>3. Len(blocks') = case'
    BY <1>0, <1>1, <2>1, CutBlocks
  <2> QED
    BY <2>1, <2>2, <2>3
<1>2. CASE CountFailures
  <2>1. /\ cursor' = cursor /\ samples' = samples /\ case' = case /\ Cutting' /\ Cutting
    BY <1>2 DEF CountFailures, progress, timeline, Cutting
  <2> QED
    BY <1>2, <2>1, CountedBlocks
<1>3. CASE MarkIdle
  <2>1. /\ cursor' = cursor /\ samples' = samples /\ blocks' = blocks /\ case' = case + 1
        /\ epoch' = epoch + 1 /\ ~Cutting' /\ Cutting
    BY <1>3 DEF MarkIdle, Mark, cutting, Cutting
  <2>2. \A i \in 1 .. cursor : samples[i].epoch < epoch'
    <3>1. \A i \in 1 .. Len(samples) : samples[i].epoch <= epoch
      BY DEF OrderInv, EpochsAreOrdered
    <3> QED
      BY <1>0, <2>1, <3>1
  <2> QED
    BY <1>0, <2>1, <2>2
<1>4. CASE Die
  BY <1>4 DEF Die, Cutting
<1>5. CASE ~Moves
  <2>1. cursor' = cursor /\ blocks' = blocks /\ case' = case
    BY <1>5, CutsStay DEF cuts
  <2>2. (Cutting' <=> Cutting) /\ Steps
    BY <1>5, CutsStay, EveryStepIsOfAKind DEF OrderInv
  <2>3. CASE UNCHANGED captured \/ Passes \/ \E t \in Threads : Asks(t) \/ Stamp(t) \/ ReadWindow(t)
    <3>1. samples' = samples /\ epoch' = epoch
      BY <2>3 DEF captured, Passes, Asks, Stamp, ReadWindow, timeline
    <3> QED
      BY <2>1, <2>2, <3>1
  <2>4. CASE Marks
    <3>1. samples' = samples /\ epoch' = epoch + 1
      BY <2>4 DEF Marks
    <3>2. ~Cutting => \A i \in 1 .. cursor : samples[i].epoch < epoch'
      BY <1>0, <3>1
    <3> QED
      BY <2>1, <2>2, <3>1, <3>2
  <2>5. ASSUME NEW t \in Threads, Keep(t)
        PROVE  CutsFit'
    <3>1. epoch' = epoch /\ cursor <= Len(samples')
          /\ \A i \in 1 .. cursor : samples'[i] = samples[i]
      BY <1>0, <2>5, KeptLast DEF Keep
    <3> QED
      BY <2>1, <2>2, <3>1
  <2>6. ~Die
    BY <1>5 DEF Moves
  <2> QED
    BY <2>2, <2>3, <2>4, <2>5, <2>6 DEF Steps
<1> QED
  BY <1>1, <1>2, <1>3, <1>4, <1>5 DEF Moves

\* A call is measured; otherwise the history of calls stays or is forgotten.
LEMMA WorkStep ==
    ASSUME [Next]_vars, ~Call
    PROVE  work' = work \/ (Die /\ work' = {})
<1>1. Workload => work' = work
  BY DEF Workload, Start, BeginModelLoad, BeginMeasured, Hold, CheckPause, MarkPause, GoOn,
         FinishCase, Cut, CountFailures, MoveFailedCursor, MarkIdle, Stop, RemoveSentinel,
         LeaveReader, history
<1>2. ASSUME NEW t \in Threads, Capture(t)
      PROVE  work' = work
  BY <1>2 DEF Capture, Stamp, ReadWindow, Keep, history
<1>3. Tick \/ EndThread \/ AskPause \/ AskResume \/ Reader => work' = work
  BY DEF Tick, EndThread, AskPause, AskResume, Reader, ReaderTests, ReaderSleeps, history
<1>4. Die => work' = {}
  BY DEF Die
<1>5. UNCHANGED vars => work' = work
  BY DEF vars, history
<1> QED
  BY <1>1, <1>2, <1>3, <1>4, <1>5 DEF Next

\* A case begins, and the telemetry starts, in the steps that enter "ready".
LEMMA ReadyStep ==
    ASSUME [Next]_vars, at' \in {"new", "ready"}
    PROVE  at \in {"new", "ready"} \/ MarkIdle
<1>1. Workload => at \in {"new", "ready"} \/ MarkIdle
  BY DEF Workload, Start, BeginModelLoad, BeginMeasured, Call, Hold, CheckPause, MarkPause, GoOn,
         FinishCase, Cut, CountFailures, MoveFailedCursor, Stop, RemoveSentinel, LeaveReader
<1>2. ASSUME NEW t \in Threads, Capture(t)
      PROVE  at' = at
  BY <1>2 DEF Capture, Stamp, ReadWindow, Keep
<1>3. Tick \/ EndThread \/ AskPause \/ AskResume \/ Reader => at' = at
  BY DEF Tick, EndThread, AskPause, AskResume, Reader, ReaderTests, ReaderSleeps
<1>4. ~Die
  BY DEF Die
<1>5. UNCHANGED vars => at' = at
  BY DEF vars
<1> QED
  BY <1>1, <1>2, <1>3, <1>4, <1>5 DEF Next

LEMMA PastStep ==
    ASSUME TypeOK, OrderInv, WorkIsPast, [Next]_vars
    PROVE  WorkIsPast'
<1> USE DEF WorkIsPast
<1>0. now \in Nat /\ case \in Nat /\ \A w \in work : w.time \in Nat /\ w.case \in Nat
  BY DEF TypeOK
<1>1. CASE Call
  <2>1. /\ now' = now + 1 /\ case' = case /\ at' = "between" /\ ~Busy("main")'
        /\ work' = work \cup {[time |-> now + 1, case |-> case, window |-> window]}
    BY <1>1 DEF Call, Busy, Free
  <2> QED
    BY <1>0, <2>1
<1>2. CASE Die
  BY <1>2 DEF Die
<1>3. CASE ~Call /\ ~Die
  <2>0. work' = work
    BY <1>3, WorkStep
  <2>1. (MarkIdle => case' = case + 1) /\ (~MarkIdle => case' = case)
    BY <1>3, CutsStay DEF Moves, cuts, Cut, CountFailures, MarkIdle, progress
  <2>2. now' = now \/ now' = now + 1
    BY <1>3, EveryStepIsOfAKind
       DEF OrderInv, Steps, captured, Passes, Marks, Asks, Stamp, ReadWindow, Keep
  <2>3. at' \in {"new", "ready"} => \A w \in work : w.case < case'
    BY <1>0, <2>1, ReadyStep
  <2>4. Busy("main")' => \A w \in work : w.time < stamp'["main"].time
    <3> USE DEF Busy, Threads
    <3>1. CASE UNCHANGED captured \/ Passes \/ Marks \/ \E t \in Threads : Asks(t)
      BY <3>1 DEF captured, Passes, Marks, Asks, Ask, TypeOK
    <3>2. ASSUME NEW t \in Threads, Stamp(t)
          PROVE  Busy("main")' => \A w \in work : w.time < stamp'["main"].time
      <4>1. CASE t = "main"
        <5>1. stamp'["main"].time = now + 1
          BY <3>2, <4>1 DEF Stamp, TypeOK, Samples
        <5> QED
          BY <1>0, <5>1
      <4>2. CASE t = "clock"
        BY <3>2, <4>2 DEF Stamp, TypeOK
      <4> QED
        BY <4>1, <4>2
    <3>3. ASSUME NEW t \in Threads, ReadWindow(t)
          PROVE  Busy("main")' => \A w \in work : w.time < stamp'["main"].time
      <4>1. stamp'["main"].time = stamp["main"].time /\ (Busy("main")' => Busy("main"))
        BY <3>3 DEF ReadWindow, TypeOK, Samples
      <4> QED
        BY <4>1
    <3>4. ASSUME NEW t \in Threads, Keep(t)
          PROVE  Busy("main")' => \A w \in work : w.time < stamp'["main"].time
      <4>1. Busy("main")' => Busy("main") /\ stamp'["main"] = stamp["main"]
        BY <3>4 DEF Keep, TypeOK
      <4> QED
        BY <4>1
    <3> QED
      BY <1>3, <3>1, <3>2, <3>3, <3>4, EveryStepIsOfAKind DEF Steps, OrderInv
  <2> QED
    BY <1>0, <2>0, <2>1, <2>2, <2>3, <2>4
<1> QED
  BY <1>1, <1>2, <1>3

\* What a thread is about to keep stays, or is of the window as it is.
StampsStay ==
    \A t \in Threads : capture'[t] = "reading" =>
        \/ capture[t] = "reading" /\ stamp'[t] = stamp[t]
        \/ stamp'[t].window = window

LEMMA ReadingStep ==
    ASSUME TypeOK, Steps
    PROVE  StampsStay
<1> USE DEF StampsStay
<1>1. CASE UNCHANGED captured \/ Passes
  BY <1>1 DEF captured, Passes
<1>2. CASE Marks \/ (\E t \in Threads : Asks(t))
  BY <1>2 DEF Marks, Asks, Ask, TypeOK
<1>3. CASE Die
  BY <1>3 DEF Die
<1>4. ASSUME NEW t \in Threads, Stamp(t)
      PROVE  StampsStay
  BY <1>4 DEF Stamp, TypeOK
<1>5. ASSUME NEW t \in Threads, ReadWindow(t)
      PROVE  StampsStay
  BY <1>5 DEF ReadWindow, TypeOK, Samples
<1>6. ASSUME NEW t \in Threads, Keep(t)
      PROVE  StampsStay
  BY <1>6 DEF Keep, TypeOK
<1> QED
  BY <1>1, <1>2, <1>3, <1>4, <1>5, <1>6 DEF Steps

\* A step that keeps the timeline, the window and the case keeps its calls open.
LEMMA OwnStays ==
    ASSUME TypeOK, Steps, OwnCallsAreCovered,
           UNCHANGED <<samples, window, cursor, case, work>>,
           Cutting => Cutting', Closed' => Closed
    PROVE  OwnCallsAreCovered'
<1> SUFFICES ASSUME ~Cutting', NEW w \in work, w.window = "measured", w.case = case
             PROVE  Covered(w, Own)' \/ (~Closed' /\ Open(w)')
  BY DEF OwnCallsAreCovered
<1>1. Covered(w, Own) \/ (~Closed /\ Open(w))
  BY DEF OwnCallsAreCovered
<1>2. Covered(w, Own)' <=> Covered(w, Own)
  BY DEF Covered, Own, Joined
<1>3. ASSUME Open(w) PROVE Open(w)'
  <2>1. PICK i \in Own : samples[i].time < w.time /\ MeasuredFrom(i)
    BY <1>3 DEF Open
  <2>2. window = "measured" /\ i \in Own'
    BY <1>3, <2>1 DEF Open, Own
  <2>3. \A t \in Threads : capture'[t] = "reading" => stamp'[t].window = "measured"
    BY <2>1, <2>2, ReadingStep DEF StampsStay, MeasuredFrom
  <2>4. MeasuredFrom(i)'
    BY <2>1, <2>3 DEF MeasuredFrom
  <2> QED
    BY <2>1, <2>2, <2>4 DEF Open
<1> QED
  BY <1>1, <1>2, <1>3

\* The sample that the workload's thread keeps covers its calls that are open.
LEMMA OpenIsCovered ==
    ASSUME TypeOK, WorkIsPast, Keep("main"), NEW w \in work, Open(w)
    PROVE  CoveredIn(samples', w, cursor + 1 .. Len(samples'))
<1> USE SamplesAreNumbered
<1>0. "main" \in Threads /\ capture["main"] = "reading" /\ Busy("main")
  BY DEF Keep, Threads, Busy
<1>1. PICK i \in Own : samples[i].time < w.time /\ MeasuredFrom(i)
  BY DEF Open
<1> DEFINE j == Len(samples) + 1
<1>2. i \in 1 .. Len(samples) /\ i >= cursor + 1 /\ cursor \in Nat
  BY DEF TypeOK, Own
<1>3. Len(samples') = j /\ samples'[j] = stamp["main"] /\ samples'[i] = samples[i]
  BY <1>0, <1>2, KeptLast
<1>4. w.time < samples'[j].time
  BY <1>0, <1>3 DEF WorkIsPast
<1>5. ASSUME NEW k \in i .. j
      PROVE  samples'[k].window = "measured"
  <2>1. k \in i .. Len(samples) \/ k = j
    BY <1>2, <1>5
  <2>2. CASE k \in i .. Len(samples)
    <3>1. k \in 1 .. Len(samples)
      BY <1>2, <2>2
    <3>2. samples'[k] = samples[k]
      BY <1>0, <3>1, KeptLast
    <3> QED
      BY <1>1, <2>2, <3>2 DEF MeasuredFrom
  <2>3. CASE k = j
    BY <1>0, <1>1, <1>3, <2>3 DEF MeasuredFrom
  <2> QED
    BY <2>1, <2>2, <2>3
<1>6. i \in cursor + 1 .. j /\ j \in cursor + 1 .. j
  BY <1>2
<1> QED
  BY <1>1, <1>3, <1>4, <1>5, <1>6 DEF CoveredIn

LEMMA KeepCovers ==
    ASSUME TypeOK, CutsFit, WorkIsPast, OwnCallsAreCovered, NEW t \in Threads, Keep(t)
    PROVE  OwnCallsAreCovered'
<1> USE SamplesAreNumbered
<1>0. /\ UNCHANGED <<window, cursor, case, work, at>>
      /\ cursor \in Nat /\ Len(samples') = Len(samples) + 1
      /\ \A i \in 1 .. Len(samples) : samples'[i] = samples[i]
  BY KeptLast DEF Keep, cutting, progress, history, TypeOK
<1> SUFFICES ASSUME ~Cutting, NEW w \in work, w.window = "measured", w.case = case
             PROVE  CoveredIn(samples', w, Own') \/ (~Closed' /\ Open(w)')
  BY <1>0, CoveredIsIn DEF OwnCallsAreCovered, Cutting, Covered, CoveredIn, Joined
<1>1. CASE Covered(w, Own)
  <2>1. CoveredIn(samples, w, Own)
    BY <1>1, CoveredIsIn
  <2>2. Own \in SUBSET (1 .. Len(samples)) /\ Own \subseteq Own'
    BY <1>0 DEF Own
  <2> QED
    BY <1>0, <2>1, <2>2, CoveredStays
<1>2. CASE ~Closed /\ Open(w)
  <2>1. CASE t = "main"
    BY <1>0, <1>2, <2>1, OpenIsCovered DEF Own
  <2>2. CASE t = "clock"
    <3>1. /\ capture'["main"] = capture["main"] /\ stamp'["main"] = stamp["main"]
          /\ capture["clock"] = "reading" /\ capture'["clock"] = "no"
      BY <2>2 DEF Keep, TypeOK, Threads
    <3>2. ~Closed'
      BY <1>0, <1>2, <3>1 DEF Closed, Free
    <3>3. PICK i \in Own : samples[i].time < w.time /\ MeasuredFrom(i)
      BY <1>2 DEF Open
    <3>4. i \in 1 .. Len(samples) /\ i \in Own'
      BY <1>0 DEF Own
    <3>5. ASSUME NEW k \in i .. Len(samples')
          PROVE  samples'[k].window = "measured"
      <4>1. k \in i .. Len(samples) \/ k = Len(samples) + 1
        BY <1>0, <3>4, <3>5
      <4>2. CASE k \in i .. Len(samples)
        BY <1>0, <3>3, <3>4, <4>2 DEF MeasuredFrom
      <4>3. CASE k = Len(samples) + 1
        <5>1. samples'[k] = stamp["clock"]
          BY <2>2, <4>3, KeptLast DEF Threads
        <5> QED
          BY <3>1, <3>3, <5>1 DEF MeasuredFrom, Threads
      <4> QED
        BY <4>1, <4>2, <4>3
    <3>6. MeasuredFrom(i)'
      BY <3>1, <3>3, <3>5 DEF MeasuredFrom, Threads
    <3>7. Open(w)'
      BY <1>0, <1>2, <3>3, <3>4, <3>6 DEF Open
    <3> QED
      BY <3>2, <3>7
  <2> QED
    BY <2>1, <2>2 DEF Threads
<1> QED
  BY <1>1, <1>2 DEF OwnCallsAreCovered

\* Another window is marked when no call is open any more.
LEMMA MarkCovers ==
    ASSUME TypeOK, CutsFit, WorkIsPast, OwnCallsAreCovered,
           Start \/ BeginModelLoad \/ (BeginMeasured /\ window # "measured") \/ MarkPause
    PROVE  OwnCallsAreCovered'
<1>0. UNCHANGED <<samples, cursor, case, work>> /\ ~Cutting
  BY DEF Start, BeginModelLoad, BeginMeasured, MarkPause, Mark, cutting, progress, history, Cutting
<1> SUFFICES ASSUME NEW w \in work, w.window = "measured", w.case = case
             PROVE  Covered(w, Own)'
  BY <1>0 DEF OwnCallsAreCovered
<1>1. Covered(w, Own)' <=> Covered(w, Own)
  BY <1>0 DEF Covered, Own, Joined
<1>2. at \notin {"new", "ready"}
  BY DEF WorkIsPast, TypeOK
<1>3. CASE BeginMeasured /\ window # "measured"
  BY <1>0, <1>1, <1>3 DEF OwnCallsAreCovered, Open
<1>4. CASE MarkPause
  <2>1. Closed
    BY <1>4 DEF MarkPause, Closed
  <2> QED
    BY <1>0, <1>1, <2>1 DEF OwnCallsAreCovered
<1> QED
  BY <1>2, <1>3, <1>4 DEF Start, BeginModelLoad

\* A call is open when it is measured.
LEMMA CallCovers ==
    ASSUME TypeOK, OrderInv, CutsFit, OwnCallsAreCovered, Call
    PROVE  OwnCallsAreCovered'
<1> USE SamplesAreNumbered
<1> DEFINE new == [time |-> now + 1, case |-> case, window |-> window]
<1>0. /\ UNCHANGED <<samples, window, epoch, cursor, case, capture, stamp>>
      /\ work' = work \cup {new} /\ ~Cutting /\ ~Closed'
  BY DEF Call, timeline, cutting, Cutting, Closed
<1> SUFFICES ASSUME NEW w \in work \cup {new}, w.window = "measured", w.case = case
             PROVE  Covered(w, Own)' \/ Open(w)'
  BY <1>0 DEF OwnCallsAreCovered
<1>1. CASE w \in work
  <2>1. Covered(w, Own) \/ Open(w)
    BY <1>0, <1>1 DEF OwnCallsAreCovered
  <2>2. Covered(w, Own)' <=> Covered(w, Own)
    BY <1>0 DEF Covered, Own, Joined
  <2>3. Open(w)' <=> Open(w)
    BY <1>0 DEF Open, Own, MeasuredFrom
  <2> QED
    BY <2>1, <2>2, <2>3
<1>2. CASE w = new
  <2> DEFINE i == Len(samples)
  <2>1. Free("main") /\ window = "measured" /\ epoch > 0
    BY <1>2 DEF Call, OrderInv, CapturesFitPlace
  <2>2. /\ i \in 1 .. Len(samples) /\ samples[i].epoch = epoch /\ samples[i].window = window
        /\ \A t \in Threads : capture[t] = "reading" => stamp[t].window = window
    BY <2>1, NewestIsPresent
  <2>3. samples[i].time < w.time
    <3>1. samples[i].time <= now
      BY <2>2 DEF OrderInv, TimesAreOrdered
    <3> QED
      BY <1>2, <2>2, <3>1
  <2>4. i \in Own
    <3>1. ~(i <= cursor)
      <4>1. i <= cursor => samples[i].epoch < epoch
        BY <1>0, <2>2 DEF CutsFit, TypeOK
      <4> QED
        BY <2>2, <4>1
    <3> QED
      BY <2>2, <3>1 DEF Own, TypeOK
  <2>5. MeasuredFrom(i)
    <3>1. \A k \in i .. Len(samples) : k = i
      OBVIOUS
    <3> HIDE DEF i
    <3> QED
      BY <2>1, <2>2, <3>1 DEF MeasuredFrom
  <2>6. Open(w)
    BY <2>1, <2>3, <2>4, <2>5 DEF Open
  <2> QED
    BY <1>0, <2>6 DEF Open, Own, MeasuredFrom
<1> QED
  BY <1>1, <1>2

LEMMA OwnStep ==
    ASSUME TypeOK, OrderInv, CutsFit, WorkIsPast, OwnCallsAreCovered, [Next]_vars
    PROVE  OwnCallsAreCovered'
<1>0. Steps
  BY EveryStepIsOfAKind DEF OrderInv
<1>1. CASE Start \/ BeginModelLoad \/ (BeginMeasured /\ window # "measured") \/ MarkPause
  BY <1>1, MarkCovers
<1>2. CASE Call
  BY <1>2, CallCovers
<1>3. CASE Cut \/ CountFailures \/ MoveFailedCursor
  BY <1>3 DEF Cut, CountFailures, MoveFailedCursor, OwnCallsAreCovered, Cutting
<1>4. CASE MarkIdle
  <2>1. case' = case + 1 /\ work' = work
    BY <1>4 DEF MarkIdle, history
  <2>2. case \in Nat /\ \A w \in work : w.case \in Nat /\ w.case <= case
    BY DEF WorkIsPast, TypeOK
  <2> QED
    BY <2>1, <2>2 DEF OwnCallsAreCovered
<1>5. CASE Die
  BY <1>5 DEF Die, OwnCallsAreCovered
<1>6. CASE CheckPause \/ FinishCase \/ (BeginMeasured /\ window = "measured")
  <2>1. UNCHANGED <<samples, window, cursor, case, work>> /\ ~Cutting
    BY <1>6 DEF CheckPause, FinishCase, BeginMeasured, Mark, progress, timeline, cutting, history,
                Cutting
  <2>2. ~Closed'
    BY <1>6 DEF CheckPause, FinishCase, BeginMeasured, Mark, Closed, Free, Ask, TypeOK, Threads
  <2> QED
    BY <1>0, <2>1, <2>2, OwnStays
<1>7. CASE Hold \/ GoOn \/ Stop \/ RemoveSentinel \/ LeaveReader
  <2>1. UNCHANGED <<samples, window, cursor, case, work>> /\ ~Cutting
    BY <1>7 DEF Hold, GoOn, Stop, RemoveSentinel, LeaveReader, progress, timeline, cutting,
                history, Cutting
  <2>2. ~Closed'
    BY <1>7 DEF Hold, GoOn, Stop, RemoveSentinel, LeaveReader, Closed
  <2> QED
    BY <1>0, <2>1, <2>2, OwnStays
<1>8. ASSUME NEW t \in Threads, Stamp(t) \/ ReadWindow(t)
      PROVE  OwnCallsAreCovered'
  <2>1. UNCHANGED <<samples, window, cursor, case, work, at>>
    BY <1>8 DEF Stamp, ReadWindow, progress, timeline, cutting, history
  <2>2. Free("main")' <=> Free("main")
    BY <1>8 DEF Stamp, ReadWindow, Free, TypeOK, Threads
  <2>3. (Closed' <=> Closed) /\ (Cutting' <=> Cutting)
    BY <2>1, <2>2 DEF Closed, Cutting
  <2> QED
    BY <1>0, <2>1, <2>3, OwnStays
<1>9. ASSUME NEW t \in Threads, Keep(t)
      PROVE  OwnCallsAreCovered'
  BY <1>9, KeepCovers
<1>10. CASE Tick \/ EndThread \/ AskPause \/ AskResume \/ Reader \/ UNCHANGED vars
  <2>1. UNCHANGED <<samples, window, cursor, case, work, at>>
    BY <1>10 DEF Tick, EndThread, AskPause, AskResume, Reader, ReaderTests, ReaderSleeps, vars,
                 progress, timeline, cutting, history
  <2>2. Free("main")' <=> Free("main")
    BY <1>10 DEF Tick, EndThread, AskPause, AskResume, Reader, ReaderTests, ReaderSleeps, vars,
                 capturing, Free, Ask, TypeOK, Threads
  <2>3. (Closed' <=> Closed) /\ (Cutting' <=> Cutting)
    BY <2>1, <2>2 DEF Closed, Cutting
  <2> QED
    BY <1>0, <2>1, <2>3, OwnStays
<1> QED
  BY <1>1, <1>2, <1>3, <1>4, <1>5, <1>6, <1>7, <1>8, <1>9, <1>10
     DEF Next, Workload, Capture

-------------------------------------------------------------------------------
\* The finished cases.

BlockCovers(w) == CoveredIn(samples, w, blocks[w.case].from .. blocks[w.case].to)

LEMMA CoveredBlocks ==
    CallsAreCovered <=>
        \A w \in work : w.window = "measured" /\ w.case <= Len(blocks) => BlockCovers(w)
BY DEF CallsAreCovered, BlockCovers, CoveredIn, Joined

LEMMA CoveredBlocksNext ==
    CallsAreCovered' <=>
        \A w \in work' : w.window = "measured" /\ w.case <= Len(blocks') => BlockCovers(w)'
BY DEF CallsAreCovered, BlockCovers, CoveredIn, Joined

LEMMA FinishedStep ==
    ASSUME TypeOK, OrderInv, CutsFit, WorkIsPast, OwnCallsAreCovered, CallsAreCovered, [Next]_vars
    PROVE  CallsAreCovered'
<1> USE SamplesAreNumbered
<1>0. /\ case \in Nat \ {0} /\ Len(blocks) \in Nat /\ cursor \in Nat
      /\ \A w \in work : w.case \in Nat \ {0} /\ w.case <= case
  BY DEF TypeOK, WorkIsPast
<1>1. CASE Cut
  <2>1. samples' = samples /\ work' = work /\ ~Cutting /\ Closed
    BY <1>1 DEF Cut, timeline, history, Cutting, Closed
  <2>2. Len(blocks) = case - 1 /\ Len(blocks') = case
    BY <1>0, <1>1, <2>1, CutBlocks DEF CutsFit
  <2>3. ASSUME NEW w \in work, w.window = "measured", w.case <= Len(blocks')
        PROVE  BlockCovers(w)'
    <3>1. CASE w.case \in 1 .. Len(blocks)
      <4>1. BlockCovers(w)
        BY <2>3, <3>1, CoveredBlocks
      <4>2. blocks'[w.case] = blocks[w.case]
        BY <1>1, <3>1, CutBlocks
      <4> QED
        BY <2>1, <4>1, <4>2 DEF BlockCovers
    <3>2. CASE w.case = case
      <4>1. CoveredIn(samples, w, Own)
        BY <2>1, <2>3, <3>2, CoveredIsIn DEF OwnCallsAreCovered
      <4>2. blocks'[w.case].from = cursor + 1 /\ blocks'[w.case].to = Len(samples)
        BY <1>0, <1>1, <2>2, <3>2, CutBlocks
      <4> QED
        BY <2>1, <4>1, <4>2 DEF BlockCovers, Own
    <3> QED
      BY <1>0, <2>2, <2>3, <3>1, <3>2
  <2> QED
    BY <2>1, <2>3, CoveredBlocksNext
<1>2. CASE CountFailures
  <2>1. samples' = samples /\ work' = work
    BY <1>2 DEF CountFailures, timeline, history
  <2>2. ASSUME NEW w \in work, w.window = "measured", w.case <= Len(blocks')
        PROVE  BlockCovers(w)'
    <3>1. w.case \in 1 .. Len(blocks)
      BY <1>0, <1>2, <2>2, CountedBlocks
    <3>2. BlockCovers(w)
      BY <2>2, <3>1, CoveredBlocks
    <3> QED
      BY <1>2, <2>1, <3>1, <3>2, CountedBlocks DEF BlockCovers
  <2> QED
    BY <2>1, <2>2, CoveredBlocksNext
<1>3. CASE Die
  BY <1>3 DEF Die, CallsAreCovered
<1>4. CASE Call
  <2>1. samples' = samples /\ blocks' = blocks /\ ~Cutting
        /\ work' = work \cup {[time |-> now + 1, case |-> case, window |-> window]}
    BY <1>4 DEF Call, timeline, cutting, Cutting
  <2>2. ASSUME NEW w \in work', w.window = "measured", w.case <= Len(blocks)
        PROVE  BlockCovers(w)
    <3>1. w \in work
      BY <1>0, <2>1, <2>2 DEF CutsFit
    <3> QED
      BY <2>2, <3>1, CoveredBlocks
  <2>3. \A w \in work' : BlockCovers(w)' <=> BlockCovers(w)
    BY <2>1 DEF BlockCovers
  <2> QED
    BY <2>1, <2>2, <2>3, CoveredBlocksNext
<1>5. CASE ~Cut /\ ~CountFailures /\ ~Die /\ ~Call
  <2>1. blocks' = blocks /\ work' = work
    BY <1>5, CutsStay, WorkStep DEF Moves, cuts, MarkIdle, cutting
  <2>2. /\ Len(samples) <= Len(samples')
        /\ \A i \in 1 .. Len(samples) : samples'[i] = samples[i]
    <3>1. CASE \E t \in Threads : Keep(t)
      BY <3>1, KeptLast
    <3>2. CASE ~\E t \in Threads : Keep(t)
      <4>1. samples' = samples
        BY <1>5, <3>2, EveryStepIsOfAKind
           DEF OrderInv, Steps, captured, Passes, Marks, Asks, Stamp, ReadWindow, timeline
      <4> QED
        BY <4>1
    <3> QED
      BY <3>1, <3>2
  <2>3. ASSUME NEW w \in work, w.window = "measured", w.case <= Len(blocks)
        PROVE  BlockCovers(w)'
    <3> DEFINE own == blocks[w.case].from .. blocks[w.case].to
    <3>1. w.case \in 1 .. Len(blocks) /\ CoveredIn(samples, w, own)
      BY <1>0, <2>3, CoveredBlocks DEF BlockCovers
    <3>2. own \in SUBSET (1 .. Len(samples))
      BY <3>1, BlocksAreIn
    <3> HIDE DEF own
    <3>3. CoveredIn(samples', w, own)
      BY <2>2, <3>1, <3>2, CoveredStays
    <3> QED
      BY <2>1, <3>3 DEF BlockCovers, own
  <2> QED
    BY <2>1, <2>3, CoveredBlocksNext
<1> QED
  BY <1>1, <1>2, <1>3, <1>4, <1>5

\* Whatever the workload and its pauses, every call of a finished case that was
\* made in the measured window lies between two samples that the case's energy
\* is integrated over.
THEOREM CallsAreAlwaysCovered == Spec => []CallsAreCovered
<1>1. Init => CoverInv
  BY CutsInit DEF CoverInv
<1>2. TypeOK /\ OrderInv /\ CoverInv /\ [Next]_vars => CoverInv'
  BY CutsStep, PastStep, OwnStep, FinishedStep DEF CoverInv
<1>3. CoverInv => CallsAreCovered
  BY DEF CoverInv
<1> QED
  BY <1>1, <1>2, <1>3, TelemetryTypeCorrect, OrderIsAnInvariant, PTL DEF Spec
===============================================================================
