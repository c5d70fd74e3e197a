----------------------- MODULE RunnerSupervisorProofs -----------------------
(***************************************************************************)
(* What the supervision of a runner guarantees however long the runner     *)
(* works, whatever the timeouts, and whatever fails.                       *)
(***************************************************************************)
EXTENDS RunnerSupervisor, SequenceTheorems, FiniteSetTheorems, FunctionTheorems, TLAPS

-----------------------------------------------------------------------------
(***************************************************************************)
(* Type correctness.                                                       *)
(***************************************************************************)

LEMMA SupervisorTypeInit == Init => SupervisorTypeOK
<1> SUFFICES ASSUME Init PROVE SupervisorTypeOK
  OBVIOUS
<1>1. /\ <<>> \in Seq(Lines) /\ <<>> \in Seq(Lines \cup {"end"})
      /\ <<>> \in Seq({"complete", "failed"})
  OBVIOUS
<1>2. /\ engine \in BOOLEAN /\ warned \in BOOLEAN
      /\ eof \in BOOLEAN /\ closed \in BOOLEAN /\ owned \in BOOLEAN
  BY Zenon DEF Init
<1>3. /\ work = "new" /\ code = "none" /\ health = "never"
      /\ commits = 0 /\ beatAge = 0 /\ pipe = <<>> /\ queue = <<>>
      /\ pc = "start" /\ terminal = <<>> /\ silence = 0 /\ left = 0
      /\ cancels = 0 /\ why = "none" /\ interrupts = 0
      /\ exported = 0 /\ outcome = "none"
  BY DEF Init
<1> QED
  BY <1>1, <1>2, <1>3, SupervisorAssumption DEF SupervisorTypeOK

LEMMA SupervisorTypeStep == SupervisorTypeOK /\ [Next]_vars => SupervisorTypeOK'
<1> SUFFICES ASSUME SupervisorTypeOK, [Next]_vars PROVE SupervisorTypeOK'
  OBVIOUS
<1> USE SupervisorAssumption DEF SupervisorTypeOK, runnerVars, lineVars, parentVars
<1>1. CASE StartEngine
  BY <1>1 DEF StartEngine, Lines
<1>2. CASE Commit
  BY <1>2 DEF Commit, Lines
<1>3. CASE Announce
  BY <1>3 DEF Announce, Write, Lines
<1>4. CASE Exit
  BY <1>4 DEF Exit, Lines
<1>5. CASE Beat
  BY <1>5 DEF Beat, Write, Beating, Lines
<1>6. CASE Die
  BY <1>6 DEF Die, Lines
<1>7. CASE Freeze
  BY <1>7 DEF Freeze, Lines
<1>8. CASE Thaw
  BY <1>8 DEF Thaw, Lines
<1>9. CASE ReadLine
  BY <1>9 DEF ReadLine, Lines
<1>10. CASE ReadEnd
  BY <1>10 DEF ReadEnd, Lines
<1>11. CASE Start
  BY <1>11 DEF Start, Lines
<1>12. CASE Take
  BY <1>12 DEF Take, SilenceAfter, LoopEnds, Lines
<1>13. CASE Export
  BY <1>13 DEF Export, Lines
<1>14. CASE HeartbeatLost
  BY <1>14 DEF HeartbeatLost, Raise, Lines
<1>15. CASE Check
  BY <1>15 DEF Check, Lines
<1>16. CASE Return
  BY <1>16 DEF Return, LoopEnds, Lines
<1>17. CASE Signal
  <2>1. owned' \in BOOLEAN /\ warned' \in BOOLEAN /\ engine' \in BOOLEAN
    <3>1. owned' \in BOOLEAN
      BY <1>17, Zenon DEF Signal
    <3>2. warned' \in BOOLEAN
      BY <1>17, Zenon DEF Signal
    <3>3. engine' \in {engine, FALSE} \/ engine' = engine
      BY <1>17, Zenon DEF Signal
    <3> QED
      BY <3>1, <3>2, <3>3, Zenon
  <2>2. /\ UNCHANGED <<work, code, health, commits, beatAge, lineVars, closed,
                       terminal, silence, cancels, why, interrupts, exported, outcome>>
        /\ pc' \in {"grace", "reap"}
        /\ left' = GracefulTimeout
    BY <1>17, Zenon DEF Signal
  <2> QED
    BY <2>1, <2>2
<1>18. CASE GraceEnds
  BY <1>18 DEF GraceEnds, Lines
<1>19. CASE Reap
  BY <1>19 DEF Reap, AfterCancel, Alive, Lines
<1>20. CASE Final
  BY <1>20 DEF Final, Accepted, Lines
<1>21. CASE ExportRaises
  BY <1>21 DEF ExportRaises, Raise, Lines
<1>22. CASE FinalRaises
  BY <1>22 DEF FinalRaises, Escape, Lines
<1>23. CASE Interrupt
  BY <1>23 DEF Interrupt, Raise, Escape, Cancelling, Lines
<1>24. CASE Tick
  BY <1>24 DEF Tick, Quiet, Beating, LoopEnds, Lines
<1>25. ASSUME NEW status \in {"complete", "failed"}, End(status) PROVE SupervisorTypeOK'
  <2>1. engine' \in BOOLEAN
    BY <1>25, Zenon DEF End
  <2>2. /\ pipe' = Append(pipe, status) /\ work' = "said" /\ code' \in {"ok", "error"}
        /\ UNCHANGED <<health, commits, beatAge, warned, queue, eof, parentVars>>
    BY <1>25, Zenon DEF End, Write
  <2>3. pipe' \in Seq(Lines)
    BY <2>2 DEF Lines
  <2> QED
    BY <2>1, <2>2, <2>3
<1>26. CASE UNCHANGED vars
  BY <1>26 DEF vars
<1> QED
  BY <1>1, <1>2, <1>3, <1>4, <1>5, <1>6, <1>7, <1>8, <1>9, <1>10, <1>11, <1>12, <1>13, <1>14, <1>15, <1>16, <1>17, <1>18, <1>19, <1>20, <1>21, <1>22, <1>23, <1>24, <1>25, <1>26
     DEF Next, Workload, Reader, Parent

THEOREM SupervisorTypeCorrect == Spec => []SupervisorTypeOK
BY SupervisorTypeInit, SupervisorTypeStep, PTL DEF Spec

-----------------------------------------------------------------------------
(***************************************************************************)
(* Lines on their way: what appending and taking lines does to them.       *)
(***************************************************************************)

Written == Lines \cup {"end"}

LEMMA NoTerminalAppend ==
    ASSUME NEW s \in Seq(Written), NEW x \in Written, x \notin Statuses, NoTerminalIn(s)
    PROVE  NoTerminalIn(Append(s, x))
BY AppendProperties, LenProperties DEF NoTerminalIn

LEMMA OneTerminalAppend ==
    ASSUME NEW s \in Seq(Written), NEW x \in Written, x \notin Statuses,
           NEW status \in Statuses, OneTerminalIn(s, status)
    PROVE  OneTerminalIn(Append(s, x), status)
<1>1. PICK i \in 1 .. Len(s) : s[i] = status /\ \A j \in 1 .. Len(s) : j # i => s[j] \notin Statuses
  BY DEF OneTerminalIn
<1>2. Len(s) \in Nat /\ i \in 1 .. Len(Append(s, x)) /\ Append(s, x)[i] = status
  BY <1>1, AppendProperties, LenProperties
<1>3. \A j \in 1 .. Len(Append(s, x)) : j # i => Append(s, x)[j] \notin Statuses
  BY <1>1, <1>2, AppendProperties
<1> QED
  BY <1>2, <1>3 DEF OneTerminalIn

LEMMA TerminalAppend ==
    ASSUME NEW s \in Seq(Written), NEW status \in Statuses, NoTerminalIn(s)
    PROVE  OneTerminalIn(Append(s, status), status)
<1>1. status \in Written
  BY DEF Written, Lines, Statuses
<1>2. Len(s) \in Nat
  BY LenProperties
<1>3. Len(s) + 1 \in 1 .. Len(Append(s, status)) /\ Append(s, status)[Len(s) + 1] = status
  BY <1>1, <1>2, AppendProperties
<1>4. \A j \in 1 .. Len(Append(s, status)) :
         j # Len(s) + 1 => Append(s, status)[j] \notin Statuses
  BY <1>1, <1>2, AppendProperties DEF NoTerminalIn
<1> QED
  BY <1>3, <1>4 DEF OneTerminalIn

LEMMA HeadIsFirst ==
    ASSUME NEW s \in Seq(Written), s # <<>>
    PROVE  /\ Len(s) \in Nat \ {0} /\ Head(s) = s[1] /\ Tail(s) \in Seq(Written)
           /\ Len(Tail(s)) = Len(s) - 1
           /\ \A i \in 1 .. Len(Tail(s)) : Tail(s)[i] = s[i + 1]
BY HeadTailProperties, EmptySeq

LEMMA NoTerminalTail ==
    ASSUME NEW s \in Seq(Written), s # <<>>, NoTerminalIn(s)
    PROVE  Head(s) \notin Statuses /\ NoTerminalIn(Tail(s))
BY HeadIsFirst DEF NoTerminalIn

LEMMA OneTerminalTail ==
    ASSUME NEW s \in Seq(Written), s # <<>>, NEW status \in Statuses,
           OneTerminalIn(s, status)
    PROVE  \/ Head(s) = status /\ NoTerminalIn(Tail(s))
           \/ Head(s) \notin Statuses /\ OneTerminalIn(Tail(s), status)
<1>1. PICK i \in 1 .. Len(s) : s[i] = status /\ \A j \in 1 .. Len(s) : j # i => s[j] \notin Statuses
  BY DEF OneTerminalIn
<1>2. CASE i = 1
  BY <1>1, <1>2, HeadIsFirst DEF NoTerminalIn
<1>3. CASE i # 1
  <2>1. i - 1 \in 1 .. Len(Tail(s)) /\ Tail(s)[i - 1] = status
    BY <1>1, <1>3, HeadIsFirst
  <2>2. \A j \in 1 .. Len(Tail(s)) : j # i - 1 => Tail(s)[j] \notin Statuses
    BY <1>1, HeadIsFirst
  <2>3. Head(s) \notin Statuses
    BY <1>1, <1>3, HeadIsFirst
  <2> QED
    BY <2>1, <2>2, <2>3 DEF OneTerminalIn
<1> QED
  BY <1>2, <1>3

LEMMA LinesAreWritten ==
    ASSUME SupervisorTypeOK
    PROVE  pipe \in Seq(Written) /\ queue \in Seq(Written) /\ Pending \in Seq(Written)
BY ConcatProperties DEF SupervisorTypeOK, Pending, Written

\* The reader moves a line; nothing gets lost or changes places.
LEMMA PendingMoves ==
    ASSUME NEW q \in Seq(Written), NEW l \in Seq(Written), l # <<>>
    PROVE  Append(q, Head(l)) \o Tail(l) = q \o l
<1>1. /\ Len(l) \in Nat \ {0} /\ Head(l) = l[1] /\ Head(l) \in Written
      /\ Tail(l) \in Seq(Written) /\ Len(Tail(l)) = Len(l) - 1
      /\ \A i \in 1 .. Len(Tail(l)) : Tail(l)[i] = l[i + 1]
  BY HeadIsFirst, HeadTailProperties
<1>2. /\ Len(q) \in Nat /\ Append(q, Head(l)) \in Seq(Written)
      /\ Len(Append(q, Head(l))) = Len(q) + 1
      /\ \A i \in 1 .. Len(q) : Append(q, Head(l))[i] = q[i]
      /\ Append(q, Head(l))[Len(q) + 1] = l[1]
  BY <1>1, AppendProperties, LenProperties
<1> DEFINE moved == Append(q, Head(l)) \o Tail(l)
<1>3. /\ moved \in Seq(Written)
      /\ Len(moved) = Len(q) + Len(l)
      /\ \A i \in 1 .. Len(q) + Len(l) :
            moved[i] = IF i <= Len(q) + 1 THEN Append(q, Head(l))[i]
                       ELSE Tail(l)[i - (Len(q) + 1)]
  <2>1. Len(Append(q, Head(l))) + Len(Tail(l)) = Len(q) + Len(l)
    BY <1>1, <1>2
  <2> QED
    BY <1>1, <1>2, <2>1, ConcatProperties
<1>4. /\ q \o l \in Seq(Written)
      /\ Len(q \o l) = Len(q) + Len(l)
      /\ \A i \in 1 .. Len(q) + Len(l) :
            (q \o l)[i] = IF i <= Len(q) THEN q[i] ELSE l[i - Len(q)]
  BY ConcatProperties
<1>5. ASSUME NEW i \in 1 .. Len(moved) PROVE moved[i] = (q \o l)[i]
  <2>1. CASE i <= Len(q)
    BY <1>2, <1>3, <1>4, <2>1
  <2>2. CASE i = Len(q) + 1
    BY <1>1, <1>2, <1>3, <1>4, <2>2
  <2>3. CASE i > Len(q) + 1
    <3>1. i - (Len(q) + 1) \in 1 .. Len(Tail(l))
      BY <1>1, <1>2, <1>3, <2>3
    <3>2. Tail(l)[i - (Len(q) + 1)] = l[i - Len(q)]
      BY <1>1, <1>2, <3>1
    <3> QED
      BY <1>2, <1>3, <1>4, <2>3, <3>2
  <2> QED
    BY <1>2, <1>3, <2>1, <2>2, <2>3
<1> HIDE DEF moved
<1>6. moved = q \o l
  BY <1>3, <1>4, <1>5, SeqEqual
<1> QED
  BY <1>6 DEF moved

\* The parent takes the first of the pending lines.
LEMMA PendingTaken ==
    ASSUME NEW q \in Seq(Written), NEW l \in Seq(Written), q # <<>>
    PROVE  q \o l # <<>> /\ Head(q \o l) = Head(q) /\ Tail(q \o l) = Tail(q) \o l
<1>1. /\ Len(q) \in Nat \ {0} /\ Head(q) = q[1] /\ Tail(q) \in Seq(Written)
      /\ Len(Tail(q)) = Len(q) - 1
      /\ \A i \in 1 .. Len(Tail(q)) : Tail(q)[i] = q[i + 1]
  BY HeadIsFirst
<1>2. /\ q \o l \in Seq(Written) /\ Len(l) \in Nat
      /\ Len(q \o l) = Len(q) + Len(l)
      /\ \A i \in 1 .. Len(q) + Len(l) :
            (q \o l)[i] = IF i <= Len(q) THEN q[i] ELSE l[i - Len(q)]
  BY ConcatProperties, LenProperties
<1>3. q \o l # <<>>
  BY <1>1, <1>2, EmptySeq
<1>4. /\ Head(q \o l) = (q \o l)[1] /\ Tail(q \o l) \in Seq(Written)
      /\ Len(Tail(q \o l)) = Len(q) + Len(l) - 1
      /\ \A i \in 1 .. Len(Tail(q \o l)) : Tail(q \o l)[i] = (q \o l)[i + 1]
  BY <1>2, <1>3, HeadIsFirst
<1>5. /\ Tail(q) \o l \in Seq(Written)
      /\ Len(Tail(q) \o l) = Len(q) - 1 + Len(l)
      /\ \A i \in 1 .. Len(q) - 1 + Len(l) :
            (Tail(q) \o l)[i] = IF i <= Len(q) - 1 THEN Tail(q)[i] ELSE l[i - (Len(q) - 1)]
  BY <1>1, ConcatProperties
<1>6. ASSUME NEW i \in 1 .. Len(Tail(q \o l)) PROVE Tail(q \o l)[i] = (Tail(q) \o l)[i]
  <2>1. CASE i <= Len(q) - 1
    BY <1>1, <1>2, <1>4, <1>5, <2>1
  <2>2. CASE i > Len(q) - 1
    <3>1. (q \o l)[i + 1] = l[i + 1 - Len(q)] /\ i + 1 - Len(q) = i - (Len(q) - 1)
      BY <1>1, <1>2, <1>4, <2>2
    <3> QED
      BY <1>1, <1>2, <1>4, <1>5, <2>2, <3>1
  <2> QED
    BY <1>1, <2>1, <2>2
<1>7. Tail(q \o l) = Tail(q) \o l
  BY <1>1, <1>2, <1>4, <1>5, <1>6, SeqEqual
<1>8. Head(q \o l) = Head(q)
  BY <1>1, <1>2, <1>4
<1> QED
  BY <1>3, <1>7, <1>8

\* A line the runner writes is the last of the pending lines.
LEMMA PendingWritten ==
    ASSUME NEW q \in Seq(Written), NEW l \in Seq(Written), NEW x \in Written
    PROVE  q \o Append(l, x) = Append(q \o l, x)
<1>1. Append(l, x) = l \o <<x>> /\ <<x>> \in Seq(Written)
  BY AppendIsConcat
<1>2. q \o l \in Seq(Written)
  BY ConcatProperties
<1>3. Append(q \o l, x) = (q \o l) \o <<x>>
  BY <1>2, AppendIsConcat
<1>4. (q \o l) \o <<x>> = q \o (l \o <<x>>)
  BY <1>1, ConcatAssociative
<1> QED
  BY <1>1, <1>3, <1>4

-----------------------------------------------------------------------------
(***************************************************************************)
(* The inductive invariant, part by part.                                  *)
(***************************************************************************)

\* The steps that write, move or take lines, or change what the runner is.
LineStep == Announce \/ Beat \/ ReadLine \/ ReadEnd \/ Take
RunnerStep ==
    \/ Start \/ Commit \/ Exit \/ Die \/ Reap
    \/ \E status \in {"complete", "failed"} : End(status)

LEMMA OtherSteps ==
    ASSUME [Next]_vars, ~LineStep, ~RunnerStep
    PROVE  UNCHANGED <<work, code, terminal, pipe, queue, eof, closed>>
<1> USE DEF lineVars, runnerVars, parentVars
<1>1. CASE StartEngine
  BY <1>1 DEF StartEngine
<1>2. CASE Freeze
  BY <1>2 DEF Freeze
<1>3. CASE Thaw
  BY <1>3 DEF Thaw
<1>4. CASE Export
  BY <1>4 DEF Export
<1>5. CASE HeartbeatLost
  BY <1>5 DEF HeartbeatLost, Raise
<1>6. CASE Check
  BY <1>6 DEF Check
<1>7. CASE Return
  BY <1>7 DEF Return
<1>8. CASE Signal
  BY <1>8 DEF Signal
<1>9. CASE GraceEnds
  BY <1>9 DEF GraceEnds
<1>10. CASE Final
  BY <1>10 DEF Final
<1>11. CASE ExportRaises
  BY <1>11 DEF ExportRaises, Raise
<1>12. CASE FinalRaises
  BY <1>12 DEF FinalRaises, Escape
<1>13. CASE Interrupt
  BY <1>13 DEF Interrupt, Raise, Escape
<1>14. CASE Tick
  BY <1>14 DEF Tick
<1>15. CASE UNCHANGED vars
  BY <1>15 DEF vars
<1> QED
  BY <1>1, <1>2, <1>3, <1>4, <1>5, <1>6, <1>7, <1>8, <1>9, <1>10, <1>11, <1>12, <1>13, <1>14, <1>15, Zenon
     DEF Next, Workload, Reader, Parent, LineStep, RunnerStep

LEMMA StatusStep ==
    ASSUME SupervisorTypeOK, StatusIsOnItsWay, SentinelIsLast, ParentKnows, [Next]_vars
    PROVE  StatusIsOnItsWay'
<1> USE DEF lineVars, runnerVars, parentVars
<1>1. /\ pipe \in Seq(Written) /\ queue \in Seq(Written) /\ Pending \in Seq(Written)
      /\ pipe \in Seq(Lines) /\ queue \in Seq(Lines \cup {"end"})
      /\ terminal \in Seq(Statuses)
  BY LinesAreWritten DEF SupervisorTypeOK, Statuses
<1>2. ASSUME NEW x \in {"event", "heartbeat"}, Write(x), UNCHANGED <<code, terminal, queue>>,
             work \in {"busy", "committed"}, work' \in {"busy", "committed"}
      PROVE  StatusIsOnItsWay'
  <2>1. x \in Written /\ x \notin Statuses
    BY <1>2 DEF Written, Lines, Statuses
  <2>2. Pending' = Append(Pending, x)
    BY <1>1, <1>2, <2>1, PendingWritten DEF Write, Pending
  <2>3. code = "none" /\ terminal = <<>> /\ NoTerminalIn(Pending)
    BY <1>2 DEF StatusIsOnItsWay
  <2>4. NoTerminalIn(Pending')
    BY <1>1, <2>1, <2>2, <2>3, NoTerminalAppend
  <2> QED
    BY <1>2, <2>3, <2>4 DEF StatusIsOnItsWay
<1>3. CASE Announce
  BY <1>2, <1>3 DEF Announce
<1>4. CASE Beat
  BY <1>2, <1>4 DEF Beat, Beating
<1>5. ASSUME NEW status \in {"complete", "failed"}, End(status) PROVE StatusIsOnItsWay'
  <2>1. work \in {"busy", "committed"} /\ work' = "said" /\ Write(status)
        /\ UNCHANGED <<terminal, queue>> /\ (code' = "ok" => status = "complete")
    BY <1>5 DEF End
  <2>2. status \in Statuses /\ status \in Written
    BY DEF Written, Lines, Statuses
  <2>3. terminal = <<>> /\ NoTerminalIn(Pending)
    BY <2>1 DEF StatusIsOnItsWay
  <2>4. Pending' = Append(Pending, status)
    BY <1>1, <2>1, <2>2, PendingWritten DEF Write, Pending
  <2>5. OneTerminalIn(Pending', status)
    BY <1>1, <2>2, <2>3, <2>4, TerminalAppend
  <2> QED
    BY <2>1, <2>3, <2>5 DEF StatusIsOnItsWay
<1>6. CASE ReadLine
  <2>1. Pending' = Pending
    BY <1>1, <1>6, PendingMoves DEF ReadLine, Pending
  <2>2. UNCHANGED <<work, code, terminal>>
    BY <1>6 DEF ReadLine
  <2> QED
    BY <2>1, <2>2 DEF StatusIsOnItsWay
<1>7. CASE ReadEnd
  <2>1. "end" \in Written /\ "end" \notin Statuses
    BY DEF Written, Lines, Statuses
  <2>2. pipe = <<>> /\ pipe' = <<>> /\ queue' = Append(queue, "end") /\ work = "dead"
        /\ UNCHANGED <<work, code, terminal>>
    BY <1>7 DEF ReadEnd
  <2>3. Pending = queue /\ Pending' = queue'
    <3>1. queue' \in Seq(Written)
      BY <1>1, <2>1, <2>2, AppendProperties
    <3> QED
      BY <1>1, <2>2, <3>1, ConcatEmptySeq DEF Pending
  <2>4. NoTerminalIn(Pending) => NoTerminalIn(Pending')
    BY <1>1, <2>1, <2>2, <2>3, NoTerminalAppend
  <2>5. OneTerminalIn(Pending, "complete") => OneTerminalIn(Pending', "complete")
    BY <1>1, <2>1, <2>2, <2>3, OneTerminalAppend DEF Statuses
  <2> QED
    BY <2>2, <2>4, <2>5 DEF StatusIsOnItsWay
<1>8. CASE Take
  <2>1. /\ queue # <<>> /\ queue' = Tail(queue) /\ UNCHANGED <<work, code, pipe>>
        /\ terminal' = IF Head(queue) \in Statuses THEN Append(terminal, Head(queue)) ELSE terminal
    BY <1>8 DEF Take, Statuses
  <2>2. Pending # <<>> /\ Head(Pending) = Head(queue) /\ Pending' = Tail(Pending)
    BY <1>1, <2>1, PendingTaken DEF Pending
  <2>3. NoTerminalIn(Pending) => terminal' = terminal /\ NoTerminalIn(Pending')
    BY <1>1, <2>1, <2>2, NoTerminalTail
  <2>4. ASSUME terminal = <<>>, OneTerminalIn(Pending, "complete")
        PROVE  \/ terminal' = <<>> /\ OneTerminalIn(Pending', "complete")
               \/ terminal' = <<"complete">> /\ NoTerminalIn(Pending')
    <3>1. \/ Head(Pending) = "complete" /\ NoTerminalIn(Tail(Pending))
          \/ Head(Pending) \notin Statuses /\ OneTerminalIn(Tail(Pending), "complete")
      BY <1>1, <2>2, <2>4, OneTerminalTail DEF Statuses
    <3>2. Append(<<>>, "complete") = <<"complete">>
      OBVIOUS
    <3> QED
      BY <2>1, <2>2, <2>4, <3>1, <3>2 DEF Statuses
  <2> QED
    BY <2>1, <2>3, <2>4 DEF StatusIsOnItsWay
<1>9. CASE Start \/ Commit \/ Exit \/ Die \/ Reap
  <2>1. UNCHANGED <<terminal, pipe, queue>>
    BY <1>9 DEF Start, Commit, Exit, Die, Reap
  <2>2. UNCHANGED Pending
    BY <2>1 DEF Pending
  <2>3. NoTerminalIn(Pending') <=> NoTerminalIn(Pending)
    BY <2>2
  <2>4. OneTerminalIn(Pending', "complete") <=> OneTerminalIn(Pending, "complete")
    BY <2>2
  <2>5. CASE Start
    BY <2>1, <2>3, <2>4, <2>5 DEF Start, StatusIsOnItsWay, ParentKnows
  <2>6. CASE Commit
    BY <2>1, <2>3, <2>4, <2>6 DEF Commit, StatusIsOnItsWay
  <2>7. CASE Exit
    BY <2>1, <2>3, <2>4, <2>7 DEF Exit, StatusIsOnItsWay
  <2>8. CASE Die
    BY <2>1, <2>3, <2>4, <2>8 DEF Die, StatusIsOnItsWay
  <2>9. CASE Reap
    BY <2>1, <2>3, <2>4, <2>9 DEF Reap, Alive, StatusIsOnItsWay, SupervisorTypeOK
  <2> QED
    BY <1>9, <2>5, <2>6, <2>7, <2>8, <2>9
<1>10. CASE ~LineStep /\ ~RunnerStep
  <2>1. UNCHANGED <<work, code, terminal, pipe, queue>>
    BY <1>10, OtherSteps
  <2> QED
    BY <2>1 DEF StatusIsOnItsWay, Pending, NoTerminalIn, OneTerminalIn
<1> QED
  BY <1>3, <1>4, <1>5, <1>6, <1>7, <1>8, <1>9, <1>10 DEF LineStep, RunnerStep

LEMMA SentinelStep ==
    ASSUME SupervisorTypeOK, SentinelIsLast, ParentKnows, [Next]_vars
    PROVE  SentinelIsLast'
<1> USE DEF lineVars, runnerVars, parentVars
<1>1. pipe \in Seq(Lines) /\ queue \in Seq(Written) /\ Len(queue) \in Nat
  BY LinesAreWritten, LenProperties DEF SupervisorTypeOK
<1>2. ASSUME NEW x, Write(x), work \notin {"new", "dead"}, UNCHANGED <<queue, eof, closed>>
      PROVE  SentinelIsLast'
  BY <1>2 DEF SentinelIsLast
<1>3. CASE Announce
  BY <1>2, <1>3 DEF Announce
<1>4. CASE Beat
  BY <1>2, <1>4 DEF Beat, Beating
<1>5. ASSUME NEW status \in {"complete", "failed"}, End(status) PROVE SentinelIsLast'
  BY <1>2, <1>5 DEF End
<1>6. CASE ReadLine
  <2>1. ~eof /\ ~closed /\ UNCHANGED <<eof, closed>> /\ queue' = Append(queue, Head(pipe))
    BY <1>6 DEF ReadLine, SentinelIsLast
  <2>2. Head(pipe) \in Written /\ Head(pipe) # "end"
    <3>1. Head(pipe) \in Lines
      BY <1>1, <1>6, HeadTailProperties DEF ReadLine
    <3> QED
      BY <3>1 DEF Lines, Written
  <2>3. \A i \in 1 .. Len(queue') : queue'[i] # "end"
    BY <1>1, <2>1, <2>2, AppendProperties DEF SentinelIsLast
  <2> QED
    BY <2>1, <2>3 DEF SentinelIsLast
<1>7. CASE ReadEnd
  <2>1. /\ ~eof /\ ~closed /\ eof' /\ ~closed' /\ queue' = Append(queue, "end")
        /\ work' = "dead" /\ pipe' = <<>>
    BY <1>7 DEF ReadEnd, SentinelIsLast
  <2>2. "end" \in Written
    BY DEF Written
  <2>3. \A i \in 1 .. Len(queue') : queue'[i] = "end" => i = Len(queue')
    BY <1>1, <2>1, <2>2, AppendProperties DEF SentinelIsLast
  <2> QED
    BY <2>1, <2>3 DEF SentinelIsLast
<1>8. CASE Take
  <2>1. /\ queue # <<>> /\ queue' = Tail(queue) /\ ~closed
        /\ UNCHANGED <<work, pipe, eof>> /\ (closed' => Head(queue) = "end")
    BY <1>8 DEF Take, SentinelIsLast
  <2>2. /\ Len(queue) \in Nat \ {0} /\ Head(queue) = queue[1] /\ Tail(queue) \in Seq(Written)
        /\ Len(Tail(queue)) = Len(queue) - 1
        /\ \A i \in 1 .. Len(Tail(queue)) : Tail(queue)[i] = queue[i + 1]
    BY <1>1, <2>1, HeadIsFirst
  <2>3. ASSUME NEW i \in 1 .. Len(queue), queue[i] = "end" PROVE eof /\ i = Len(queue)
    BY <2>3, Zenon DEF SentinelIsLast
  <2>4. ASSUME closed' PROVE eof /\ queue' = <<>>
    <3>1. 1 \in 1 .. Len(queue) /\ queue[1] = "end"
      BY <2>1, <2>2, <2>4
    <3>2. eof /\ 1 = Len(queue)
      BY <2>3, <3>1, Zenon
    <3>3. queue' = <<>>
      BY <2>1, <2>2, <3>2, EmptySeq
    <3> QED
      BY <3>2, <3>3, Zenon
  <2>5. ASSUME NEW i \in 1 .. Len(queue'), queue'[i] = "end" PROVE eof /\ i = Len(queue')
    <3>1. i + 1 \in 1 .. Len(queue) /\ queue[i + 1] = "end"
      BY <2>1, <2>2, <2>5
    <3>2. eof /\ i + 1 = Len(queue)
      BY <2>3, <3>1, Zenon
    <3>3. /\ Len(queue') = Len(queue) - 1
          /\ Len(queue) \in Nat /\ i \in Nat /\ Len(queue') \in Nat
      BY <2>1, <2>2, <2>5
    <3>4. i + 1 = Len(queue)
      BY <3>2, Zenon
    <3>5. i = Len(queue')
      BY ONLY <3>3, <3>4
    <3> QED
      BY <3>2, <3>5, Zenon
  <2>6. (eof' => eof) /\ (eof => work = "dead" /\ pipe = <<>>) /\ work' = work /\ pipe' = pipe
    BY <2>1, Zenon DEF SentinelIsLast
  <2> QED
    BY <2>1, <2>4, <2>5, <2>6, Zenon DEF SentinelIsLast
<1>9. CASE Start \/ Commit \/ Exit \/ Die \/ Reap
  <2>1. UNCHANGED <<pipe, queue, eof, closed>> /\ (work = "dead" => work' = "dead")
    BY <1>9 DEF Start, Commit, Exit, Die, Reap, Alive, ParentKnows
  <2> QED
    BY <2>1 DEF SentinelIsLast
<1>10. CASE ~LineStep /\ ~RunnerStep
  <2>1. UNCHANGED <<work, pipe, queue, eof, closed>>
    BY <1>10, OtherSteps
  <2> QED
    BY <2>1 DEF SentinelIsLast
<1> QED
  BY <1>3, <1>4, <1>5, <1>6, <1>7, <1>8, <1>9, <1>10 DEF LineStep, RunnerStep

\* What the runner and the reader do, as far as the parent is concerned.
LEMMA RunnerSteps ==
    ASSUME [Next]_vars, ~Parent, ~ExportRaises, ~FinalRaises, ~Interrupt, ~Tick
    PROVE  \/ UNCHANGED <<parentVars, work, code, commits>>
           \/ UNCHANGED parentVars /\ work \notin {"new", "dead"} /\ work' # "new"
<1> USE DEF lineVars, runnerVars, parentVars
<1>1. CASE StartEngine
  BY <1>1 DEF StartEngine
<1>2. CASE Commit
  BY <1>2 DEF Commit
<1>3. CASE Announce
  BY <1>3 DEF Announce
<1>4. CASE Exit
  BY <1>4 DEF Exit
<1>5. CASE Beat
  BY <1>5 DEF Beat
<1>6. CASE Die
  BY <1>6 DEF Die
<1>7. CASE Freeze
  BY <1>7 DEF Freeze
<1>8. CASE Thaw
  BY <1>8 DEF Thaw
<1>9. CASE Reader
  BY <1>9 DEF Reader, ReadLine, ReadEnd
<1>10. ASSUME NEW status \in {"complete", "failed"}, End(status)
       PROVE  UNCHANGED parentVars /\ work \notin {"new", "dead"} /\ work' # "new"
  BY <1>10 DEF End
<1>11. CASE UNCHANGED vars
  BY <1>11 DEF vars
<1> QED
  BY <1>1, <1>2, <1>3, <1>4, <1>5, <1>6, <1>7, <1>8, <1>9, <1>10, <1>11, Zenon
     DEF Next, Workload

LEMMA KnowsStep ==
    ASSUME SupervisorTypeOK, ParentKnows, [Next]_vars
    PROVE  ParentKnows'
<1> USE DEF lineVars, runnerVars, parentVars, ParentKnows, Cancelling
<1>1. CASE Start
  BY <1>1 DEF Start
<1>2. CASE Take
  BY <1>2 DEF Take
<1>3. CASE Export
  BY <1>3 DEF Export
<1>4. CASE HeartbeatLost
  BY <1>4 DEF HeartbeatLost, Raise
<1>5. CASE Check
  BY <1>5 DEF Check
<1>6. CASE Return
  BY <1>6 DEF Return, LoopEnds
<1>7. CASE Signal
  BY <1>7 DEF Signal
<1>8. CASE GraceEnds
  BY <1>8 DEF GraceEnds
<1>9. CASE Reap
  BY <1>9 DEF Reap, AfterCancel, Alive
<1>10. CASE Final
  BY <1>10 DEF Final, Accepted
<1>11. CASE ExportRaises
  BY <1>11 DEF ExportRaises, Raise
<1>12. CASE FinalRaises
  BY <1>12 DEF FinalRaises, Escape
<1>13. CASE Interrupt
  BY <1>13 DEF Interrupt, Raise, Escape, SupervisorTypeOK
<1>14. CASE Tick
  BY <1>14 DEF Tick, Quiet, Accepted
<1>15. CASE ~Parent /\ ~ExportRaises /\ ~FinalRaises /\ ~Interrupt /\ ~Tick
  BY <1>15, RunnerSteps DEF Accepted
<1> QED
  BY <1>1, <1>2, <1>3, <1>4, <1>5, <1>6, <1>7, <1>8, <1>9, <1>10, <1>11, <1>12, <1>13, <1>14, <1>15
     DEF Parent

LEMMA SilenceStep ==
    ASSUME SupervisorTypeOK, ParentKnows, SilenceIsWatched, [Next]_vars
    PROVE  SilenceIsWatched'
<1> USE SupervisorAssumption DEF lineVars, runnerVars, parentVars, SilenceIsWatched, Alive
<1> silence \in Nat /\ left \in Nat
  BY DEF SupervisorTypeOK
<1>1. CASE Start
  BY <1>1 DEF Start, ParentKnows
<1>2. CASE Take
  BY <1>2 DEF Take, SilenceAfter
<1>3. CASE Export
  BY <1>3 DEF Export
<1>4. CASE HeartbeatLost
  BY <1>4 DEF HeartbeatLost, Raise
<1>5. CASE Check
  BY <1>5 DEF Check, TooSilent
<1>6. CASE Return
  BY <1>6 DEF Return
<1>7. CASE Signal
  BY <1>7 DEF Signal
<1>8. CASE GraceEnds
  BY <1>8 DEF GraceEnds
<1>9. CASE Reap
  BY <1>9 DEF Reap, AfterCancel
<1>10. CASE Final
  BY <1>10 DEF Final
<1>11. CASE ExportRaises
  BY <1>11 DEF ExportRaises, Raise
<1>12. CASE FinalRaises
  BY <1>12 DEF FinalRaises, Escape
<1>13. CASE Interrupt
  BY <1>13 DEF Interrupt, Raise, Escape, Cancelling
<1>14. CASE Tick
  BY <1>14 DEF Tick, Quiet, TooSilent
<1>15. CASE ~Parent /\ ~ExportRaises /\ ~FinalRaises /\ ~Interrupt /\ ~Tick
  BY <1>15, RunnerSteps
<1> QED
  BY <1>1, <1>2, <1>3, <1>4, <1>5, <1>6, <1>7, <1>8, <1>9, <1>10, <1>11, <1>12, <1>13, <1>14, <1>15
     DEF Parent

-----------------------------------------------------------------------------
(***************************************************************************)
(* The invariant, and what follows from it.                                *)
(***************************************************************************)

LEMMA SupInvInit == Init => SupInv
<1> SUFFICES ASSUME Init PROVE SupInv
  OBVIOUS
<1>1. StatusIsOnItsWay
  <2>1. /\ work = "new" /\ code = "none" /\ terminal = <<>>
        /\ pipe = <<>> /\ queue = <<>>
    BY DEF Init
  <2>2. Pending = <<>>
    <3>1. <<>> \in Seq(Written)
      OBVIOUS
    <3> QED
      BY <2>1, <3>1, ConcatEmptySeq DEF Pending
  <2>3. NoTerminalIn(Pending)
    BY <2>2 DEF NoTerminalIn
  <2> QED
    BY <2>1, <2>3 DEF StatusIsOnItsWay
<1>2. SentinelIsLast
  <2>1. ~eof /\ ~closed /\ Len(queue) = 0
    <3>1. ~eof /\ ~closed /\ queue = <<>>
      BY Zenon DEF Init
    <3>2. Len(<<>>) = 0
      OBVIOUS
    <3> QED
      BY <3>1, <3>2, Zenon
  <2>2. 1 .. Len(queue) = {}
    <3>1. 1 .. 0 = {}
      OBVIOUS
    <3> QED
      BY <2>1, <3>1, Zenon
  <2> QED
    BY <2>1, <2>2, Zenon DEF SentinelIsLast
<1>3. ParentKnows
  BY DEF Init, ParentKnows, Cancelling
<1>4. SilenceIsWatched
  BY DEF Init, SilenceIsWatched, Alive
<1> QED
  BY <1>1, <1>2, <1>3, <1>4, SupervisorTypeInit DEF SupInv

LEMMA SupInvStep == SupInv /\ [Next]_vars => SupInv'
BY SupervisorTypeStep, StatusStep, SentinelStep, KnowsStep, SilenceStep DEF SupInv

\* The inductive invariant holds: the status of a runner is not lost on its
\* way through pipe and queue, the sentinel comes last, and the parent's
\* place in run and stop_process_tree tells what it knows.
THEOREM SupInvHolds == Spec => []SupInv
BY SupInvInit, SupInvStep, PTL DEF Spec

\* A stage for which run_supervised_stage returns is exported in full: the
\* JSON shows every commit of its runner, also the unannounced ones.
THEOREM ReturnedStagesAreExported == Spec => []ReturnedStageIsExported
<1>1. SupInv => ReturnedStageIsExported
  BY DEF SupInv, ParentKnows, ReturnedStageIsExported
<1> QED
  BY <1>1, SupInvHolds, PTL

\* A runner that succeeds and is not interrupted is accepted, however its exit
\* and the reading of its output interleave: closed means that nothing is
\* pending, so its terminal line has been seen, and seen once.
THEOREM SuccessesAreSeen == Spec => []SuccessIsSeen
<1>1. SupInv => SuccessIsSeen
  <2> SUFFICES ASSUME SupInv, pc = "done", code = "ok", why = "none"
               PROVE  outcome = "section"
    BY DEF SuccessIsSeen
  <2>1. work = "dead" /\ closed /\ outcome = IF Accepted THEN "section" ELSE "failed"
    BY DEF SupInv, ParentKnows
  <2>2. eof /\ queue = <<>>
    BY <2>1, Zenon DEF SupInv, SentinelIsLast
  <2>3. pipe = <<>>
    BY <2>2, Zenon DEF SupInv, SentinelIsLast
  <2>4. Pending = <<>> /\ ~OneTerminalIn(Pending, "complete")
    <3>1. <<>> \in Seq(Written) /\ 1 .. Len(<<>>) = {}
      OBVIOUS
    <3>2. Pending = <<>>
      BY <2>2, <2>3, <3>1, ConcatEmptySeq DEF Pending
    <3> QED
      BY <3>1, <3>2 DEF OneTerminalIn
  <2>5. terminal = <<"complete">>
    BY <2>4 DEF SupInv, StatusIsOnItsWay
  <2> QED
    BY <2>1, <2>5 DEF Accepted
<1> QED
  BY <1>1, SupInvHolds, PTL

\* Whatever waits in the queue, a runner is not left silent for longer than
\* the timeout, a tick and one export.
THEOREM SilencesAreBounded == Spec => []SilenceIsBounded
<1>1. SupInv => SilenceIsBounded
  <2> SUFFICES ASSUME SupInv, pc \in {"loop", "export", "check"}, Alive
               PROVE  silence <= HeartbeatTimeout + 1 + ExportTime
    BY DEF SilenceIsBounded
  <2>1. silence \in Nat /\ left \in Nat
    BY DEF SupInv, SupervisorTypeOK
  <2> QED
    BY <2>1, SupervisorAssumption DEF SupInv, SilenceIsWatched
<1> QED
  BY <1>1, SupInvHolds, PTL

\* No runner survives its supervision as long as there was at most one
\* Ctrl-C; a second one that falls into the second cancel can break this.
THEOREM RunnerIsGoneAfterwards == Spec => [](interrupts <= 1 => RunnerIsGone)
<1>1. SupInv => (interrupts <= 1 => RunnerIsGone)
  <2> SUFFICES ASSUME SupInv, interrupts <= 1, pc = "done" PROVE work = "dead"
    BY DEF RunnerIsGone
  <2>1. interrupts \in 0 .. MaxInterrupts
    BY DEF SupInv, SupervisorTypeOK
  <2>2. work = "dead" \/ interrupts > 1
    BY DEF SupInv, ParentKnows
  <2> QED
    BY <2>1, <2>2, SupervisorAssumption
<1> QED
  BY <1>1, SupInvHolds, PTL

-----------------------------------------------------------------------------
(***************************************************************************)
(* To a run, supervision is one step.                                      *)
(***************************************************************************)

LEMMA DoneStep == DoneHasOutcome /\ [Next]_vars => DoneHasOutcome'
<1> SUFFICES ASSUME DoneHasOutcome, [Next]_vars PROVE DoneHasOutcome'
  OBVIOUS
<1> USE DEF DoneHasOutcome, lineVars, runnerVars, parentVars
<1>1. CASE Start \/ Take \/ Export \/ Check \/ Return
  BY <1>1 DEF Start, Take, Export, Check, Return
<1>2. CASE HeartbeatLost \/ ExportRaises
  BY <1>2 DEF HeartbeatLost, ExportRaises, Raise
<1>3. CASE Signal \/ GraceEnds \/ Reap
  BY <1>3 DEF Signal, GraceEnds, Reap, AfterCancel
<1>4. CASE Final \/ FinalRaises
  BY <1>4 DEF Final, FinalRaises, Escape
<1>5. CASE Interrupt
  BY <1>5 DEF Interrupt, Raise, Escape, Cancelling
<1>6. CASE Tick
  BY <1>6 DEF Tick
<1>7. CASE ~Parent /\ ~ExportRaises /\ ~FinalRaises /\ ~Interrupt /\ ~Tick
  BY <1>7, RunnerSteps
<1> QED
  BY <1>1, <1>2, <1>3, <1>4, <1>5, <1>6, <1>7 DEF Parent

\* What is at work while the parent is done: a runner that was interrupted twice.
LEMMA DoneIsOver ==
    ASSUME SupInv, DoneHasOutcome, Next, outcome # "none", interrupts <= 1
    PROVE  UNCHANGED <<work, commits, outcome, exported>>
<1>1. pc = "done" /\ work = "dead"
  <2>1. interrupts \in Nat
    BY SupervisorAssumption DEF SupInv, SupervisorTypeOK
  <2> QED
    BY <2>1 DEF SupInv, ParentKnows, DoneHasOutcome
<1>2. ~Workload /\ ~Beat /\ ~Die /\ ~Freeze /\ ~Thaw
  BY <1>1 DEF Workload, StartEngine, Commit, Announce, Exit, End, Beat, Beating, Die, Freeze, Thaw,
     Runs, Alive
<1>3. ~Parent /\ ~ExportRaises /\ ~FinalRaises /\ ~Interrupt /\ ~Tick
  BY <1>1 DEF Parent, Start, Take, Export, HeartbeatLost, Check, Return, Signal, GraceEnds, Reap,
     Final, ExportRaises, FinalRaises, Interrupt, Cancelling, Tick, Quiet
<1>4. Reader
  BY <1>2, <1>3 DEF Next
<1> QED
  BY <1>4 DEF Reader, ReadLine, ReadEnd, runnerVars, parentVars

\* An outcome is the parent's.
LEMMA OutcomeIsTheParents ==
    ASSUME Next, outcome' # outcome
    PROVE  UNCHANGED commits /\ (Final \/ (pc' = "done" /\ outcome' = "raised"))
<1> USE DEF lineVars, runnerVars, parentVars
<1>1. CASE Start \/ Take \/ Export \/ Check \/ Return \/ HeartbeatLost \/ ExportRaises
  BY <1>1 DEF Start, Take, Export, Check, Return, HeartbeatLost, ExportRaises, Raise
<1>2. CASE Signal \/ GraceEnds \/ Tick
  BY <1>2 DEF Signal, GraceEnds, Tick
<1>3. CASE Reap
  BY <1>3 DEF Reap, AfterCancel
<1>4. CASE Final
  BY <1>4 DEF Final
<1>5. CASE FinalRaises
  BY <1>5 DEF FinalRaises, Escape
<1>6. CASE Interrupt
  BY <1>6 DEF Interrupt, Raise, Escape
<1>7. CASE ~Parent /\ ~ExportRaises /\ ~FinalRaises /\ ~Interrupt /\ ~Tick
  BY <1>7, RunnerSteps
<1> QED
  BY <1>1, <1>2, <1>3, <1>4, <1>5, <1>6, <1>7 DEF Parent

LEMMA OutcomeComes ==
    ASSUME SupInv, SupInv', SuccessIsSeen', DoneHasOutcome, DoneHasOutcome', Next,
           outcome' # outcome, outcome = "none", interrupts' <= 1
    PROVE  /\ work' = "dead" /\ commits' = commits
           /\ outcome' = "section" <=> code' = "ok" /\ why' = "none"
           /\ outcome' \in {"section", "failed"} => exported' = commits'
<1>1. pc' = "done" /\ outcome' # "none"
  BY DEF DoneHasOutcome
<1>2. work' = "dead"
  <2>1. interrupts' \in Nat
    BY SupervisorAssumption DEF SupInv, SupervisorTypeOK
  <2> QED
    BY <1>1, <2>1 DEF SupInv, ParentKnows
<1>3. code' = "ok" /\ why' = "none" => outcome' = "section"
  BY <1>1 DEF SuccessIsSeen
<1>4. outcome' = "section" => code' = "ok" /\ why' = "none"
  <2>1. SUFFICES ASSUME outcome' = "section" PROVE code' = "ok" /\ why' = "none"
    OBVIOUS
  <2>2. Final
    BY <2>1, OutcomeIsTheParents
  <2> QED
    BY <2>1, <2>2 DEF Final, Accepted, runnerVars, SupInv, ParentKnows
<1>5. outcome' \in {"section", "failed"} => exported' = commits'
  BY DEF SupInv, ParentKnows
<1> QED
  BY <1>2, <1>3, <1>4, <1>5, OutcomeIsTheParents

\* However the four threads interleave, the parent that called run_supervised_stage sees what
\* BenchmarkRun takes for one step (RunnerSucceeds, RunnerFails, Interrupt): the runner commits
\* before the outcome and is gone when it comes, and the stage is a success exactly when its
\* runner was.  Two Ctrl-C, one in each cancel, are excepted.
THEOREM SupervisionIsAStep == Spec => SupervisionIsOneStep
<1>1. Init => DoneHasOutcome
  BY DEF Init, DoneHasOutcome
<1> DEFINE OneStep ==
        interrupts' <= 1 =>
          /\ commits' # commits => outcome = "none"
          /\ outcome # "none" => UNCHANGED <<work, commits, outcome, exported>>
          /\ outcome' # outcome =>
                /\ work' = "dead" /\ commits' = commits
                /\ outcome' = "section" <=> code' = "ok" /\ why' = "none"
                /\ outcome' \in {"section", "failed"} => exported' = commits'
<1>2. SupInv /\ SupInv' /\ SuccessIsSeen' /\ DoneHasOutcome /\ DoneHasOutcome' /\ [Next]_vars
        => [OneStep]_vars
  <2>1. SUFFICES ASSUME SupInv, SupInv', SuccessIsSeen', DoneHasOutcome, DoneHasOutcome', Next,
                        interrupts' <= 1
                 PROVE  OneStep
    OBVIOUS
  <2>2. interrupts <= 1
    <3>1. interrupts' \in {interrupts, interrupts + 1} /\ interrupts \in Nat
      <4>1. interrupts' = interrupts \/ Interrupt
        BY <2>1, RunnerSteps
           DEF Next, Parent, Start, Take, Export, HeartbeatLost, Check, Return, Signal, GraceEnds, Reap,
               Final, ExportRaises, FinalRaises, Escape, Raise, Tick, runnerVars, lineVars, parentVars
      <4> QED
        BY <4>1, <2>1, SupervisorAssumption DEF Interrupt, SupInv, SupervisorTypeOK
    <3> QED
      BY <2>1, <3>1
  <2>3. outcome # "none" => UNCHANGED <<work, commits, outcome, exported>>
    BY <2>1, <2>2, DoneIsOver
  <2>4. outcome = "none" /\ outcome' # outcome =>
                /\ work' = "dead" /\ commits' = commits
                /\ outcome' = "section" <=> code' = "ok" /\ why' = "none"
                /\ outcome' \in {"section", "failed"} => exported' = commits'
    BY <2>1, OutcomeComes
  <2> QED
    BY <2>3, <2>4
<1> QED
  BY <1>1, <1>2, DoneStep, SupInvHolds, SuccessesAreSeen, PTL DEF Spec, SupervisionIsOneStep

-----------------------------------------------------------------------------
(***************************************************************************)
(* A runner that does not stall is not given up for its silence, however   *)
(* many lines wait in front of its heartbeats, if the timeout leaves room  *)
(* for a period and an export of every commit (EnoughPatience).  Events    *)
(* are counted to bound the exports: those on their way and those taken    *)
(* are together what the runner announced, so no more than its commits.    *)
(***************************************************************************)
-----------------------------------------------------------------------------
(***************************************************************************)
(* Counting events.                                                        *)
(***************************************************************************)

LEMMA EventsAreFinite ==
    ASSUME NEW s \in Seq(Written)
    PROVE  /\ IsFiniteSet(EventsIn(s)) /\ Cardinality(EventsIn(s)) \in Nat
<1>1. Len(s) \in Nat
  BY LenProperties
<1>2. IsFiniteSet(1 .. Len(s))
  BY <1>1, FS_Interval
<1>3. EventsIn(s) \in SUBSET (1 .. Len(s))
  BY DEF EventsIn
<1>4. QED
  BY <1>2, <1>3, FS_Subset, FS_CardinalityType

LEMMA NothingIsEmpty ==
    Cardinality(EventsIn(<<>>)) = 0 /\ NoBeatIn(<<>>)
<1>1. 1 .. Len(<<>>) = {}
  OBVIOUS
<1>2. EventsIn(<<>>) = {}
  BY <1>1 DEF EventsIn
<1>3. QED
  BY <1>1, <1>2, FS_EmptySet DEF NoBeatIn

LEMMA EventsAppend ==
    ASSUME NEW s \in Seq(Written), NEW x \in Written
    PROVE  /\ Cardinality(EventsIn(Append(s, x))) =
                 Cardinality(EventsIn(s)) + (IF x = "event" THEN 1 ELSE 0)
           /\ NoBeatIn(Append(s, x)) <=> NoBeatIn(s) /\ x # "heartbeat"
<1>1. /\ Len(s) \in Nat /\ Len(Append(s, x)) = Len(s) + 1
      /\ \A i \in 1 .. Len(s) : Append(s, x)[i] = s[i]
      /\ Append(s, x)[Len(s) + 1] = x
  BY AppendProperties, LenProperties
<1>2. CASE x = "event"
  <2>1. EventsIn(Append(s, x)) = EventsIn(s) \cup {Len(s) + 1}
    BY <1>1, <1>2 DEF EventsIn
  <2>2. Len(s) + 1 \notin EventsIn(s)
    BY <1>1 DEF EventsIn
  <2>3. QED
    BY <1>1, <1>2, <2>1, <2>2, EventsAreFinite, FS_AddElement DEF NoBeatIn
<1>3. CASE x # "event"
  <2>1. EventsIn(Append(s, x)) = EventsIn(s)
    BY <1>1, <1>3 DEF EventsIn
  <2>2. NoBeatIn(Append(s, x)) <=> NoBeatIn(s) /\ x # "heartbeat"
    BY <1>1 DEF NoBeatIn
  <2>3. QED
    BY <1>3, <2>1, <2>2, EventsAreFinite
<1>4. QED
  BY <1>2, <1>3

LEMMA EventsTail ==
    ASSUME NEW s \in Seq(Written), s # <<>>
    PROVE  /\ Cardinality(EventsIn(s)) =
                 Cardinality(EventsIn(Tail(s))) + (IF Head(s) = "event" THEN 1 ELSE 0)
           /\ NoBeatIn(s) <=> NoBeatIn(Tail(s)) /\ Head(s) # "heartbeat"
<1> DEFINE rest == EventsIn(s) \ {1}
           f == [i \in EventsIn(Tail(s)) |-> i + 1]
<1>1. /\ Len(s) \in Nat \ {0} /\ Head(s) = s[1] /\ Tail(s) \in Seq(Written)
      /\ Len(Tail(s)) = Len(s) - 1
      /\ \A i \in 1 .. Len(Tail(s)) : Tail(s)[i] = s[i + 1]
  BY HeadIsFirst
<1>2. EventsIn(Tail(s)) \subseteq Nat
  BY DEF EventsIn
<1>3. f \in [EventsIn(Tail(s)) -> rest]
  BY <1>1, <1>2 DEF EventsIn
<1>4. \A i, j \in EventsIn(Tail(s)) : f[i] = f[j] => i = j
  BY <1>2
<1>5. ASSUME NEW j \in rest PROVE \E i \in EventsIn(Tail(s)) : f[i] = j
  <2>1. j - 1 \in EventsIn(Tail(s))
    BY <1>1 DEF EventsIn
  <2>2. f[j - 1] = j
    BY <1>1, <2>1 DEF EventsIn
  <2>3. QED
    BY <2>1, <2>2
<1>6. Cardinality(rest) = Cardinality(EventsIn(Tail(s)))
  <2> HIDE DEF f, rest
  <2>1. f \in Bijection(EventsIn(Tail(s)), rest)
    BY <1>3, <1>4, <1>5, Fun_IsBij
  <2>2. ExistsBijection(EventsIn(Tail(s)), rest)
    BY <2>1, Fun_ExistsBij
  <2>3. QED
    BY <1>1, <2>2, EventsAreFinite, FS_Bijection
<1>7. 1 \in EventsIn(s) <=> Head(s) = "event"
  BY <1>1 DEF EventsIn
<1>8. Cardinality(rest) =
        IF 1 \in EventsIn(s) THEN Cardinality(EventsIn(s)) - 1 ELSE Cardinality(EventsIn(s))
  BY EventsAreFinite, FS_RemoveElement
<1>9. Cardinality(EventsIn(s)) \in Nat
  BY EventsAreFinite
<1>10. Cardinality(EventsIn(s)) =
         Cardinality(EventsIn(Tail(s))) + (IF Head(s) = "event" THEN 1 ELSE 0)
  <2> HIDE DEF rest
  <2>1. QED
    BY <1>6, <1>7, <1>8, <1>9
<1>11. NoBeatIn(s) <=> NoBeatIn(Tail(s)) /\ Head(s) # "heartbeat"
  <2>1. ASSUME NoBeatIn(s) PROVE NoBeatIn(Tail(s)) /\ Head(s) # "heartbeat"
    BY <1>1, <2>1 DEF NoBeatIn
  <2>2. ASSUME NoBeatIn(Tail(s)), Head(s) # "heartbeat", NEW i \in 1 .. Len(s)
        PROVE  s[i] # "heartbeat"
    <3>1. CASE i = 1
      BY <1>1, <2>2, <3>1
    <3>2. CASE i # 1
      <4>1. i - 1 \in 1 .. Len(Tail(s)) /\ Tail(s)[i - 1] = s[i]
        BY <1>1, <3>2
      <4>2. QED
        BY <2>2, <4>1 DEF NoBeatIn
    <3>3. QED
      BY <3>1, <3>2
  <2>3. QED
    BY <2>1, <2>2 DEF NoBeatIn
<1>12. QED
  BY <1>10, <1>11

LEMMA OneMore ==
    ASSUME NEW a \in Nat, NEW b \in {a, a + 1}, NEW n \in Nat
    PROVE  b - n \in {a - n, (a - n) + 1}
OBVIOUS

LEMMA RoomFor ==
    ASSUME NEW old \in Nat, NEW new \in Nat, new <= old, NEW export \in Nat,
           NEW period \in Nat, NEW some \in Nat, NEW room \in Nat,
           old <= period + some, export <= room
    PROVE  new + export <= period + (some + room)
OBVIOUS

\* Exports of k of m commits
LEMMA Exports ==
    ASSUME NEW k \in Nat, NEW m \in Nat, k <= m, NEW e \in Nat
    PROVE  /\ k * e \in Nat /\ m * e \in Nat /\ k * e <= m * e
           /\ (k + 1) * e = k * e + e /\ e <= (k + 1) * e
OBVIOUS

-----------------------------------------------------------------------------
(***************************************************************************)
(* The invariant.                                                          *)
(***************************************************************************)

Watched == health = "never" /\ Alive /\ pc \in {"loop", "export", "check"}

LEMMA Numbers ==
    ASSUME SupervisorTypeOK
    PROVE  /\ silence \in Nat /\ left \in Nat /\ beatAge \in 0 .. BeatPeriod
           /\ commits \in 0 .. MaxCommits
           /\ BeatPeriod \in Nat /\ MaxCommits \in Nat /\ ExportTime \in Nat
           /\ HeartbeatTimeout \in Nat
           /\ pipe \in Seq(Written) /\ queue \in Seq(Written) /\ Pending \in Seq(Written)
           /\ Cardinality(EventsIn(Pending)) \in Nat
BY LinesAreWritten, EventsAreFinite, SupervisorAssumption DEF SupervisorTypeOK

\* While the runner is watched its silence stays within the timeout.
LEMMA NotTooSilent ==
    ASSUME EnoughPatience, SupervisorTypeOK, BeatsArrive
    PROVE  /\ Taken \in Nat /\ Taken <= MaxCommits
           /\ pc \in {"loop", "check"} => silence <= HeartbeatTimeout
<1>1. Taken \in Nat /\ Taken <= MaxCommits
  BY Numbers DEF BeatsArrive, Taken, Announced
<1> DEFINE some == Taken * ExportTime
           all  == MaxCommits * ExportTime
<1>2. some \in Nat /\ all \in Nat /\ some <= all
  BY <1>1, Numbers, Exports
<1>3. BeatPeriod + all <= HeartbeatTimeout
  BY DEF EnoughPatience
<1>4. ~NoBeatIn(Pending) => silence + ToExport <= BeatPeriod + some
  BY DEF BeatsArrive
<1> HIDE DEF some, all
<1>5. ASSUME pc \in {"loop", "check"} PROVE silence <= HeartbeatTimeout
  <2>1. CASE NoBeatIn(Pending)
    <3>1. silence <= beatAge
      BY <2>1 DEF BeatsArrive
    <3>2. QED
      BY <1>2, <1>3, <3>1, Numbers
  <2>2. CASE ~NoBeatIn(Pending)
    <3>1. silence <= BeatPeriod + some
      BY <1>4, <1>5, <2>2, Numbers DEF ToExport
    <3>2. QED
      BY <1>2, <1>3, <3>1, Numbers
  <2>3. QED
    BY <2>1, <2>2
<1>6. QED
  BY <1>1, <1>5

\* A new runner has written nothing.
LEMMA NewStep ==
    ASSUME ParentKnows, PatienceInv, [Next]_vars
    PROVE  (work = "new" => pipe = <<>> /\ queue = <<>> /\ commits = 0)'
<1> SUFFICES ASSUME work' = "new" PROVE pipe' = <<>> /\ queue' = <<>> /\ commits' = 0
  OBVIOUS
<1> USE DEF lineVars, runnerVars, parentVars
<1>1. CASE StartEngine
  BY <1>1 DEF StartEngine
<1>2. CASE Parent
  <2>1. work = "new" /\ UNCHANGED <<pipe, commits>>
    BY <1>2 DEF Parent, Start, Take, Export, HeartbeatLost, Raise, Check, Return, Signal,
                GraceEnds, Reap, Final
  <2>2. pc = "start"
    BY <2>1 DEF ParentKnows
  <2>3. Start
    BY <1>2, <2>2 DEF Parent, Take, Export, HeartbeatLost, Check, Return, Signal,
                      GraceEnds, Reap, Final
  <2>4. QED
    BY <2>3 DEF Start
<1>3. CASE ~StartEngine /\ ~Parent
  <2>1. UNCHANGED <<work, pipe, queue, commits>>
    BY <1>3 DEF Next, Workload, Commit, Announce, Exit, End, Beat, Die, Freeze, Thaw, Alive,
                Beating, Reader, ReadLine, ReadEnd, PatienceInv, ExportRaises, FinalRaises,
                Raise, Escape, Interrupt, Tick, vars
  <2>2. QED
    BY <2>1 DEF PatienceInv
<1>4. QED
  BY <1>1, <1>2, <1>3

\* A step that moves no line, announces nothing and lets no time pass.
LEMMA SameBeats ==
    ASSUME BeatsArrive, UNCHANGED <<Pending, commits, silence, beatAge>>,
           work' = work \/ {work, work'} \subseteq {"busy", "said"},
           \/ UNCHANGED <<pc, left>>
           \/ pc # "export" /\ pc' # "export"
           \/ pc' # "export" /\ pc = "export" /\ left = 0
    PROVE  BeatsArrive'
<1>1. UNCHANGED <<Announced, Taken>>
  <2>1. Announced' = Announced
    BY DEF Announced
  <2>2. QED
    BY <2>1 DEF Taken
<1>2. (NoBeatIn(Pending))' <=> NoBeatIn(Pending)
  BY DEF NoBeatIn
<1>3. ToExport' = ToExport
  BY DEF ToExport
<1>4. (Cardinality(EventsIn(Pending)))' = Cardinality(EventsIn(Pending))
  OBVIOUS
<1>5. work' = "committed" => work = "committed"
  OBVIOUS
<1>6. QED
  BY <1>1, <1>2, <1>3, <1>4, <1>5 DEF BeatsArrive

\* A commit: what is announced stays the same until it is announced.
LEMMA CommitBeats ==
    ASSUME SupervisorTypeOK, BeatsArrive, Commit PROVE BeatsArrive'
<1>1. /\ work = "busy" /\ work' = "committed" /\ commits' = commits + 1
      /\ UNCHANGED <<pipe, queue, pc, left, silence, beatAge>>
  BY DEF Commit, lineVars, parentVars
<1>2. UNCHANGED Pending
  BY <1>1 DEF Pending
<1>3. Announced' = Announced /\ commits' > 0
  BY <1>1, Numbers DEF Announced
<1>4. Taken' = Taken
  BY <1>2, <1>3 DEF Taken
<1>5. UNCHANGED ToExport /\ (NoBeatIn(Pending))' = NoBeatIn(Pending)
      /\ (Cardinality(EventsIn(Pending)))' = Cardinality(EventsIn(Pending))
  BY <1>1, <1>2 DEF ToExport
<1>6. QED
  BY <1>1, <1>2, <1>3, <1>4, <1>5 DEF BeatsArrive

LEMMA AnnounceBeats ==
    ASSUME SupervisorTypeOK, BeatsArrive, Announce PROVE BeatsArrive'
<1>1. /\ work = "committed" /\ work' = "busy" /\ pipe' = Append(pipe, "event")
      /\ UNCHANGED <<queue, commits, pc, left, silence, beatAge>>
  BY DEF Announce, Write, parentVars
<1>2. "event" \in Written
  BY DEF Written, Lines
<1>3. Pending' = Append(Pending, "event")
  BY <1>1, <1>2, Numbers, PendingWritten DEF Pending
<1>4. /\ (Cardinality(EventsIn(Pending)))' = Cardinality(EventsIn(Pending)) + 1
      /\ (NoBeatIn(Pending))' <=> NoBeatIn(Pending)
  BY <1>2, <1>3, Numbers, EventsAppend
<1>5. commits > 0 /\ Announced' = Announced + 1
  BY <1>1, Numbers DEF Announced, BeatsArrive
<1>6. Taken' = Taken
  BY <1>1, <1>4, <1>5, Numbers DEF Taken, Announced
<1>7. UNCHANGED ToExport
  BY <1>1 DEF ToExport
<1>8. Cardinality(EventsIn(Pending)) + 1 <= Announced + 1
  BY <1>1, Numbers DEF BeatsArrive, Announced
<1>9. QED
  BY <1>1, <1>4, <1>5, <1>6, <1>7, <1>8 DEF BeatsArrive

\* A heartbeat: the first that is on its way was preceded by one that has been
\* handled, and at most one export is under way.
LEMMA BeatBeats ==
    ASSUME EnoughPatience, SupervisorTypeOK, BeatsArrive, Beat PROVE BeatsArrive'
<1>1. /\ pipe' = Append(pipe, "heartbeat")
      /\ UNCHANGED <<work, queue, commits, pc, left, silence>>
  BY DEF Beat, Write, parentVars
<1>2. "heartbeat" \in Written /\ "heartbeat" # "event"
  BY DEF Written, Lines
<1>3. Pending' = Append(Pending, "heartbeat")
  BY <1>1, <1>2, Numbers, PendingWritten DEF Pending
<1>4. /\ (Cardinality(EventsIn(Pending)))' = Cardinality(EventsIn(Pending))
      /\ ~(NoBeatIn(Pending))'
  BY <1>2, <1>3, Numbers, EventsAppend
<1>5. UNCHANGED <<Announced, Taken, ToExport>>
  BY <1>1, <1>4 DEF Announced, Taken, ToExport
<1> DEFINE some == Taken * ExportTime
<1>6. Taken \in Nat /\ some \in Nat /\ (Taken > 0 => ExportTime <= some)
  <2>1. Taken \in Nat
    BY NotTooSilent
  <2>2. some \in Nat
    BY <2>1, Numbers, Exports
  <2>3. ASSUME Taken > 0 PROVE ExportTime <= some
    <3>1. Taken - 1 \in Nat /\ (Taken - 1) + 1 = Taken
      BY <2>1, <2>3
    <3>2. ExportTime <= ((Taken - 1) + 1) * ExportTime
      BY <3>1, Numbers, Exports
    <3>3. QED
      BY <3>1, <3>2
  <2>4. QED
    BY <2>1, <2>2, <2>3
<1>7. ~NoBeatIn(Pending) => silence + ToExport <= BeatPeriod + some
  BY DEF BeatsArrive
<1>8. some' = some
  BY <1>5
<1> HIDE DEF some
<1>9. silence + ToExport <= BeatPeriod + some
  <2>1. CASE NoBeatIn(Pending)
    <3>1. silence <= BeatPeriod
      BY <2>1, Numbers DEF BeatsArrive
    <3>2. ToExport \in Nat /\ ToExport <= some
      BY <1>6, Numbers DEF BeatsArrive, ToExport
    <3>3. QED
      BY <1>6, <3>1, <3>2, Numbers
  <2>2. QED
    BY <1>7, <2>1
<1>10. silence' + ToExport' <= BeatPeriod + some'
  BY <1>1, <1>5, <1>8, <1>9
<1>11. QED
  BY <1>1, <1>4, <1>5, <1>10 DEF BeatsArrive, some

\* The terminal line.  What an interrupted runner committed last stays
\* unannounced and counts as taken.
LEMMA EndBeats ==
    ASSUME EnoughPatience, SupervisorTypeOK, BeatsArrive,
           NEW status \in {"complete", "failed"}, End(status)
    PROVE  BeatsArrive'
<1>1. /\ work \in {"busy", "committed"} /\ work' = "said" /\ pipe' = Append(pipe, status)
      /\ UNCHANGED <<queue, commits, pc, left, silence, beatAge>>
  BY DEF End, Write, parentVars
<1>2. status \in Written /\ status \notin {"event", "heartbeat"}
  BY DEF Written, Lines
<1>3. Pending' = Append(Pending, status)
  BY <1>1, <1>2, Numbers, PendingWritten DEF Pending
<1>4. /\ (Cardinality(EventsIn(Pending)))' = Cardinality(EventsIn(Pending))
      /\ (NoBeatIn(Pending))' <=> NoBeatIn(Pending)
  BY <1>2, <1>3, Numbers, EventsAppend
<1>5. Taken \in Nat /\ Taken' \in {Taken, Taken + 1} /\ Announced' \in {Announced, Announced + 1}
      /\ Announced \in Nat
  <2>1. Announced \in Nat /\ Announced' \in {Announced, Announced + 1}
    <3>1. Announced' = commits
      BY <1>1 DEF Announced
    <3>2. CASE work = "busy"
      BY <3>1, <3>2, Numbers DEF Announced
    <3>3. CASE work = "committed"
      <4>1. commits > 0 /\ Announced = commits - 1
        BY <3>3 DEF Announced, BeatsArrive
      <4>2. QED
        BY <3>1, <4>1, Numbers
    <3>4. QED
      BY <1>1, <3>2, <3>3
  <2>2. Taken \in Nat
    BY NotTooSilent
  <2>3. Taken' = Announced' - Cardinality(EventsIn(Pending))
        /\ Taken = Announced - Cardinality(EventsIn(Pending))
    BY <1>4 DEF Taken
  <2>4. Taken' \in {Taken, Taken + 1}
    <3> DEFINE n == Cardinality(EventsIn(Pending))
    <3>1. n \in Nat
      BY Numbers
    <3>2. Taken' = Announced' - n /\ Taken = Announced - n
      BY <2>3
    <3> HIDE DEF n
    <3>3. Announced' - n \in {Announced - n, (Announced - n) + 1}
      BY <2>1, <3>1, OneMore
    <3>4. QED
      BY <3>2, <3>3, Zenon
  <2>5. QED
    BY <2>1, <2>2, <2>4
<1> DEFINE some == Taken * ExportTime
           more == Taken' * ExportTime
<1>6. some \in Nat /\ more \in Nat /\ some <= more
  <2>1. Taken' \in Nat /\ Taken <= Taken'
    BY <1>5
  <2>2. ExportTime \in Nat
    BY Numbers
  <2>3. QED
    BY <1>5, <2>1, <2>2, Exports
<1>7. ~NoBeatIn(Pending) => silence + ToExport <= BeatPeriod + some
  BY DEF BeatsArrive
<1>8. UNCHANGED ToExport /\ ToExport \in Nat
  BY <1>1, Numbers DEF ToExport
<1>9. some' = more
  BY Numbers
<1> HIDE DEF some, more
<1>10. ~NoBeatIn(Pending) => silence + ToExport <= BeatPeriod + more
  BY <1>6, <1>7, <1>8, Numbers
<1>11. (~NoBeatIn(Pending))' => silence' + ToExport' <= BeatPeriod + more
  BY <1>1, <1>4, <1>8, <1>10
<1>12. Cardinality(EventsIn(Pending)) <= Announced'
  BY <1>5, Numbers DEF BeatsArrive
<1>13. QED
  BY <1>1, <1>4, <1>5, <1>11, <1>12 DEF BeatsArrive, more

\* At the start nothing is on its way.
LEMMA StartBeats ==
    ASSUME SupervisorTypeOK, ParentKnows, PatienceInv, Start PROVE BeatsArrive'
<1>1. /\ work' = "busy" /\ pc' = "loop" /\ pc = "start"
      /\ UNCHANGED <<pipe, queue, commits, silence, beatAge, left>>
  BY DEF Start, lineVars
<1>2. work = "new" /\ silence = 0
  BY <1>1 DEF ParentKnows
<1>3. pipe' = <<>> /\ queue' = <<>> /\ commits' = 0
  BY <1>1, <1>2 DEF PatienceInv
<1>4. Pending' = <<>>
  BY <1>3 DEF Pending
<1>5. (Cardinality(EventsIn(Pending)))' = 0 /\ (NoBeatIn(Pending))'
  BY <1>4, NothingIsEmpty
<1>6. Announced' = 0
  BY <1>1, <1>3 DEF Announced
<1>7. QED
  BY <1>1, <1>2, <1>5, <1>6, Numbers DEF BeatsArrive

\* A line is taken: an event makes room for its export, a heartbeat ends the
\* silence.
LEMMA TakeBeats ==
    ASSUME EnoughPatience, SupervisorTypeOK, BeatsArrive, Take PROVE BeatsArrive'
<1>1. /\ pc = "loop" /\ queue # <<>> /\ queue' = Tail(queue)
      /\ silence' = SilenceAfter(Head(queue))
      /\ UNCHANGED <<pipe, work, commits, beatAge>>
      /\ IF Head(queue) = "event" THEN pc' = "export" /\ left' \in 0 .. ExportTime
         ELSE pc' = "check" /\ left' = left
  BY DEF Take, runnerVars
<1>2. /\ Pending # <<>> /\ Head(Pending) = Head(queue) /\ Tail(Pending) = Pending'
  BY <1>1, Numbers, PendingTaken DEF Pending
<1> DEFINE line == Head(queue)
           before == Cardinality(EventsIn(Pending))
           after == Cardinality(EventsIn(Tail(Pending)))
<1>3. /\ before = after + (IF line = "event" THEN 1 ELSE 0)
      /\ NoBeatIn(Pending) <=> NoBeatIn(Tail(Pending)) /\ line # "heartbeat"
  BY <1>2, Numbers, EventsTail
<1>4. before \in Nat /\ after \in Nat
  <2>1. Tail(Pending) \in Seq(Written)
    BY <1>2, Numbers, HeadIsFirst
  <2>2. QED
    BY <2>1, Numbers, EventsAreFinite
<1>5. (Cardinality(EventsIn(Pending)))' = after /\ (NoBeatIn(Pending))' = NoBeatIn(Tail(Pending))
  BY <1>2
<1>6. Announced' = Announced /\ Announced \in Nat
  BY <1>1, Numbers DEF Announced, BeatsArrive
<1>7. Taken = Announced - before /\ Taken' = Announced - after
  BY <1>5, <1>6 DEF Taken
<1> HIDE DEF line, before, after
<1>8. Taken \in Nat /\ Taken' = Taken + (IF line = "event" THEN 1 ELSE 0)
  BY <1>3, <1>4, <1>6, <1>7, NotTooSilent
<1>9. after <= Announced
  <2>1. before <= Announced
    BY DEF BeatsArrive, before
  <2>2. QED
    BY <1>3, <1>4, <1>6, <2>1
<1> DEFINE some == Taken * ExportTime
           more == Taken' * ExportTime
<1>10. /\ some \in Nat /\ more \in Nat
       /\ more = some + (IF line = "event" THEN ExportTime ELSE 0)
  <2>1. CASE line = "event"
    <3>1. Taken' = Taken + 1
      BY <1>8, <2>1
    <3>2. QED
      BY <1>8, <2>1, <3>1, Numbers, Exports
  <2>2. CASE line # "event"
    <3>1. Taken' = Taken
      BY <1>8, <2>2
    <3>2. QED
      BY <1>8, <2>2, <3>1, Numbers, Exports
  <2>3. QED
    BY <2>1, <2>2
<1>11. ~NoBeatIn(Pending) => silence <= BeatPeriod + some
  BY <1>1, Numbers DEF BeatsArrive, ToExport
<1>12. silence' = IF line = "heartbeat" THEN 0 ELSE silence
  BY <1>1 DEF line, SilenceAfter
<1>13. ToExport' \in Nat /\ ToExport' <= (IF line = "event" THEN ExportTime ELSE 0)
  BY <1>1, Numbers DEF ToExport, line
<1> HIDE DEF some, more
<1>14. NoBeatIn(Tail(Pending)) => silence' <= beatAge
  <2>1. NoBeatIn(Pending) => silence <= beatAge
    BY DEF BeatsArrive
  <2>2. QED
    BY <1>3, <1>12, <2>1, Numbers
<1>15. ~NoBeatIn(Tail(Pending)) => silence' + ToExport' <= BeatPeriod + more
  <2>1. ASSUME ~NoBeatIn(Tail(Pending)) PROVE silence' + ToExport' <= BeatPeriod + more
    <3>1. silence <= BeatPeriod + some
      BY <1>3, <1>11, <2>1
    <3>2. silence' \in Nat /\ silence' <= silence
      BY <1>12, Numbers
    <3>3. PICK room \in Nat : more = some + room /\ ToExport' <= room
      <4>1. CASE line = "event"
        BY <1>10, <1>13, <4>1, Numbers
      <4>2. CASE line # "event"
        <5>1. more = some + 0 /\ ToExport' <= 0
          BY <1>10, <1>13, <4>2
        <5>2. QED
          BY <5>1
      <4>3. QED
        BY <4>1, <4>2
    <3>4. silence \in Nat /\ BeatPeriod \in Nat /\ some \in Nat /\ ToExport' \in Nat
      BY <1>10, <1>13, Numbers
    <3>5. silence' + ToExport' <= BeatPeriod + (some + room)
      BY <3>1, <3>2, <3>3, <3>4, RoomFor
    <3>6. QED
      BY <3>3, <3>5
  <2>2. QED
    BY <2>1
<1>16. pc' = "export" => Taken' > 0 /\ left' <= ExportTime
  BY <1>1, <1>8, Numbers DEF line
<1>17. work' = "committed" => commits' > 0
  BY <1>1 DEF BeatsArrive
<1>18. (~NoBeatIn(Pending))' => silence' + ToExport' <= BeatPeriod + (Taken * ExportTime)'
  BY <1>5, <1>15 DEF more
<1>19. (NoBeatIn(Pending))' => silence' <= beatAge'
  BY <1>1, <1>5, <1>14
<1>20. QED
  BY <1>5, <1>6, <1>9, <1>16, <1>17, <1>18, <1>19 DEF BeatsArrive

\* A tick passes for the heartbeat thread and for an export alike.
LEMMA TickBeats ==
    ASSUME SupervisorTypeOK, BeatsArrive, Watched, Tick PROVE BeatsArrive'
<1>1. /\ pipe = <<>> /\ work \in {"busy", "committed"} /\ beatAge < BeatPeriod
      /\ \/ pc = "loop" /\ queue = <<>>
         \/ pc = "export" /\ left > 0
      /\ silence' = silence + 1 /\ beatAge' = beatAge + 1
      /\ left' = IF pc = "loop" THEN left ELSE left - 1
      /\ UNCHANGED <<work, commits, pipe, queue, pc>>
  BY Numbers DEF Tick, Quiet, Watched, Alive, Beating, SupervisorTypeOK, lineVars
<1>2. UNCHANGED Pending
  BY <1>1 DEF Pending
<1>3. UNCHANGED <<Announced, Taken>> /\ (NoBeatIn(Pending))' = NoBeatIn(Pending)
      /\ (Cardinality(EventsIn(Pending)))' = Cardinality(EventsIn(Pending))
  <2>1. Announced' = Announced
    BY <1>1 DEF Announced
  <2>2. QED
    BY <1>2, <2>1 DEF Taken
<1>4. NoBeatIn(Pending) => silence' <= beatAge'
  BY <1>1, Numbers DEF BeatsArrive
<1>5. ~NoBeatIn(Pending) => silence' + ToExport' = silence + ToExport
  <2>1. CASE pc = "loop"
    <3>1. Pending = <<>>
      BY <1>1, <2>1 DEF Pending
    <3>2. QED
      BY <3>1, NothingIsEmpty
  <2>2. CASE pc = "export"
    BY <1>1, <2>2, Numbers DEF ToExport
  <2>3. QED
    BY <1>1, <2>1, <2>2
<1>6. pc' = "export" => Taken' > 0 /\ left' <= ExportTime
  <2>1. ASSUME pc' = "export" PROVE Taken > 0 /\ left' <= ExportTime
    BY <1>1, <2>1, Numbers DEF BeatsArrive
  <2>2. QED
    BY <1>3, <2>1
<1>7. QED
  BY <1>1, <1>3, <1>4, <1>5, <1>6 DEF BeatsArrive

\* Watching goes on from one step to the next, or starts with the runner.
LEMMA WatchedStep ==
    ASSUME EnoughPatience, SupInv, PatienceInv, [Next]_vars, Watched'
    PROVE  BeatsArrive'
<1> USE DEF lineVars, runnerVars, parentVars
<1>1. SupervisorTypeOK /\ ParentKnows
  BY DEF SupInv
<1>2. Watched => BeatsArrive
  BY DEF PatienceInv, Watched
<1>3. health' = "never" /\ work' \notin {"new", "dead"} /\ pc' \in {"loop", "export", "check"}
  BY DEF Watched, Alive
<1>4. ASSUME UNCHANGED <<work, health, pc>> PROVE BeatsArrive
  BY <1>2, <1>3, <1>4 DEF Watched, Alive
<1>5. CASE StartEngine \/ UNCHANGED vars
  <2>1. UNCHANGED <<work, health, pc, left, pipe, queue, commits, silence, beatAge>>
    BY <1>5 DEF StartEngine, vars
  <2>2. QED
    BY <1>4, <2>1, SameBeats DEF Pending
<1>6. CASE Commit
  <2>1. Watched
    BY <1>3, <1>6 DEF Commit, Watched, Alive
  <2>2. QED
    BY <1>1, <1>2, <1>6, <2>1, CommitBeats
<1>7. CASE Announce
  <2>1. Watched
    BY <1>3, <1>7 DEF Announce, Watched, Alive
  <2>2. QED
    BY <1>1, <1>2, <1>7, <2>1, AnnounceBeats
<1>8. CASE Beat
  <2>1. BeatsArrive
    BY <1>4, <1>8 DEF Beat
  <2>2. QED
    BY <1>1, <1>8, <2>1, BeatBeats
<1>9. ASSUME NEW status \in {"complete", "failed"}, End(status) PROVE BeatsArrive'
  <2>1. Watched
    BY <1>3, <1>9 DEF End, Watched, Alive
  <2>2. QED
    BY <1>1, <1>2, <1>9, <2>1, EndBeats
<1>10. CASE Exit \/ Die \/ Freeze \/ Thaw \/ ReadEnd
  BY <1>3, <1>10 DEF Exit, Die, Freeze, Thaw, ReadEnd
<1>11. CASE ReadLine
  <2>1. UNCHANGED <<work, health, pc, left, commits, silence, beatAge>>
    BY <1>11 DEF ReadLine
  <2>2. UNCHANGED Pending
    BY <1>1, <1>11, Numbers, PendingMoves DEF ReadLine, Pending
  <2>3. QED
    BY <1>4, <2>1, <2>2, SameBeats
<1>12. CASE Start
  BY <1>1, <1>12, StartBeats
<1>13. CASE Take
  <2>1. Watched
    BY <1>3, <1>13 DEF Take, Watched, Alive
  <2>2. QED
    BY <1>1, <1>2, <1>13, <2>1, TakeBeats
<1>14. CASE Export \/ Check
  <2>1. /\ UNCHANGED <<work, health, left, pipe, queue, commits, silence, beatAge>>
        /\ \/ pc = "export" /\ left = 0 /\ pc' = "check"
           \/ pc = "check" /\ pc' = "loop"
    BY <1>14 DEF Export, Check
  <2>2. Watched
    BY <1>3, <2>1 DEF Watched, Alive
  <2>3. QED
    BY <1>2, <2>1, <2>2, SameBeats DEF Pending
<1>15. CASE HeartbeatLost \/ Return \/ Signal \/ GraceEnds \/ Reap \/ Final
            \/ ExportRaises \/ FinalRaises \/ Interrupt
  BY <1>3, <1>15 DEF HeartbeatLost, Raise, Return, Signal, GraceEnds, Reap, AfterCancel, Final,
                     ExportRaises, FinalRaises, Escape, Interrupt
<1>16. CASE Tick
  <2>1. UNCHANGED <<work, health, pc>>
    BY <1>16 DEF Tick
  <2>2. Watched
    BY <1>3, <2>1 DEF Watched, Alive
  <2>3. QED
    BY <1>1, <1>2, <1>16, <2>2, TickBeats
<1>17. QED
  BY <1>5, <1>6, <1>7, <1>8, <1>9, <1>10, <1>11, <1>12, <1>13, <1>14, <1>15, <1>16
     DEF Next, Workload, Reader, Parent

\* A runner that never stalled is not too silent when its heartbeat is checked,
\* and one that stalled stays one that did.
LEMMA SilentStep ==
    ASSUME EnoughPatience, SupInv, PatienceInv, [Next]_vars
    PROVE  OnlySilenceIsPunished'
<1> USE DEF lineVars, runnerVars, parentVars
<1>1. SUFFICES ASSUME why' = "silent", health' = "never" PROVE FALSE
  BY DEF OnlySilenceIsPunished
<1>2. CASE HeartbeatLost
  <2>1. pc \in {"loop", "check"} /\ Alive /\ silence > HeartbeatTimeout /\ health = "never"
    BY <1>1, <1>2 DEF HeartbeatLost, TooSilent
  <2>2. BeatsArrive
    BY <2>1 DEF PatienceInv
  <2>3. SupervisorTypeOK
    BY DEF SupInv
  <2>4. silence <= HeartbeatTimeout
    BY <2>1, <2>2, <2>3, NotTooSilent
  <2>5. QED
    BY <2>1, <2>3, <2>4, Numbers
<1>3. CASE ~HeartbeatLost
  <2>1. health = "never"
    BY <1>1 DEF Next, Workload, StartEngine, Commit, Announce, Exit, End, Beat, Die, Freeze,
                Thaw, Reader, ReadLine, ReadEnd, Parent, Start, Take, Export, HeartbeatLost,
                Check, Return, Signal, GraceEnds, Reap, Final, ExportRaises, FinalRaises,
                Interrupt, Tick, vars
  <2>2. why = "silent"
    BY <1>1, <1>3 DEF Next, Workload, StartEngine, Commit, Announce, Exit, End, Beat, Die,
                Freeze, Thaw, Reader, ReadLine, ReadEnd, Parent, Start, Take, Export, Check,
                Return, Signal, GraceEnds, Reap, Final, ExportRaises, FinalRaises, Raise,
                Escape, Interrupt, Tick, vars
  <2>3. QED
    BY <2>1, <2>2 DEF PatienceInv, OnlySilenceIsPunished
<1>4. QED
  BY <1>2, <1>3

LEMMA PatienceInit == Init => PatienceInv
BY DEF Init, PatienceInv, Alive, OnlySilenceIsPunished

LEMMA PatienceStep ==
    ASSUME EnoughPatience, SupInv, PatienceInv, [Next]_vars PROVE PatienceInv'
<1>1. (work = "new" => pipe = <<>> /\ queue = <<>> /\ commits = 0)'
  BY NewStep DEF SupInv
<1>2. (Watched => BeatsArrive)'
  BY WatchedStep
<1>3. QED
  BY <1>1, <1>2, SilentStep DEF PatienceInv, Watched

\* Only a runner that stalled is cancelled for its silence, if the timeout
\* covers a period and an export of every commit.
THEOREM OnlySilencesArePunished ==
    ASSUME EnoughPatience PROVE Spec => []OnlySilenceIsPunished
<1>1. SupInv /\ PatienceInv /\ [Next]_vars => PatienceInv'
  BY PatienceStep
<1>2. PatienceInv => OnlySilenceIsPunished
  BY DEF PatienceInv
<1>3. QED
  BY <1>1, <1>2, PatienceInit, SupInvHolds, PTL DEF Spec
=============================================================================
