------------------------- MODULE WorkloadLoopProofs -------------------------
(***************************************************************************)
(* Proofs about the loops of the workloads, for every plan, every number   *)
(* of models, depths, runs and crash retries, and every number of          *)
(* processes one after the other, under LoopAssumption.                    *)
(***************************************************************************)
EXTENDS WorkloadLoop, WellFoundedInduction, TLAPS

-----------------------------------------------------------------------------
(* Positions.                                                              *)

LEMMA LeastDepth ==
    ASSUME NEW S \in SUBSET Nat, S # {}
    PROVE  \E e \in S : \A f \in S : e <= f
<1>1. PICK e \in S : \A f \in S : ~(<<f, e>> \in OpToRel(<, Nat))
  BY NatLessThanWellFounded, WFMin
<1>2. \A f \in S : ~(f < e)
  BY <1>1 DEF OpToRel
<1> QED
  BY <1>2

\* The loop goes on at the next depth that is pending, or closes the model.
LEMMA OnwardGoes ==
    ASSUME TypeOK, NEW d \in Nat
    PROVE  \/ /\ Onward(d) = Stop("-")
              /\ \A e \in Depths : e > d => ~Pending(M, e)
           \/ \E e \in Depths, p \in {"ask", "draw", "load"} :
                 /\ e > d /\ Pending(M, e)
                 /\ \A f \in Depths : f > d /\ f < e => ~Pending(M, f)
                 /\ p = "ask" => kind = "acc"
                 /\ p = "draw" => kind = "image"
                 /\ Onward(d) = [at EXCEPT !.pc = p, !.run = 0, !.valid = FALSE,
                                           !.retries = 0, !.depth = e]
<1> DEFINE left == {e \in Depths : e > d /\ Pending(M, e)}
           again == CASE kind = "acc" /\ d > 0 -> "ask"
                      [] kind = "image" /\ d > 0 -> "draw"
                      [] OTHER -> "load"
           next == CHOOSE e \in left : \A f \in left : e <= f
<1>1. Onward(d) = IF left = {} THEN Stop("-")
                  ELSE [at EXCEPT !.pc = again, !.run = 0, !.valid = FALSE, !.retries = 0,
                                  !.depth = next]
  BY DEF Onward
<1>2. CASE left = {}
  BY <1>1, <1>2
<1>3. CASE left # {}
  <2>1. Depths \subseteq Nat /\ left \subseteq Nat
    BY DEF Depths
  <2>2. \E e \in left : \A f \in left : e <= f
    BY <2>1, <1>3, LeastDepth
  <2>3. next \in left /\ \A f \in left : next <= f
    BY <2>2
  <2>4. again \in {"ask", "draw", "load"} /\ (again = "ask" => kind = "acc")
           /\ (again = "draw" => kind = "image")
    OBVIOUS
  <2> HIDE DEF again, next
  <2>5. Onward(d) = [at EXCEPT !.pc = again, !.run = 0, !.valid = FALSE, !.retries = 0,
                               !.depth = next]
    BY <1>1, <1>3
  <2>6. next \in Depths /\ next > d /\ Pending(M, next)
    BY <2>3
  <2>7. \A f \in Depths : f > d /\ f < next => ~Pending(M, f)
    BY <2>1, <2>3, <2>6
  <2> QED
    BY <2>4, <2>5, <2>6, <2>7
<1> QED
  BY <1>2, <1>3

LEMMA PositionsFit ==
    ASSUME TypeOK
    PROVE  /\ Begun \in Positions
           /\ \A p \in Places : [at EXCEPT !.pc = p] \in Positions
           /\ [Begun EXCEPT !.pc = "gone"] \in Positions
           /\ \A why \in Stops : Stop(why) \in Positions
           /\ M \in Models => After \in Positions
           /\ \A d \in Nat : Onward(d) \in Positions
<1>1. plan.models \in Nat /\ M \in 1 .. plan.models + 1 /\ at \in Positions
  BY LoopAssumption DEF TypeOK, Positions, M
<1>2. Begun \in Positions
  BY <1>1 DEF Begun, Positions, Places, Stops
<1>3. \A p \in Places : [at EXCEPT !.pc = p] \in Positions
  BY <1>1 DEF Positions
<1>4. [Begun EXCEPT !.pc = "gone"] \in Positions
  BY <1>2 DEF Positions, Places, Ended
<1>5. \A why \in Stops : Stop(why) \in Positions
  BY <1>1 DEF Stop, Begun, Positions, Places, Stops
<1>6. M \in Models => After \in Positions
  <2> SUFFICES ASSUME M \in Models PROVE After \in Positions
    OBVIOUS
  <2>1. M + 1 \in 1 .. plan.models + 1
    BY <1>1 DEF Models
  <2>2. "model" \in Places
    BY DEF Places
  <2> HIDE DEF M
  <2> QED
    BY <1>2, <2>1, <2>2 DEF After, Positions
<1>7. ASSUME NEW d \in Nat PROVE Onward(d) \in Positions
  <2>1. "-" \in Stops /\ {"ask", "draw", "load"} \subseteq Places /\ Depths \subseteq Nat
    BY DEF Stops, Places, AtCase, Depths
  <2>2. CASE Onward(d) = Stop("-")
    BY <2>1, <2>2, <1>5
  <2>3. ASSUME NEW e \in Depths, NEW p \in {"ask", "draw", "load"},
               Onward(d) = [at EXCEPT !.pc = p, !.run = 0, !.valid = FALSE,
                                      !.retries = 0, !.depth = e]
        PROVE  Onward(d) \in Positions
    <3>1. e \in Nat /\ p \in Places /\ at \in Positions /\ 0 \in Nat /\ FALSE \in BOOLEAN
      BY <2>1, <1>1
    <3> HIDE DEF Places, Stops
    <3>2. [at EXCEPT !.pc = p, !.run = 0, !.valid = FALSE, !.retries = 0, !.depth = e]
             \in Positions
      BY <3>1 DEF Positions
    <3> QED
      BY <3>2, <2>3
  <2> QED
    BY <2>2, <2>3, OnwardGoes
<1> QED
  BY <1>2, <1>3, <1>4, <1>5, <1>6, <1>7

-----------------------------------------------------------------------------
(* Types.                                                                  *)

LEMMA LoopTypeInit == Init => TypeOK /\ PlaceFits
<1> SUFFICES ASSUME Init PROVE TypeOK /\ PlaceFits
  OBVIOUS
<1>1. plan.models \in Nat /\ plan.depths \in Nat
  BY LoopAssumption DEF Init
<1>2. at \in Positions
  <2>1. 1 \in 1 .. plan.models + 1 /\ "start" \in Places /\ "-" \in Stops
    BY <1>1 DEF Places, Stops
  <2> QED
    BY <2>1 DEF Init, Begun, Positions
<1>3. cases \in [Models -> [Depths -> Recorded \cup {"none", "running"}]]
  BY DEF Init, NoCases
<1>4. marks \in [Models -> [MarkStates -> {"none", "running", "set"}]]
  BY DEF Init, NoMarks
<1>5. at.pc = "start"
  BY DEF Init, Begun
<1>6. PlaceFits
  BY <1>5 DEF PlaceFits, AtCase
<1> QED
  <2>1. session \in 1 .. MaxSessions
    BY LoopAssumption DEF Init
  <2>2. /\ plan \in Plans /\ retry \in BOOLEAN /\ selected \in BOOLEAN /\ stage = "running"
        /\ picked \subseteq CaseIds /\ known = {} /\ cache = {} /\ silent = {} /\ crashers = {}
    BY DEF Init
  <2> QED
    BY <1>2, <1>3, <1>4, <1>6, <2>1, <2>2 DEF TypeOK

\* What is written for a case and for a model keeps their types.
LEMMA CaseFits ==
    ASSUME TypeOK, NEW state \in Recorded \cup {"running"}, RecordCase(state)
    PROVE  cases' \in [Models -> [Depths -> Recorded \cup {"none", "running"}]]
<1> DEFINE Row == [Depths -> Recorded \cup {"none", "running"}]
<1>1. cases \in [Models -> Row]
  BY DEF TypeOK
<1>2. \A m \in Models : [cases[m] EXCEPT ![at.depth] = state] \in Row
  BY <1>1
<1>3. cases' = [cases EXCEPT ![M] = [cases[M] EXCEPT ![at.depth] = state]]
  BY DEF RecordCase
<1> QED
  BY <1>1, <1>2, <1>3

LEMMA MarkFits ==
    ASSUME TypeOK, NEW s \in MarkStates, Mark(s)
    PROVE  marks' \in [Models -> [MarkStates -> {"none", "running", "set"}]]
<1> DEFINE Row == [MarkStates -> {"none", "running", "set"}]
<1>1. marks \in [Models -> Row]
  BY DEF TypeOK
<1>2. \A m \in Models : [marks[m] EXCEPT ![s] = "set"] \in Row
  BY <1>1
<1>3. marks' = [marks EXCEPT ![M] = [marks[M] EXCEPT ![s] = "set"]]
  BY DEF Mark
<1> QED
  BY <1>1, <1>2, <1>3

LEMMA CasesStep ==
    ASSUME TypeOK, RunnerStep
    PROVE  (cases' \in [Models -> [Depths -> Recorded \cup {"none", "running"}]])
<1> USE CaseFits DEF Recorded, Settled, journal
<1>1. CASE \/ Start \/ NotPulled \/ KnownCrash \/ Take \/ Handle \/ Close \/ Finish
           \/ LoadedSingle \/ LoadedConv \/ WarmupFailsConv \/ LoadedConc \/ LoadFailsConc
           \/ WarmupCrashesConc \/ Called \/ RetryCall
  BY <1>1 DEF TypeOK, Start, NotPulled, KnownCrash, Take, Handle, Close, Finish, LoadedSingle,
       LoadedConv, WarmupFailsConv, LoadedConc, LoadFailsConc, WarmupCrashesConc, Called, RetryCall
<1>2. CASE \/ LoadedAcc \/ WarmupFailsAcc \/ LoadedImage \/ SweepStops \/ WarmupFailsSoak
           \/ MeetStray \/ NoBinary \/ NoFiles \/ OutOfRoom \/ Unreachable \/ Fail
  BY <1>2 DEF TypeOK, LoadedAcc, WarmupFailsAcc, LoadedImage, SweepStops, WarmupFailsSoak,
       MeetStray, NoBinary, NoFiles, OutOfRoom, Unreachable, Fail
<1>3. CASE \/ WarmupFailsSingle \/ CallTimesOut \/ GiveUp \/ RecordSingle
           \/ BatchDone \/ BatchUseless \/ BatchCrashes
  BY <1>3 DEF WarmupFailsSingle, CallTimesOut, GiveUp, RecordSingle, BatchDone, BatchUseless,
       BatchCrashes, Ends
<1>4. CASE \/ Answered \/ AnswerCrashes \/ Drawn \/ DrawTimesOut \/ BenchDone \/ BenchFails
           \/ RowStreams \/ SoakBegins \/ SoakEnds \/ HandleBatch
  BY <1>4 DEF Answered, AnswerCrashes, Drawn, DrawTimesOut, BenchDone, BenchFails,
       RowStreams, SoakBegins, SoakEnds, HandleBatch
<1>5. CASE TurnSlow \/ TurnReaches \/ TurnTimesOut \/ TurnCrashes \/ TurnFails
  BY <1>5 DEF TypeOK, TurnSlow, TurnReaches, TurnTimesOut, TurnCrashes, TurnFails, RecordTurn
<1>6. CASE WarmupFailsImage
  <2>1. \A d \in Depths : (IF Pending(M, d) THEN "failed" ELSE cases[M][d])
            \in Recorded \cup {"none", "running"} \/ M \notin Models
    BY DEF TypeOK
  <2> DEFINE row == [d \in Depths |-> IF Pending(M, d) THEN "failed" ELSE cases[M][d]]
  <2>2. M \in Models => row \in [Depths -> Recorded \cup {"none", "running"}]
    BY <2>1
  <2>3. cases' = [cases EXCEPT ![M] = row]
    BY <1>6 DEF WarmupFailsImage
  <2> HIDE DEF row
  <2> QED
    BY <2>2, <2>3 DEF TypeOK
<1> QED
  BY <1>1, <1>2, <1>3, <1>4, <1>5, <1>6 DEF RunnerStep

LEMMA MarksStep ==
    ASSUME TypeOK, RunnerStep
    PROVE  marks' \in [Models -> [MarkStates -> {"none", "running", "set"}]]
<1> USE MarkFits DEF MarkStates, journal
<1>1. CASE \/ Start \/ Take \/ Finish \/ LoadedSingle \/ LoadedConv \/ WarmupFailsConv
           \/ LoadedConc \/ LoadFailsConc \/ WarmupCrashesConc \/ Called \/ RetryCall
           \/ LoadedAcc \/ WarmupFailsAcc \/ LoadedImage \/ SweepStops \/ MeetStray
           \/ NoBinary \/ OutOfRoom \/ Unreachable \/ Fail
  BY <1>1 DEF TypeOK, Start, Take, Finish, LoadedSingle, LoadedConv, WarmupFailsConv,
       LoadedConc, LoadFailsConc, WarmupCrashesConc, Called, RetryCall, LoadedAcc,
       WarmupFailsAcc, LoadedImage, SweepStops, MeetStray, NoBinary, OutOfRoom, Unreachable, Fail
<1>2. CASE NotPulled \/ KnownCrash \/ Handle \/ NoFiles \/ WarmupFailsSoak
  BY <1>2 DEF TypeOK, NotPulled, KnownCrash, Handle, NoFiles, WarmupFailsSoak
<1>3. CASE Close
  BY <1>3 DEF TypeOK, Close, MarkFor
<1>4. CASE \/ WarmupFailsSingle \/ CallTimesOut \/ GiveUp \/ RecordSingle
           \/ BatchDone \/ BatchUseless \/ BatchCrashes \/ WarmupFailsImage
           \/ TurnSlow \/ TurnReaches \/ TurnTimesOut \/ TurnCrashes \/ TurnFails
  BY <1>4 DEF TypeOK, WarmupFailsSingle, CallTimesOut, GiveUp, RecordSingle, BatchDone,
       BatchUseless, BatchCrashes, WarmupFailsImage, TurnSlow, TurnReaches, TurnTimesOut,
       TurnCrashes, TurnFails
<1>5. CASE \/ Answered \/ AnswerCrashes \/ Drawn \/ DrawTimesOut \/ BenchDone \/ BenchFails
           \/ RowStreams \/ SoakBegins \/ SoakEnds \/ HandleBatch
  BY <1>5 DEF TypeOK, Answered, AnswerCrashes, Drawn, DrawTimesOut, BenchDone, BenchFails,
       RowStreams, SoakBegins, SoakEnds, HandleBatch
<1> QED
  BY <1>1, <1>2, <1>3, <1>4, <1>5 DEF RunnerStep

LEMMA RestStep ==
    ASSUME TypeOK, PlaceFits, RunnerStep
    PROVE  /\ stage' \in {"running", "complete", "failed"}
           /\ known' \subseteq Models /\ cache' \subseteq Models /\ silent' \subseteq Models
           /\ UNCHANGED order
<1>0. plan.models \in Nat /\ M \in 1 .. plan.models + 1
  BY LoopAssumption DEF TypeOK, Positions, M
<1>1. RecordCrash /\ M \in Models => known' \subseteq Models /\ cache' \subseteq Models
  BY DEF TypeOK, RecordCrash
<1>2. at.pc \in AtCase \cup {"close", "raised"} => M \in Models
  BY DEF PlaceFits
<1> USE <1>1, <1>2 DEF TypeOK, journal, crashCache
<1>3. CASE \/ Start \/ KnownCrash \/ Take \/ Handle \/ Close \/ Finish
           \/ LoadedSingle \/ LoadedConv \/ WarmupFailsConv \/ LoadedConc \/ LoadFailsConc
           \/ WarmupCrashesConc \/ Called \/ RetryCall
  BY <1>3 DEF AtCase, Start, KnownCrash, Take, Handle, Close, Finish, LoadedSingle,
       LoadedConv, WarmupFailsConv, LoadedConc, LoadFailsConc, WarmupCrashesConc, Called, RetryCall
<1>4. CASE \/ LoadedAcc \/ WarmupFailsAcc \/ LoadedImage \/ SweepStops \/ WarmupFailsSoak
           \/ MeetStray \/ NoBinary \/ NoFiles \/ OutOfRoom \/ Fail \/ NotPulled
  BY <1>4 DEF AtCase, LoadedAcc, WarmupFailsAcc, LoadedImage, SweepStops, WarmupFailsSoak,
       MeetStray, NoBinary, NoFiles, OutOfRoom, Fail, NotPulled, AtModel
<1>5. CASE Unreachable
  <2>1. M .. plan.models \subseteq 1 .. plan.models
    BY <1>0
  <2> QED
    BY <1>5, <2>1 DEF Unreachable, Models
<1>6. CASE \/ WarmupFailsSingle \/ CallTimesOut \/ GiveUp \/ RecordSingle
           \/ BatchDone \/ BatchUseless \/ BatchCrashes \/ WarmupFailsImage
           \/ TurnSlow \/ TurnReaches \/ TurnTimesOut \/ TurnCrashes \/ TurnFails
  BY <1>6 DEF AtCase, WarmupFailsSingle, CallTimesOut, GiveUp, RecordSingle, BatchDone,
       BatchUseless, BatchCrashes, WarmupFailsImage, TurnSlow, TurnReaches, TurnTimesOut,
       TurnCrashes, TurnFails, InCalls, InBatch
<1>7. CASE \/ Answered \/ AnswerCrashes \/ Drawn \/ DrawTimesOut \/ BenchDone \/ BenchFails
           \/ RowStreams \/ SoakBegins \/ SoakEnds \/ HandleBatch
  BY <1>7 DEF AtCase, Answered, AnswerCrashes, Drawn, DrawTimesOut, BenchDone, BenchFails,
       RowStreams, SoakBegins, SoakEnds, HandleBatch
<1> QED
  BY <1>3, <1>4, <1>5, <1>6, <1>7 DEF RunnerStep

\* A process goes from a position to one of its own.
LEMMA PositionStep ==
    ASSUME TypeOK, PlaceFits, RunnerStep
    PROVE  at' \in Positions
<1>0. at.pc \in AtCase \cup {"close", "raised"} => M \in Models
  BY DEF PlaceFits
<1>1. at.depth \in Nat /\ 0 \in Nat /\ at \in Positions
  BY DEF TypeOK, Positions
<1> USE <1>0, PositionsFit DEF Ended, Go, NextModel, End
<1>2. \A why \in {"-", "slow", "invalid", "failed", "timed_out", "crashed"} :
         Stop(why) \in Positions
  BY DEF Stops
<1>3. \A p \in AtCase \cup {"start", "model", "close", "raised", "finish", "gone", "died"} :
         [at EXCEPT !.pc = p] \in Positions
  BY DEF Places
<1>4. CASE \/ Start \/ KnownCrash \/ Handle \/ Close \/ Finish
           \/ LoadedSingle \/ LoadedConv \/ WarmupFailsConv \/ LoadedConc \/ LoadFailsConc
           \/ WarmupCrashesConc
  BY <1>2, <1>3, <1>4 DEF AtCase, Start, KnownCrash, Handle, Close, Finish, LoadedSingle,
       LoadedConv, WarmupFailsConv, LoadedConc, LoadFailsConc, WarmupCrashesConc, AtModel
<1>5. CASE \/ LoadedAcc \/ WarmupFailsAcc \/ LoadedImage \/ SweepStops \/ WarmupFailsSoak
           \/ MeetStray \/ NoBinary \/ NoFiles \/ OutOfRoom \/ Fail \/ NotPulled \/ Unreachable
  BY <1>2, <1>3, <1>5 DEF AtCase, LoadedAcc, WarmupFailsAcc, LoadedImage, SweepStops,
       WarmupFailsSoak, MeetStray, NoBinary, NoFiles, OutOfRoom, Fail, NotPulled, AtModel,
       Unreachable
<1>6. CASE \/ WarmupFailsSingle \/ CallTimesOut \/ GiveUp \/ RecordSingle
           \/ BatchDone \/ BatchUseless \/ BatchCrashes \/ WarmupFailsImage
           \/ TurnSlow \/ TurnTimesOut \/ TurnCrashes \/ TurnFails
  BY <1>1, <1>2, <1>6 DEF AtCase, WarmupFailsSingle, CallTimesOut, GiveUp, RecordSingle, BatchDone,
       BatchUseless, BatchCrashes, WarmupFailsImage, TurnSlow, TurnTimesOut,
       TurnCrashes, TurnFails
<1>7. CASE \/ Answered \/ AnswerCrashes \/ Drawn \/ DrawTimesOut \/ BenchDone \/ BenchFails
           \/ RowStreams \/ SoakBegins \/ SoakEnds \/ HandleBatch
  BY <1>1, <1>2, <1>3, <1>7 DEF AtCase, Answered, AnswerCrashes, Drawn, DrawTimesOut, BenchDone,
       BenchFails, RowStreams, SoakBegins, SoakEnds, HandleBatch
<1>8. CASE Take
  <2>1. CASE kind = "conv" /\ \E d \in Depths : Pending(M, d)
    <3>1. at' = [at EXCEPT !.pc = "load", !.depth = 1]
      BY <1>8, <2>1 DEF Take
    <3>2. "load" \in Places /\ 1 \in Nat
      BY DEF Places, AtCase
    <3> QED
      BY <1>1, <3>1, <3>2 DEF Positions
  <2> QED
    BY <1>1, <1>8, <2>1 DEF Take, AtModel
<1>9. CASE TurnReaches
  <2>1. [at EXCEPT !.depth = @ + 1] \in Positions
    BY <1>1 DEF Positions
  <2> QED
    BY <1>2, <1>9, <2>1 DEF TurnReaches
<1>10. CASE RetryCall
  BY <1>1, <1>10 DEF RetryCall, Positions
<1>11. CASE Called
  <2>1. "record" \in Places /\ "raised" \in Places /\ "measure" \in Places
    BY DEF Places, AtCase
  <2>2. [at EXCEPT !.pc = "raised"] \in Positions
    BY <2>1
  <2>3. [at EXCEPT !.pc = "measure", !.retries = 0] \in Positions
    BY <1>1, <2>1 DEF Positions
  <2>4. ASSUME NEW b \in BOOLEAN, NEW p \in Places
        PROVE  [at EXCEPT !.run = at.run + 1, !.valid = b, !.pc = p] \in Positions
    <3>1. at.run + 1 \in Nat
      BY <1>1 DEF Positions
    <3> DEFINE n == at.run + 1
    <3> HIDE DEF n
    <3> QED
      BY <1>1, <3>1 DEF Positions, n
  <2>5. at.valid \in BOOLEAN /\ at.pc \in Places
    BY <1>1 DEF Positions
  <2>6. PICK outcome \in {"valid", "invalid", "error"} :
           at' = CASE at.pc = "measure" ->
                        [at EXCEPT !.run = @ + 1, !.valid = @ \/ outcome = "valid",
                                   !.pc = IF at.run + 1 = Runs THEN "record" ELSE @]
                   [] at.pc = "prime" /\ outcome = "error" -> [at EXCEPT !.pc = "raised"]
                   [] OTHER -> [at EXCEPT !.pc = "measure", !.retries = 0]
    BY <1>11 DEF Called
  <2>7. CASE at.pc = "measure"
    <3>1. (at.valid \/ outcome = "valid") \in BOOLEAN
      OBVIOUS
    <3>2. (IF at.run + 1 = Runs THEN "record" ELSE at.pc) \in Places
      BY <2>1, <2>5
    <3>3. at' = [at EXCEPT !.run = at.run + 1, !.valid = at.valid \/ outcome = "valid",
                           !.pc = IF at.run + 1 = Runs THEN "record" ELSE at.pc]
      BY <2>6, <2>7
    <3> QED
      BY <2>4, <3>1, <3>2, <3>3
  <2> QED
    BY <2>2, <2>3, <2>6, <2>7
<1> QED
  BY <1>4, <1>5, <1>6, <1>7, <1>8, <1>9, <1>10, <1>11 DEF RunnerStep

LEMMA PlaceStep ==
    ASSUME TypeOK, PlaceFits, RunnerStep
    PROVE  PlaceFits'
<1>0. /\ kind' = kind /\ Models' = Models /\ Depths' = Depths
      /\ at.depth \in Nat /\ 0 \in Nat
  BY RestStep DEF order, kind, Models, Depths, TypeOK, Positions
<1>1. ASSUME NEW d \in Nat, at' = Onward(d), M \in Models
      PROVE  PlaceFits'
  <2>1. CASE Onward(d) = Stop("-")
    BY <1>0, <1>1, <2>1 DEF PlaceFits, Stop, Begun, AtCase, M, Repeated, Single
  <2>2. ASSUME NEW e \in Depths, NEW p \in {"ask", "draw", "load"},
               p = "ask" => kind = "acc", p = "draw" => kind = "image",
               Onward(d) = [at EXCEPT !.pc = p, !.run = 0, !.valid = FALSE,
                                      !.retries = 0, !.depth = e]
        PROVE  PlaceFits'
    <3>1. at'.pc = p /\ at'.depth = e /\ at'.model = at.model
      BY <1>1, <2>2 DEF TypeOK, Positions
    <3> QED
      BY <1>0, <1>1, <2>2, <3>1 DEF PlaceFits, AtCase, M
  <2> QED
    BY <2>1, <2>2, OnwardGoes
<1>2. ASSUME at'.pc \in {"start", "model", "finish", "gone", "died"}
      PROVE  PlaceFits'
  BY <1>2 DEF PlaceFits, AtCase
<1>3. ASSUME NEW why, at' = Stop(why), M \in Models, kind = "emb" => why = "-"
      PROVE  PlaceFits'
  BY <1>0, <1>3 DEF PlaceFits, Stop, Begun, AtCase, M
<1>4. at.pc \in AtCase \cup {"close", "raised"} => M \in Models
  BY DEF PlaceFits
<1>5. ASSUME NEW p \in Places, at' = [at EXCEPT !.pc = p]
      PROVE  at'.pc = p /\ at'.depth = at.depth /\ M' = M
  BY <1>5 DEF TypeOK, Positions, M
<1>6. NextModel => at'.pc = "model"
  BY DEF NextModel, After, Begun
<1>7. End => at'.pc = "gone"
  BY DEF End, Begun
<1>8. CASE NotPulled \/ NoFiles \/ KnownCrash
  BY <1>0, <1>2, <1>5, <1>6, <1>8
     DEF NotPulled, NoFiles, KnownCrash, AtModel, Go, Places, PlaceFits, AtCase, HasWork, Streaming
<1>9. CASE \/ Start \/ Finish \/ NoBinary \/ Unreachable \/ WarmupFailsConv
           \/ WarmupFailsAcc \/ WarmupFailsImage \/ SoakEnds \/ MeetStray \/ HandleBatch
  BY <1>2, <1>5, <1>6, <1>7, <1>9 DEF Start, Finish, NoBinary, Unreachable, WarmupFailsConv,
       WarmupFailsAcc, WarmupFailsImage, SoakEnds, MeetStray, HandleBatch, Go, Places, AtCase, Ended
<1>10. CASE Take
  <2>1. CASE kind # "conv"
    BY <1>0, <1>1, <1>10, <2>1 DEF Take, AtModel
  <2>2. CASE kind = "conv" /\ \E d \in Depths : Pending(M, d)
    <3>1. at' = [at EXCEPT !.pc = "load", !.depth = 1]
      BY <1>10, <2>2 DEF Take
    <3>2. at'.pc = "load" /\ at'.depth = 1 /\ M' = M
      BY <3>1 DEF TypeOK, Positions, M
    <3>3. 1 \in Depths
      BY <2>2, LoopAssumption DEF Depths, TypeOK
    <3> QED
      BY <1>0, <1>10, <3>2, <3>3 DEF PlaceFits, AtCase, Take, AtModel
  <2>3. CASE kind = "conv" /\ ~\E d \in Depths : Pending(M, d)
    <3>1. at' = After
      BY <1>10, <2>3 DEF Take
    <3> QED
      BY <3>1, <1>6, <1>2 DEF NextModel
  <2> QED
    BY <2>1, <2>2, <2>3
<1>11. CASE Fail \/ Handle \/ Close \/ WarmupFailsSoak
  <2>1. \/ at'.pc \in {"model", "died"}
        \/ at' = [at EXCEPT !.pc = "raised"]
    BY <1>6, <1>11, <1>5 DEF Fail, Handle, Close, WarmupFailsSoak, Go, Places, Ended
  <2>2. at.pc \in AtCase \cup {"close", "raised"}
    BY <1>11 DEF Fail, Handle, Close, WarmupFailsSoak, AtCase
  <2>3. "raised" \in Places
    BY DEF Places
  <2>4. at'.pc = "raised" /\ kind = "emb" => at.pc \in AtCase
    BY <1>6, <1>11 DEF Fail, Handle, Close, WarmupFailsSoak, PlaceFits, Go, AtCase, Ended
  <2>5. CASE at' = [at EXCEPT !.pc = "raised"]
    BY <1>0, <1>4, <1>5, <2>2, <2>3, <2>4, <2>5 DEF PlaceFits, AtCase
  <2> QED
    BY <1>2, <2>1, <2>5
<1>12. CASE \/ LoadedSingle \/ LoadedConv \/ LoadedConc \/ LoadedAcc \/ LoadedImage \/ SoakBegins
  BY <1>0, <1>5, <1>12 DEF LoadedSingle, LoadedConv, LoadedConc, LoadedAcc, LoadedImage, SoakBegins,
       Go, Places, PlaceFits, AtCase, Repeated, Single
<1>13. CASE \/ LoadFailsConc \/ WarmupCrashesConc \/ WarmupFailsSingle \/ CallTimesOut \/ GiveUp
            \/ BatchUseless \/ BatchCrashes
            \/ AnswerCrashes \/ DrawTimesOut \/ BenchFails \/ SweepStops
  BY <1>3, <1>4, <1>13 DEF LoadFailsConc, WarmupCrashesConc, WarmupFailsSingle, CallTimesOut, GiveUp,
       BatchUseless, BatchCrashes, AnswerCrashes, DrawTimesOut,
       BenchFails, SweepStops, AtCase, InCalls, InBatch, PlaceFits, Streaming
<1>14. CASE TurnSlow \/ TurnTimesOut \/ TurnCrashes \/ TurnFails \/ OutOfRoom
  BY <1>3, <1>4, <1>14 DEF TurnSlow, TurnTimesOut, TurnCrashes, TurnFails, OutOfRoom, InTurn, AtCase, PlaceFits
<1>15. CASE RecordSingle \/ BatchDone \/ Answered \/ Drawn \/ BenchDone \/ RowStreams
  BY <1>0, <1>1, <1>3, <1>4, <1>15 DEF RecordSingle, BatchDone, Answered, Drawn, BenchDone,
       RowStreams, AtCase, InBatch, MaySlow, Single
<1>16. CASE TurnReaches
  <2>1. CASE at.depth = plan.depths
    BY <1>3, <1>4, <1>16, <2>1 DEF TurnReaches, InTurn, AtCase, PlaceFits
  <2>2. CASE at.depth # plan.depths
    <3>1. at' = [at EXCEPT !.depth = @ + 1]
      BY <1>16, <2>2 DEF TurnReaches
    <3>2. at'.pc = "turn" /\ at'.depth = at.depth + 1 /\ M' = M
      BY <1>16, <3>1 DEF TypeOK, Positions, M, TurnReaches, InTurn
    <3>3. at.depth \in Depths /\ M \in Models /\ kind = "conv"
      BY <1>16 DEF PlaceFits, TurnReaches, InTurn, AtCase
    <3>4. at.depth + 1 \in Depths
      BY <2>2, <3>3, LoopAssumption DEF Depths, TypeOK
    <3> QED
      BY <1>0, <3>2, <3>3, <3>4 DEF PlaceFits, AtCase
  <2> QED
    BY <2>1, <2>2
<1>17. CASE RetryCall
  <2>1. at'.pc = at.pc /\ at'.depth = at.depth /\ at'.stop = at.stop /\ M' = M
    BY <1>17 DEF RetryCall, TypeOK, Positions, M
  <2> QED
    BY <1>0, <2>1 DEF PlaceFits, Repeated, Single
<1>18. CASE Called
  <2>1. /\ at'.pc \in {"record", "raised", "measure"} /\ at'.depth = at.depth /\ M' = M
    <3>1. PICK outcome \in {"valid", "invalid", "error"} :
           at' = CASE at.pc = "measure" ->
                        [at EXCEPT !.run = @ + 1, !.valid = @ \/ outcome = "valid",
                                   !.pc = IF at.run + 1 = Runs THEN "record" ELSE @]
                   [] at.pc = "prime" /\ outcome = "error" -> [at EXCEPT !.pc = "raised"]
                   [] OTHER -> [at EXCEPT !.pc = "measure", !.retries = 0]
      BY <1>18 DEF Called
    <3> QED
      BY <3>1 DEF TypeOK, Positions, M
  <2>2. Repeated /\ at.pc \in {"prime", "measure"}
    BY <1>18 DEF Called, InCalls
  <2>3. M \in Models /\ at.depth \in Depths
    BY <2>2 DEF PlaceFits, AtCase
  <2> QED
    BY <1>0, <2>1, <2>2, <2>3 DEF PlaceFits, AtCase, Repeated, Single
<1> QED
  BY <1>8, <1>9, <1>10, <1>11, <1>12, <1>13, <1>14, <1>15, <1>16, <1>17, <1>18 DEF RunnerStep

\* What happens around the process.
LEMMA AroundStep ==
    ASSUME TypeOK, PlaceFits, Kill \/ Resume \/ RetryCases \/ NewRun \/ Over \/ UNCHANGED vars
    PROVE  TypeOK' /\ PlaceFits'
<1>1. CASE Over \/ UNCHANGED vars
  <2>1. UNCHANGED vars
    BY <1>1 DEF Over
  <2>2. TypeOK'
    BY <2>1 DEF vars, order, journal, crashCache, TypeOK, Positions, Models, Depths, CaseIds
  <2>3. PlaceFits'
    BY <2>1 DEF vars, order, PlaceFits, kind, Models, Depths, M, Repeated, Single
  <2> QED
    BY <2>2, <2>3
<1>2. ASSUME Kill
      PROVE  TypeOK' /\ PlaceFits'
  <2>1. at' \in Positions /\ at'.pc = "gone"
    BY <1>2, PositionsFit DEF Kill, End, Begun
  <2>2. UNCHANGED <<order, journal, crashCache, silent>>
    BY <1>2 DEF Kill
  <2>3. PlaceFits'
    BY <2>1 DEF PlaceFits, AtCase
  <2> QED
    BY <2>1, <2>2, <2>3 DEF TypeOK, order, journal, crashCache, Positions, Models, Depths, CaseIds
<1>3. ASSUME Session
      PROVE  /\ at' \in Positions' /\ PlaceFits' /\ session' \in 1 .. MaxSessions
             /\ stage' = "running" /\ cache' = {} /\ crashers' \subseteq Models
             /\ UNCHANGED <<plan, known>>
  <2>1. at' = Begun /\ UNCHANGED <<plan, known>> /\ stage' = "running" /\ cache' = {}
           /\ crashers' \subseteq Models
    BY <1>3 DEF Session, TypeOK
  <2>2. at' \in Positions'
    BY <2>1, PositionsFit DEF Positions
  <2>3. PlaceFits'
    BY <2>1 DEF PlaceFits, AtCase, Begun
  <2>4. session' \in 1 .. MaxSessions
    BY <1>3, LoopAssumption DEF Session, TypeOK
  <2> QED
    BY <2>1, <2>2, <2>3, <2>4
<1>4. ASSUME NEW sel, Reopen(sel), UNCHANGED plan
      PROVE  (cases \in [Models -> [Depths -> Recorded \cup {"none", "running"}]])'
  <2>1. \A m \in Models : [d \in Depths |-> IF <<m, d>> \in sel THEN "running" ELSE cases[m][d]]
                              \in [Depths -> Recorded \cup {"none", "running"}]
    BY DEF TypeOK
  <2> QED
    BY <1>4, <2>1 DEF Reopen, Models, Depths
<1>5. ASSUME Resume
      PROVE  TypeOK' /\ PlaceFits'
  <2>1. Session /\ UNCHANGED <<retry, silent>> /\ selected' = FALSE /\ picked' = CaseIds
    BY <1>5 DEF Resume
  <2>2. (marks \in [Models -> [MarkStates -> {"none", "running", "set"}]])'
    <3>1. \A m \in Models : [s \in MarkStates |->
              IF s \in OpenMarks /\ marks[m][s] = "set" THEN "running" ELSE marks[m][s]]
                 \in [MarkStates -> {"none", "running", "set"}]
      BY DEF TypeOK
    <3> QED
      BY <1>5, <1>3, <2>1, <3>1 DEF Resume, Models
  <2>3. (cases \in [Models -> [Depths -> Recorded \cup {"none", "running"}]])'
    BY <1>3, <1>4, <1>5, <2>1 DEF Resume
  <2> QED
    BY <1>3, <2>1, <2>2, <2>3 DEF TypeOK, Models, Depths, CaseIds
<1>6. ASSUME RetryCases
      PROVE  TypeOK' /\ PlaceFits'
  <2>1. Session /\ UNCHANGED <<retry, marks, silent>> /\ selected' = TRUE
    BY <1>6 DEF RetryCases
  <2>2. PICK sel \in SUBSET {c \in CaseIds : Open(c)} : Reopen(sel) /\ picked' = sel
    BY <1>6 DEF RetryCases
  <2>3. (cases \in [Models -> [Depths -> Recorded \cup {"none", "running"}]])'
    BY <1>3, <1>4, <2>1, <2>2
  <2>4. picked' \subseteq CaseIds'
    BY <1>3, <2>1, <2>2 DEF CaseIds, Models, Depths
  <2> QED
    BY <1>3, <2>1, <2>3, <2>4 DEF TypeOK, Models
<1>7. ASSUME NewRun
      PROVE  TypeOK' /\ PlaceFits'
  <2>1. /\ Session /\ retry' \in BOOLEAN /\ silent' = {} /\ selected' = FALSE
        /\ picked' = CaseIds /\ cases' = NoCases /\ marks' = NoMarks
    BY <1>7 DEF NewRun
  <2>2. (cases \in [Models -> [Depths -> Recorded \cup {"none", "running"}]])'
    BY <1>3, <2>1 DEF NoCases, Models, Depths
  <2>3. (marks \in [Models -> [MarkStates -> {"none", "running", "set"}]])'
    BY <1>3, <2>1 DEF NoMarks, Models
  <2> QED
    BY <1>3, <2>1, <2>2, <2>3 DEF TypeOK, Models, Depths, CaseIds
<1> QED
  BY <1>1, <1>2, <1>5, <1>6, <1>7

LEMMA TypeStep ==
    ASSUME TypeOK, PlaceFits, [Next]_vars
    PROVE  TypeOK' /\ PlaceFits'
<1>1. ASSUME RunnerStep
      PROVE  TypeOK' /\ PlaceFits'
  BY <1>1, CasesStep, MarksStep, RestStep, PositionStep, PlaceStep
     DEF TypeOK, order, Positions, Models, Depths, CaseIds
<1> QED
  BY <1>1, AroundStep DEF Next

\* Every variable keeps its type, and each place of a process its model and depth.
THEOREM LoopTypeCorrect == Spec => [](TypeOK /\ PlaceFits)
BY LoopTypeInit, TypeStep, PTL DEF Spec

-----------------------------------------------------------------------------
(* Where a step leads.                                                     *)

\* A process is never back at its start, and comes to a case from its model or
\* from another depth of it.
LEMMA OnwardLeads ==
    ASSUME TypeOK, NEW d \in Nat, at' = Onward(d)
    PROVE  at'.pc \in {"close", "ask", "draw", "load"} /\ M' = M
<1>1. CASE Onward(d) = Stop("-")
  BY <1>1 DEF Stop, Begun, M
<1>2. ASSUME NEW e \in Depths, NEW p \in {"ask", "draw", "load"},
             Onward(d) = [at EXCEPT !.pc = p, !.run = 0, !.valid = FALSE,
                                    !.retries = 0, !.depth = e]
      PROVE  at'.pc = p /\ M' = M
  BY <1>2 DEF TypeOK, Positions, M
<1> QED
  BY <1>1, <1>2, OnwardGoes

LEMMA CalledLeads ==
    ASSUME TypeOK, Called
    PROVE  /\ at'.pc \in {"record", "raised", "measure"}
           /\ at'.depth = at.depth /\ M' = M /\ at'.stop = at.stop
<1>1. PICK outcome \in {"valid", "invalid", "error"} :
           at' = CASE at.pc = "measure" ->
                        [at EXCEPT !.run = @ + 1, !.valid = @ \/ outcome = "valid",
                                   !.pc = IF at.run + 1 = Runs THEN "record" ELSE @]
                   [] at.pc = "prime" /\ outcome = "error" -> [at EXCEPT !.pc = "raised"]
                   [] OTHER -> [at EXCEPT !.pc = "measure", !.retries = 0]
  BY DEF Called
<1> QED
  BY <1>1 DEF TypeOK, Positions, M

LEMMA StepsLead ==
    ASSUME TypeOK, RunnerStep
    PROVE  /\ at.pc \notin Ended /\ at'.pc \in Places \ {"start"}
           /\ at'.pc \in AtCase \cup {"close", "raised"} =>
                 M' = M /\ at.pc \in AtCase \cup {"close", "raised", "model"}
           /\ at'.pc \in AtCase => at.pc \in AtCase \/ Take
           /\ at.pc = "start" => Start \/ at'.pc = "finish"
           /\ at'.pc = "model" => at' = After \/ Start
           /\ at'.pc = "finish" => M' = M
<1>0. at.depth \in Nat /\ 0 \in Nat
  BY DEF TypeOK, Positions
<1> USE DEF Places, AtCase, Ended
<1>1. \A p : [at EXCEPT !.pc = p].pc = p /\ [at EXCEPT !.pc = p].model = at.model
  BY DEF TypeOK, Positions
<1>2. \A why : Stop(why).pc = "close" /\ Stop(why).model = at.model
  BY DEF Stop, Begun, M
<1>3. After.pc = "model" /\ [Begun EXCEPT !.pc = "gone"].pc = "gone"
  BY DEF After, Begun
<1> DEFINE Leads == /\ at.pc \notin Ended /\ at'.pc \in Places \ {"start"}
                    /\ at'.pc \in AtCase \cup {"close", "raised"} =>
                          M' = M /\ at.pc \in AtCase \cup {"close", "raised", "model"}
                    /\ at'.pc \in AtCase => at.pc \in AtCase \/ Take
                    /\ at.pc = "start" => Start \/ at'.pc = "finish"
                    /\ at'.pc = "model" => at' = After \/ Start
                    /\ at'.pc = "finish" => M' = M
<1>onward. ASSUME at'.pc \in {"model", "finish", "gone", "died"}, at.pc \notin Ended,
                  at.pc = "start" => at'.pc = "finish",
                  at'.pc = "model" => at' = After, at'.pc = "finish" => M' = M
           PROVE  Leads
  BY <1>onward
<1>close. ASSUME at'.pc \in {"close", "raised"}, M' = M,
                 at.pc \in AtCase \cup {"close", "raised", "model"}
          PROVE  Leads
  BY <1>close
<1>case. ASSUME at'.pc \in AtCase, M' = M, at.pc \in AtCase
         PROVE  Leads
  BY <1>case
<1> HIDE DEF Leads
<1> SUFFICES Leads
  BY DEF Leads
<1> USE <1>1, <1>2, <1>3 DEF NextModel, End, Go, M
<1> HIDE DEF Places, Ended
<1>4. CASE Start
  <2>1. at.pc = "start" /\ at'.pc \in {"model", "gone"}
    BY <1>4 DEF Start
  <2> QED
    BY <1>4, <2>1 DEF Leads, Places, Ended
<1>14. CASE NotPulled \/ MeetStray \/ NoBinary \/ HandleBatch \/ Unreachable \/ Finish
  BY <1>14, <1>onward DEF TypeOK, Positions, Ended, NotPulled, MeetStray, NoBinary, HandleBatch, Unreachable, AtModel, Finish
<1>24. CASE KnownCrash \/ NoFiles
  BY <1>24, <1>onward, <1>close DEF TypeOK, Positions, Ended, KnownCrash, NoFiles, AtModel
<1>34. CASE Handle \/ Close \/ WarmupFailsSoak
  BY <1>34, <1>onward, <1>close DEF TypeOK, Positions, Ended, Handle, Close, WarmupFailsSoak
<1>44. CASE Fail
  BY <1>44, <1>onward, <1>close DEF Ended, Fail
<1>5. CASE \/ LoadedSingle \/ WarmupFailsSingle \/ LoadedConv \/ WarmupFailsConv
           \/ LoadedConc \/ LoadFailsConc \/ WarmupCrashesConc
  BY <1>5, <1>onward, <1>close, <1>case DEF TypeOK, Positions, Ended, LoadedSingle, WarmupFailsSingle, LoadedConv,
       WarmupFailsConv, LoadedConc, LoadFailsConc, WarmupCrashesConc
<1>15. CASE \/ LoadedAcc \/ WarmupFailsAcc \/ LoadedImage \/ WarmupFailsImage
            \/ SoakBegins \/ SoakEnds \/ SweepStops
  BY <1>15, <1>onward, <1>close, <1>case DEF TypeOK, Positions, Ended, LoadedAcc, WarmupFailsAcc, LoadedImage,
       WarmupFailsImage, SoakBegins, SoakEnds, SweepStops
<1>6. CASE \/ CallTimesOut \/ GiveUp \/ BatchUseless \/ BatchCrashes
           \/ AnswerCrashes \/ DrawTimesOut \/ BenchFails
           \/ TurnSlow \/ TurnTimesOut \/ TurnCrashes \/ TurnFails \/ OutOfRoom
  BY <1>6, <1>close DEF CallTimesOut, GiveUp, BatchUseless, BatchCrashes, AnswerCrashes,
       DrawTimesOut, BenchFails, TurnSlow, TurnTimesOut, TurnCrashes, TurnFails, OutOfRoom,
       InCalls, InBatch, InTurn
<1>7. CASE RecordSingle \/ BatchDone \/ Answered \/ Drawn \/ BenchDone \/ RowStreams
  <2>1. at' = Onward(at.depth) \/ \E why : at' = Stop(why)
    BY <1>7 DEF RecordSingle, BatchDone, Answered, Drawn, BenchDone, RowStreams
  <2>2. at.pc \in AtCase
    BY <1>7 DEF RecordSingle, BatchDone, Answered, Drawn, BenchDone, RowStreams, InBatch
  <2> QED
    BY <1>0, <2>1, <2>2, <1>close, <1>case, OnwardLeads
<1>8. CASE Called
  <2>1. at.pc \in AtCase
    BY <1>8 DEF Called, InCalls
  <2> QED
    BY <1>8, <2>1, <1>close, <1>case, CalledLeads
<1>9. CASE RetryCall
  <2>1. at'.pc = at.pc /\ M' = M /\ at.pc \in AtCase
    BY <1>9 DEF RetryCall, InCalls, InBatch, TypeOK, Positions
  <2> QED
    BY <2>1, <1>case
<1>10. CASE TurnReaches
  <2>1. at' = Stop("-") \/ at' = [at EXCEPT !.depth = @ + 1]
    BY <1>10 DEF TurnReaches
  <2>2. at.pc = "turn"
    BY <1>10 DEF TurnReaches, InTurn
  <2>3. [at EXCEPT !.depth = @ + 1].pc = "turn" /\ [at EXCEPT !.depth = @ + 1].model = at.model
    BY <2>2 DEF TypeOK, Positions
  <2> QED
    BY <2>1, <2>2, <2>3, <1>close, <1>case DEF TypeOK, Positions
<1>11. CASE Take
  <2>1. \/ at' = Onward(0) \/ at' = After
        \/ at' = [at EXCEPT !.pc = "load", !.depth = 1]
    BY <1>11 DEF Take
  <2>2. at.pc = "model"
    BY <1>11 DEF Take, AtModel
  <2>3. /\ [at EXCEPT !.pc = "load", !.depth = 1].pc = "load"
        /\ [at EXCEPT !.pc = "load", !.depth = 1].model = at.model
    BY DEF TypeOK, Positions
  <2>4. \/ at'.pc \in {"close", "ask", "draw", "load"} /\ M' = M
        \/ at'.pc = "model" /\ at' = After
    BY <1>0, <2>1, <2>3, OnwardLeads
  <2> QED
    BY <1>11, <2>2, <2>4, <1>onward, <1>close DEF Leads, Places, Ended
<1> QED
  BY <1>4, <1>14, <1>24, <1>34, <1>44, <1>5, <1>15, <1>6, <1>7, <1>8, <1>9, <1>10, <1>11
     DEF RunnerStep

LEMMA FinishLeads ==
    ASSUME TypeOK, RunnerStep, at.pc = "finish" PROVE at'.pc = "gone"
<1>1. Finish
  BY DEF AtCase, RunnerStep, Start, NotPulled, KnownCrash, Take, Handle, Close, MeetStray, NoBinary,
       NoFiles, HandleBatch, Unreachable, Fail, AtModel, LoadedSingle, WarmupFailsSingle, LoadedConv,
       WarmupFailsConv, LoadedConc, LoadFailsConc, WarmupCrashesConc, Called, CallTimesOut,
       RetryCall, GiveUp, RecordSingle, InCalls, InBatch, InTurn,
       BatchDone, BatchUseless, BatchCrashes, LoadedAcc, WarmupFailsAcc, Answered, AnswerCrashes,
       LoadedImage, WarmupFailsImage, Drawn, DrawTimesOut, BenchDone, BenchFails, RowStreams,
       SweepStops, WarmupFailsSoak, SoakBegins, SoakEnds,
       TurnSlow, TurnReaches, OutOfRoom, TurnTimesOut, TurnCrashes, TurnFails
<1> QED
  BY <1>1 DEF Finish, End, Begun

\* The crash cache is read when a process starts, and written as a whole.
LEMMA CacheWrites ==
    ASSUME TypeOK, RunnerStep
    PROVE  \/ UNCHANGED crashCache
           \/ RecordCrash /\ at.pc \in AtCase \cup {"close"}
           \/ at'.pc = "model" /\ Start /\ cache' = known /\ UNCHANGED known
<1>1. CASE Start
  <2>1. [at EXCEPT !.pc = "model"].pc = "model"
    BY DEF TypeOK, Positions
  <2> QED
    BY <1>1, <2>1 DEF Start, crashCache, Go
<1>2. CASE \/ WarmupFailsSingle \/ WarmupFailsConv \/ WarmupCrashesConc \/ GiveUp
           \/ BatchCrashes \/ WarmupFailsAcc \/ AnswerCrashes \/ WarmupFailsSoak \/ Close
  BY <1>2 DEF WarmupFailsSingle, WarmupFailsConv, WarmupCrashesConc, GiveUp, InCalls,
       BatchCrashes, InBatch, WarmupFailsAcc, AnswerCrashes, WarmupFailsSoak, Close, AtCase
<1>3. CASE \/ NotPulled \/ KnownCrash \/ Take \/ Handle \/ Finish
           \/ LoadedSingle \/ LoadedConv \/ LoadedConc \/ LoadFailsConc
           \/ Called \/ CallTimesOut \/ RetryCall \/ RecordSingle
           \/ BatchDone \/ BatchUseless \/ LoadedAcc \/ Answered
           \/ LoadedImage \/ WarmupFailsImage \/ Drawn \/ DrawTimesOut
  BY <1>3 DEF crashCache, NotPulled, KnownCrash, Take, Handle, Finish, LoadedSingle, LoadedConv,
       LoadedConc, LoadFailsConc, Called, CallTimesOut, RetryCall, RecordSingle,
       BatchDone, BatchUseless, LoadedAcc, Answered, LoadedImage, WarmupFailsImage, Drawn, DrawTimesOut
<1>4. CASE \/ BenchDone \/ BenchFails \/ RowStreams \/ SweepStops \/ SoakBegins \/ SoakEnds
           \/ MeetStray \/ NoBinary \/ NoFiles \/ HandleBatch
           \/ TurnSlow \/ TurnReaches \/ OutOfRoom \/ TurnTimesOut \/ TurnCrashes \/ TurnFails
           \/ Unreachable \/ Fail
  BY <1>4 DEF crashCache, BenchDone, BenchFails, RowStreams, SweepStops, SoakBegins, SoakEnds,
       MeetStray, NoBinary, NoFiles, HandleBatch, TurnSlow, TurnReaches, OutOfRoom, TurnTimesOut,
       TurnCrashes, TurnFails, Unreachable, Fail
<1> QED
  BY <1>1, <1>2, <1>3, <1>4 DEF RunnerStep

-----------------------------------------------------------------------------
(* The crash cache.                                                        *)

LEMMA CacheInit == Init => CachesAgree /\ CrashersAreSkipped
BY DEF Init, Begun, CachesAgree, CrashersAreSkipped, AtCase, Ended

\* What takes a known crasher goes past its depths.
LEMMA KnownAreNotTaken ==
    ASSUME TypeOK, Take, M \in cache, ~retry
    PROVE  at'.pc = "close"
<1>1. ~HasWork /\ kind # "conv"
  BY DEF Take, SkipsKnown, HasWork
<1>2. \A d \in Depths : ~Pending(M, d)
  BY <1>1 DEF HasWork
<1>3. at' = Onward(0)
  BY <1>1 DEF Take
<1>4. Onward(0) = Stop("-")
  BY <1>2, OnwardGoes
<1> QED
  BY <1>3, <1>4 DEF Stop, Begun

LEMMA CacheStep ==
    ASSUME TypeOK, PlaceFits, CachesAgree, CrashersAreSkipped, [Next]_vars
    PROVE  CachesAgree' /\ CrashersAreSkipped'
<1>1. ASSUME RunnerStep
      PROVE  CachesAgree' /\ CrashersAreSkipped'
  <2>1. crashers' = crashers /\ retry' = retry
    BY <1>1, RestStep DEF order
  <2>2. at'.pc # "start" /\ at.pc \notin Ended
    BY <1>1, StepsLead DEF Places
  <2>3. CachesAgree'
    <3>1. CASE UNCHANGED crashCache
      <4>1. at.pc = "start" => at'.pc \in {"gone", "finish"} \/ cache' = known
        BY <1>1, StepsLead DEF Start, End, Begun
      <4>2. at.pc = "finish" => at'.pc = "gone"
        BY <1>1, FinishLeads
      <4> QED
        BY <2>1, <2>2, <3>1, <4>1, <4>2 DEF CachesAgree, crashCache, Ended
    <3>2. CASE RecordCrash /\ at.pc \in AtCase \cup {"close"}
      <4>1. cache = known
        BY <3>2 DEF CachesAgree, AtCase, Ended
      <4> QED
        BY <2>1, <2>2, <3>2, <4>1 DEF CachesAgree, RecordCrash
    <3>3. CASE Start /\ cache' = known /\ UNCHANGED known
      BY <2>1, <2>2, <3>3 DEF CachesAgree
    <3> QED
      BY <1>1, <3>1, <3>2, <3>3, CacheWrites
  <2>4. CrashersAreSkipped'
    <3>1. CASE at'.pc \in AtCase /\ at.pc \in AtCase
      BY <1>1, <2>1, <3>1, StepsLead DEF CrashersAreSkipped
    <3>2. CASE at'.pc \in AtCase /\ Take
      <4>1. at.pc = "model" /\ M' = M
        BY <1>1, <3>2, StepsLead DEF Take, AtModel
      <4>2. ~(M \in cache /\ ~retry)
        BY <3>2, KnownAreNotTaken DEF AtCase
      <4> QED
        BY <2>1, <4>1, <4>2 DEF CachesAgree, CrashersAreSkipped, Ended
    <3> QED
      BY <1>1, <3>1, <3>2, StepsLead DEF CrashersAreSkipped
  <2> QED
    BY <2>3, <2>4
<1>2. ASSUME Session
      PROVE  CachesAgree' /\ CrashersAreSkipped'
  BY <1>2 DEF Session, Begun, CachesAgree, CrashersAreSkipped, AtCase, Ended
<1>3. ASSUME Kill
      PROVE  CachesAgree' /\ CrashersAreSkipped'
  BY <1>3 DEF Kill, End, Begun, CachesAgree, CrashersAreSkipped, AtCase, Ended, crashCache, order
<1>4. ASSUME UNCHANGED vars
      PROVE  CachesAgree' /\ CrashersAreSkipped'
  BY <1>4 DEF vars, crashCache, order, CachesAgree, CrashersAreSkipped, M
<1> QED
  BY <1>1, <1>2, <1>3, <1>4 DEF Next, Resume, RetryCases, NewRun, Over

LEMMA CacheIsInvariant == Spec => [](CachesAgree /\ CrashersAreSkipped)
BY CacheInit, CacheStep, LoopTypeCorrect, PTL DEF Spec

\* Whatever the workload and in whatever job, a process neither loads nor asks a
\* model whose crashes an earlier process recorded, unless it retries them.
THEOREM CrashersStayAlone == Spec => []CrashersAreLeftAlone
<1>1. CrashersAreSkipped => CrashersAreLeftAlone
  BY DEF CrashersAreSkipped, CrashersAreLeftAlone, Calling, AtCase
<1> QED
  BY <1>1, CacheIsInvariant, PTL

-----------------------------------------------------------------------------
(* The marks of models.                                                    *)

LEMMA MarksInit == Init => MarksAreOpen /\ StageFits /\ ResumeOutlivesItsModels
BY DEF Init, Begun, NoMarks, MarksAreOpen, StageFits, ResumeOutlivesItsModels, Ended, OpenMarks

\* A runner marks its own model, then leaves it.
LEMMA MarksMove ==
    ASSUME TypeOK, PlaceFits, RunnerStep
    PROVE  \/ UNCHANGED marks /\ (at'.pc \notin Ended => at'.model >= M)
           \/ /\ \E s \in MarkStates : Mark(s)
              /\ at' = After
<1> USE DEF Ended, Go, NextModel, End, journal
<1>0. at.depth \in Nat /\ 0 \in Nat /\ M \in Nat /\ After.model = M + 1
  BY LoopAssumption DEF TypeOK, Positions, M, After, Begun
<1>1. CASE NotPulled
  BY <1>0, <1>1 DEF NotPulled, MarkStates
<1>2. CASE NoFiles \/ KnownCrash \/ Handle \/ WarmupFailsSoak
  BY <1>0, <1>2 DEF NoFiles, KnownCrash, Handle, WarmupFailsSoak, MarkStates, TypeOK, Positions, M
<1>3. CASE Close
  <2>1. MarkFor(at.stop) \in MarkStates
    BY DEF MarkFor, MarkStates, TypeOK, Positions, Stops
  <2> QED
    BY <1>0, <1>3, <2>1 DEF Close, TypeOK, Positions, M
<1>4. CASE ~(NotPulled \/ NoFiles \/ KnownCrash \/ Handle \/ WarmupFailsSoak \/ Close)
  <2>1. UNCHANGED marks
    BY <1>4 DEF RunnerStep, Start, Take, Finish,
       LoadedSingle, WarmupFailsSingle, LoadedConv, WarmupFailsConv, LoadedConc, LoadFailsConc,
       WarmupCrashesConc, Called, CallTimesOut, RetryCall, GiveUp, RecordSingle,
       BatchDone, BatchUseless, BatchCrashes, LoadedAcc, WarmupFailsAcc, Answered, AnswerCrashes,
       LoadedImage, WarmupFailsImage, Drawn, DrawTimesOut, BenchDone, BenchFails, RowStreams,
       SweepStops, SoakBegins, SoakEnds, MeetStray, NoBinary, HandleBatch,
       TurnSlow, TurnReaches, OutOfRoom, TurnTimesOut, TurnCrashes, TurnFails, Unreachable, Fail
  <2>2. at'.pc \in AtCase \cup {"close", "raised"} => at'.model = M
    BY StepsLead DEF M
  <2>3. at'.pc = "model" => at'.model \in {M, M + 1}
    <3>1. Start /\ at'.pc = "model" => at'.model = M
      BY DEF Start, Begun, TypeOK, Positions, M
    <3> QED
      BY <1>0, <3>1, StepsLead
  <2>4. at'.pc = "finish" => at'.model = M
    BY StepsLead DEF M
  <2> QED
    BY <1>0, <2>1, <2>2, <2>3, <2>4, StepsLead DEF Places
<1> QED
  BY <1>1, <1>2, <1>3, <1>4

LEMMA StageMoves ==
    ASSUME RunnerStep PROVE UNCHANGED stage \/ Finish
<1>1. CASE \/ Start \/ NotPulled \/ KnownCrash \/ Take \/ Handle \/ Close
           \/ LoadedSingle \/ WarmupFailsSingle \/ LoadedConv \/ WarmupFailsConv
           \/ LoadedConc \/ LoadFailsConc \/ WarmupCrashesConc
           \/ Called \/ CallTimesOut \/ RetryCall \/ GiveUp \/ RecordSingle
           \/ BatchDone \/ BatchUseless \/ BatchCrashes
  BY <1>1 DEF journal, Start, NotPulled, KnownCrash, Take, Handle, Close, LoadedSingle,
       WarmupFailsSingle, LoadedConv, WarmupFailsConv, LoadedConc, LoadFailsConc, WarmupCrashesConc,
       Called, CallTimesOut, RetryCall, GiveUp, RecordSingle, BatchDone, BatchUseless, BatchCrashes
<1>2. CASE \/ LoadedAcc \/ WarmupFailsAcc \/ Answered \/ AnswerCrashes
           \/ LoadedImage \/ WarmupFailsImage \/ Drawn \/ DrawTimesOut
           \/ BenchDone \/ BenchFails \/ RowStreams \/ SweepStops
           \/ WarmupFailsSoak \/ SoakBegins \/ SoakEnds
  BY <1>2 DEF journal, LoadedAcc, WarmupFailsAcc, Answered, AnswerCrashes, LoadedImage,
       WarmupFailsImage, Drawn, DrawTimesOut, BenchDone, BenchFails, RowStreams, SweepStops,
       WarmupFailsSoak, SoakBegins, SoakEnds
<1>3. CASE \/ MeetStray \/ NoBinary \/ NoFiles \/ HandleBatch
           \/ TurnSlow \/ TurnReaches \/ OutOfRoom \/ TurnTimesOut \/ TurnCrashes \/ TurnFails
           \/ Unreachable \/ Fail
  BY <1>3 DEF journal, MeetStray, NoBinary, NoFiles, HandleBatch, TurnSlow, TurnReaches,
       OutOfRoom, TurnTimesOut, TurnCrashes, TurnFails, Unreachable, Fail
<1> QED
  BY <1>1, <1>2, <1>3 DEF RunnerStep

\* What ends a process other than by finishing its stage, or at its start.
LEMMA DeathLeads ==
    ASSUME TypeOK, PlaceFits, RunnerStep, at'.pc = "died"
    PROVE  MeetStray \/ (Fail /\ kind = "image") \/ (Handle /\ ~MarkAccepted("failed"))
<1>0. at.depth \in Nat /\ 0 \in Nat
  BY DEF TypeOK, Positions
<1>1. ~(NextModel \/ End \/ (\E why : at' = Stop(why)))
  BY DEF NextModel, After, End, Begun, Stop
<1>2. ~(\E d \in Nat : at' = Onward(d))
  BY OnwardLeads
<1>3. ASSUME NEW p, Go(p) PROVE p = "died"
  BY <1>3 DEF Go, TypeOK, Positions
<1>4. ~RetryCall /\ ~TurnReaches
  <2>1. ASSUME RetryCall PROVE at'.pc = at.pc
    BY <2>1 DEF RetryCall, TypeOK, Positions
  <2>2. RetryCall => at.pc # "died"
    BY DEF RetryCall, InCalls, InBatch
  <2>3. ASSUME at' = [at EXCEPT !.depth = @ + 1] PROVE at'.pc = at.pc
    BY <2>3 DEF TypeOK, Positions
  <2> QED
    BY <1>1, <2>1, <2>2, <2>3 DEF TurnReaches, InTurn
<1>5. ~Take
  BY StepsLead, <1>0, <1>1, <1>2 DEF Take, TypeOK, Positions, NextModel
<1>6. ~Called
  BY CalledLeads
<1>7. ~(\/ Start \/ NotPulled \/ KnownCrash \/ Close \/ Finish \/ NoBinary \/ NoFiles \/ HandleBatch
        \/ Unreachable)
  BY <1>1, <1>3 DEF Start, NotPulled, KnownCrash, Close, Finish, NoBinary, NoFiles, HandleBatch,
       Unreachable
<1>8. ~(\/ LoadedSingle \/ WarmupFailsSingle \/ LoadedConv \/ WarmupFailsConv
        \/ LoadedConc \/ LoadFailsConc \/ WarmupCrashesConc \/ CallTimesOut \/ GiveUp
        \/ BatchUseless \/ BatchCrashes)
  BY <1>1, <1>3 DEF LoadedSingle, WarmupFailsSingle, LoadedConv, WarmupFailsConv, LoadedConc,
       LoadFailsConc, WarmupCrashesConc, CallTimesOut, GiveUp, BatchUseless, BatchCrashes
<1>9. ~(\/ LoadedAcc \/ WarmupFailsAcc \/ AnswerCrashes \/ LoadedImage \/ WarmupFailsImage
        \/ DrawTimesOut \/ BenchFails \/ SweepStops \/ WarmupFailsSoak \/ SoakBegins \/ SoakEnds)
  BY <1>1, <1>3 DEF LoadedAcc, WarmupFailsAcc, AnswerCrashes, LoadedImage, WarmupFailsImage,
       DrawTimesOut, BenchFails, SweepStops, WarmupFailsSoak, SoakBegins, SoakEnds
<1>10. ~(TurnSlow \/ OutOfRoom \/ TurnTimesOut \/ TurnCrashes \/ TurnFails)
  BY <1>1 DEF TurnSlow, OutOfRoom, TurnTimesOut, TurnCrashes, TurnFails
<1>11. ~(RecordSingle \/ BatchDone \/ Answered \/ Drawn \/ BenchDone \/ RowStreams)
  BY <1>0, <1>1, <1>2 DEF RecordSingle, BatchDone, Answered, Drawn, BenchDone, RowStreams
<1>12. Fail => kind = "image"
  BY <1>3 DEF Fail
<1>13. Handle => ~MarkAccepted("failed")
  BY <1>1 DEF Handle
<1> QED
  BY <1>4, <1>5, <1>6, <1>7, <1>8, <1>9, <1>10, <1>11, <1>12, <1>13 DEF RunnerStep

LEMMA MarksStays ==
    ASSUME TypeOK, PlaceFits, MarksAreOpen, StageFits, ResumeOutlivesItsModels, [Next]_vars
    PROVE  MarksAreOpen' /\ StageFits' /\ ResumeOutlivesItsModels'
<1>1. ASSUME RunnerStep
      PROVE  MarksAreOpen' /\ StageFits' /\ ResumeOutlivesItsModels'
  <2>1. /\ selected' = selected /\ picked' = picked /\ Models' = Models
        /\ CaseIds' = CaseIds /\ kind' = kind
    BY <1>1, RestStep DEF order, Models, CaseIds, Depths, kind
  <2>2. at.pc \notin Ended
    BY <1>1, StepsLead
  <2>3. MarksAreOpen'
    <3> SUFFICES ASSUME ~selected, at'.pc \notin Ended, NEW m \in Models, NEW s \in OpenMarks,
                        m >= at'.model
                 PROVE  marks'[m][s] # "set"
      BY <2>1 DEF MarksAreOpen, M
    <3>1. M \in Nat /\ m \in Nat /\ OpenMarks \subseteq MarkStates
      BY LoopAssumption DEF TypeOK, Positions, M, Models, OpenMarks
    <3>2. CASE UNCHANGED marks /\ at'.model >= M
      <4>1. m >= M
        <5>1. at'.model \in Nat
          BY <1>1, PositionStep DEF Positions
        <5> QED
          BY <3>1, <3>2, <5>1
      <4> QED
        BY <2>2, <3>2, <4>1 DEF MarksAreOpen
    <3>3. CASE (\E t \in MarkStates : Mark(t)) /\ at' = After
      <4>1. at'.model = M + 1
        BY <3>3 DEF After, Begun
      <4>2. m >= M /\ m # M
        BY <3>1, <4>1
      <4>3. marks'[m] = marks[m]
        BY <3>3, <4>2 DEF Mark, TypeOK
      <4> QED
        BY <2>2, <4>2, <4>3 DEF MarksAreOpen
    <3> QED
      BY <1>1, <3>2, <3>3, MarksMove
  <2>4. StageFits'
    <3>1. Finish => at'.pc = "gone"
      BY DEF Finish, End, Begun
    <3> QED
      BY <1>1, <2>1, <2>2, <3>1, StageMoves DEF StageFits, Ended
  <2>5. ResumeOutlivesItsModels'
    <3>1. MeetStray => kind = "soak"
      BY DEF MeetStray, Stray
    <3>2. Handle /\ ~MarkAccepted("failed") => selected \/ kind = "soak"
      <4> SUFFICES ASSUME Handle, ~MarkAccepted("failed"), ~selected, kind # "soak"
                   PROVE  FALSE
        OBVIOUS
      <4>1. at.pc = "raised" /\ M \in Models
        BY DEF Handle, PlaceFits
      <4>2. marks[M]["failed"] # "set"
        BY <2>2, <4>1, LoopAssumption DEF MarksAreOpen, OpenMarks, MarkStates, Models, TypeOK
      <4> QED
        BY <4>2 DEF MarkAccepted
    <3> QED
      BY <1>1, <2>1, <3>1, <3>2, DeathLeads DEF ResumeOutlivesItsModels
  <2> QED
    BY <2>3, <2>4, <2>5
<1>2. ASSUME Kill \/ UNCHANGED vars
      PROVE  MarksAreOpen' /\ StageFits' /\ ResumeOutlivesItsModels'
  <2>1. CASE Kill
    BY <2>1 DEF Kill, End, Begun, order, journal, MarksAreOpen, StageFits, ResumeOutlivesItsModels,
         Ended, CaseIds, Models, Depths
  <2>2. CASE UNCHANGED vars
    BY <2>2 DEF vars, order, journal, MarksAreOpen, StageFits, ResumeOutlivesItsModels,
         CaseIds, Models, Depths, M, kind
  <2> QED
    BY <1>2, <2>1, <2>2
<1>3. ASSUME Session
      PROVE  at'.pc = "start" /\ stage' = "running" /\ CaseIds' = CaseIds /\ Models' = Models
  BY <1>3 DEF Session, Begun, CaseIds, Models, Depths
<1>4. ASSUME Resume
      PROVE  MarksAreOpen' /\ StageFits' /\ ResumeOutlivesItsModels'
  <2>1. \A m \in Models : \A s \in OpenMarks : marks'[m][s] # "set"
    BY <1>4 DEF Resume, OpenMarks
  <2> QED
    BY <1>3, <1>4, <2>1 DEF Resume, MarksAreOpen, StageFits, ResumeOutlivesItsModels
<1>5. ASSUME RetryCases
      PROVE  MarksAreOpen' /\ StageFits' /\ ResumeOutlivesItsModels'
  BY <1>3, <1>5 DEF RetryCases, MarksAreOpen, StageFits, ResumeOutlivesItsModels
<1>6. ASSUME NewRun
      PROVE  MarksAreOpen' /\ StageFits' /\ ResumeOutlivesItsModels'
  <2>1. \A m \in Models : \A s \in OpenMarks : marks'[m][s] # "set"
    BY <1>6 DEF NewRun, NoMarks, OpenMarks
  <2> QED
    BY <1>3, <1>6, <2>1 DEF NewRun, MarksAreOpen, StageFits, ResumeOutlivesItsModels
<1> QED
  BY <1>1, <1>2, <1>4, <1>5, <1>6 DEF Next, Over

LEMMA MarksAreInvariant == Spec => [](MarksAreOpen /\ StageFits /\ ResumeOutlivesItsModels)
BY MarksInit, MarksStays, LoopTypeCorrect, PTL DEF Spec

\* A process that resumes a whole stage is ended by no failure of a model, image
\* tests and soaks apart.
THEOREM ResumesOutliveTheirModels == Spec => []ResumeOutlivesItsModels
BY MarksAreInvariant, PTL

-----------------------------------------------------------------------------
(* What is recorded, and what is left.                                     *)

\* A case that is recorded is the one at hand, and nothing else changes.
LEMMA OneCase ==
    ASSUME TypeOK, M \in Models, at.depth \in Depths, NEW state, RecordCase(state)
    PROVE  /\ cases'[M][at.depth] = state
           /\ \A e \in Depths : e # at.depth => cases'[M][e] = cases[M][e]
           /\ \A m \in Models : m # M => cases'[m] = cases[m]
BY DEF RecordCase, TypeOK

LEMMA CasesMove ==
    ASSUME TypeOK, PlaceFits, RunnerStep
    PROVE  \/ UNCHANGED cases
           \/ /\ M \in Models /\ at.depth \in Depths
              /\ at.pc \in AtCase \/ kind = "emb"
              /\ \E state \in Recorded \cup {"running"} : RecordCase(state)
           \/ WarmupFailsImage
<1>0. at.pc \in AtCase \/ (at.pc = "raised" /\ kind = "emb") => M \in Models /\ at.depth \in Depths
  BY DEF PlaceFits
<1>1. CASE \/ Start \/ NotPulled \/ KnownCrash \/ Take \/ Handle \/ Close \/ Finish
           \/ LoadedSingle \/ LoadedConv \/ WarmupFailsConv \/ LoadedConc \/ LoadFailsConc
           \/ WarmupCrashesConc \/ Called \/ RetryCall
  BY <1>1 DEF journal, Start, NotPulled, KnownCrash, Take, Handle, Close, Finish, LoadedSingle,
       LoadedConv, WarmupFailsConv, LoadedConc, LoadFailsConc, WarmupCrashesConc, Called, RetryCall
<1>2. CASE \/ LoadedAcc \/ WarmupFailsAcc \/ LoadedImage \/ SweepStops \/ WarmupFailsSoak
           \/ MeetStray \/ NoBinary \/ NoFiles \/ OutOfRoom \/ Unreachable \/ Fail
  BY <1>2 DEF journal, LoadedAcc, WarmupFailsAcc, LoadedImage, SweepStops, WarmupFailsSoak,
       MeetStray, NoBinary, NoFiles, OutOfRoom, Unreachable, Fail
<1>3. CASE \/ WarmupFailsSingle \/ CallTimesOut \/ GiveUp \/ RecordSingle
           \/ BatchDone \/ BatchUseless \/ BatchCrashes
  BY <1>0, <1>3 DEF WarmupFailsSingle, CallTimesOut, GiveUp, RecordSingle, BatchDone, BatchUseless,
       BatchCrashes, Ends, InCalls, InBatch, AtCase, Recorded, Settled
<1>4. CASE \/ Answered \/ AnswerCrashes \/ Drawn \/ DrawTimesOut \/ BenchDone \/ BenchFails
           \/ RowStreams \/ SoakBegins \/ SoakEnds \/ HandleBatch
  BY <1>0, <1>4 DEF Answered, AnswerCrashes, Drawn, DrawTimesOut, BenchDone, BenchFails,
       RowStreams, SoakBegins, SoakEnds, HandleBatch, AtCase, Recorded, Settled
<1>5. CASE TurnSlow \/ TurnReaches \/ TurnTimesOut \/ TurnCrashes \/ TurnFails
  BY <1>0, <1>5 DEF TurnSlow, TurnReaches, TurnTimesOut, TurnCrashes, TurnFails, RecordTurn,
       InTurn, AtCase, Recorded, Settled
<1> QED
  BY <1>1, <1>2, <1>3, <1>4, <1>5 DEF RunnerStep

\* The cases of other models stay as they are.
LEMMA OthersStay ==
    ASSUME TypeOK, PlaceFits, RunnerStep, NEW m \in Models, m # M
    PROVE  cases'[m] = cases[m]
<1>1. WarmupFailsImage => cases'[m] = cases[m]
  BY DEF WarmupFailsImage, TypeOK
<1> QED
  BY <1>1, CasesMove, OneCase

LEMMA SilentGrows ==
    ASSUME TypeOK, RunnerStep, kind # "conv"
    PROVE  silent \subseteq silent'
<1>1. CASE NotPulled \/ Unreachable \/ WarmupFailsAcc \/ NoBinary
  BY <1>1 DEF NotPulled, Unreachable, WarmupFailsAcc, NoBinary, TypeOK
<1>2. CASE \/ Start \/ KnownCrash \/ Take \/ Handle \/ Close \/ Finish
           \/ LoadedSingle \/ WarmupFailsSingle \/ LoadedConv \/ WarmupFailsConv
           \/ LoadedConc \/ LoadFailsConc \/ WarmupCrashesConc
           \/ Called \/ CallTimesOut \/ RetryCall \/ GiveUp \/ RecordSingle
           \/ BatchDone \/ BatchUseless \/ BatchCrashes
  BY <1>2 DEF Start, KnownCrash, Take, Handle, Close, Finish, LoadedSingle, WarmupFailsSingle,
       LoadedConv, WarmupFailsConv, LoadedConc, LoadFailsConc, WarmupCrashesConc, Called,
       CallTimesOut, RetryCall, GiveUp, RecordSingle, BatchDone, BatchUseless, BatchCrashes
<1>3. CASE \/ LoadedAcc \/ Answered \/ AnswerCrashes \/ LoadedImage \/ WarmupFailsImage \/ Drawn
           \/ DrawTimesOut \/ BenchDone \/ BenchFails \/ RowStreams \/ SweepStops
           \/ WarmupFailsSoak \/ SoakBegins \/ SoakEnds \/ MeetStray \/ NoFiles \/ HandleBatch
  BY <1>3 DEF LoadedAcc, Answered, AnswerCrashes, LoadedImage, WarmupFailsImage, Drawn,
       DrawTimesOut, BenchDone, BenchFails, RowStreams, SweepStops, WarmupFailsSoak, SoakBegins,
       SoakEnds, MeetStray, NoFiles, HandleBatch
<1>4. CASE \/ TurnSlow \/ TurnReaches \/ OutOfRoom \/ TurnTimesOut \/ TurnCrashes \/ TurnFails \/ Fail
  BY <1>4 DEF TurnSlow, TurnReaches, OutOfRoom, TurnTimesOut, TurnCrashes, TurnFails, Fail
<1> QED
  BY <1>1, <1>2, <1>3, <1>4 DEF RunnerStep

\* What a runner knows of a model, it does not forget with another.
LEMMA OthersStayThrough ==
    ASSUME TypeOK, PlaceFits, RunnerStep, kind # "conv",
           NEW m \in Models, m # M, Through(m)
    PROVE  Through(m)'
<1>1. cases'[m] = cases[m] /\ picked' = picked /\ silent \subseteq silent' /\ Depths' = Depths
  BY OthersStay, RestStep, SilentGrows DEF order, Depths
<1>2. marks'[m] = marks[m]
  BY MarksMove DEF Mark, TypeOK
<1>3. CASE m \in silent
  BY <1>1, <1>3 DEF Through
<1>4. CASE Explained(m)
  BY <1>1, <1>2, <1>4 DEF Through, Explained
<1>5. CASE \A d \in Depths : ~Pending(m, d)
  BY <1>1, <1>5 DEF Through, Pending
<1> QED
  BY <1>3, <1>4, <1>5 DEF Through

\* Recording the case at hand, and going on, leaves nothing shallower to do.
LEMMA OnwardDone ==
    ASSUME TypeOK, PlaceFits, ShallowerIsDone, RunnerStep, at.pc \in AtCase, kind # "conv",
           NEW state \in Recorded, RecordCase(state), at' = Onward(at.depth)
    PROVE  /\ ShallowerIsDone'
           /\ at'.pc = "close" => \A d \in Depths : ~Pending(M, d)'
<1>0. /\ M \in Models /\ at.depth \in Depths /\ Depths \subseteq Nat
      /\ picked' = picked /\ Depths' = Depths /\ kind' = kind /\ at.depth \in Nat
  BY RestStep DEF PlaceFits, order, Depths, kind
<1>1. M' = M
  BY <1>0, OnwardLeads
<1>2. \A e \in Depths : e # at.depth => Pending(M, e)' = Pending(M, e)
  BY <1>0, <1>1, OneCase DEF Pending
<1>4. \A e \in Depths : e = at.depth => ~Pending(M, e)'
  BY <1>0, <1>1, OneCase DEF Pending, Recorded, Settled
<1>5. \A e \in Depths : e <= at.depth => ~Pending(M, e)'
  BY <1>0, <1>2, <1>4 DEF ShallowerIsDone
<1>6. CASE /\ Onward(at.depth) = Stop("-")
           /\ \A e \in Depths : e > at.depth => ~Pending(M, e)
  <2>1. at'.pc = "close"
    BY <1>6 DEF Stop, Begun
  <2>2. \A e \in Depths : ~Pending(M, e)'
    BY <1>0, <1>2, <1>5, <1>6
  <2> QED
    BY <2>1, <2>2 DEF ShallowerIsDone, AtCase
<1>7. ASSUME NEW e \in Depths, NEW p \in {"ask", "draw", "load"},
             e > at.depth, \A f \in Depths : f > at.depth /\ f < e => ~Pending(M, f),
             Onward(at.depth) = [at EXCEPT !.pc = p, !.run = 0, !.valid = FALSE,
                                           !.retries = 0, !.depth = e]
      PROVE  ShallowerIsDone' /\ at'.pc # "close"
  <2>1. at'.pc = p /\ at'.depth = e
    BY <1>7 DEF TypeOK, Positions
  <2>2. \A f \in Depths : f < e => ~Pending(M, f)'
    BY <1>0, <1>2, <1>5, <1>7
  <2> QED
    BY <1>0, <1>1, <2>1, <2>2 DEF ShallowerIsDone
<1>9. CASE \E e \in Depths, p \in {"ask", "draw", "load"} :
              /\ e > at.depth /\ Pending(M, e)
              /\ \A f \in Depths : f > at.depth /\ f < e => ~Pending(M, f)
              /\ p = "ask" => kind = "acc"
              /\ p = "draw" => kind = "image"
              /\ Onward(at.depth) = [at EXCEPT !.pc = p, !.run = 0, !.valid = FALSE,
                                            !.retries = 0, !.depth = e]
  <2>1. PICK e \in Depths, p \in {"ask", "draw", "load"} :
              /\ e > at.depth /\ \A f \in Depths : f > at.depth /\ f < e => ~Pending(M, f)
              /\ Onward(at.depth) = [at EXCEPT !.pc = p, !.run = 0, !.valid = FALSE,
                                            !.retries = 0, !.depth = e]
    BY <1>9
  <2> QED
    BY <2>1, <1>7
<1> QED
  BY <1>0, <1>6, <1>9, OnwardGoes

\* Taking a model begins with its shallowest pending depth.
LEMMA TakeDone ==
    ASSUME TypeOK, PlaceFits, Take, kind # "conv"
    PROVE  /\ ShallowerIsDone'
           /\ at'.pc = "close" => \A d \in Depths : ~Pending(M, d)'
<1>0. /\ cases' = cases /\ picked' = picked /\ Depths' = Depths /\ kind' = kind
      /\ Depths \subseteq Nat /\ at' = Onward(0) /\ 0 \in Nat
      /\ \A e \in Depths : e > 0
  BY DEF Take, order, journal, Depths, kind
<1>1. M' = M
  BY <1>0, OnwardLeads
<1>2. \A e \in Depths : Pending(M, e)' = Pending(M, e)
  BY <1>0, <1>1 DEF Pending
<1>3. CASE Onward(0) = Stop("-") /\ \A e \in Depths : e > 0 => ~Pending(M, e)
  <2>1. at'.pc = "close"
    BY <1>0, <1>3 DEF Stop, Begun
  <2> QED
    BY <1>0, <1>2, <1>3, <2>1 DEF ShallowerIsDone, AtCase
<1>4. ASSUME NEW e \in Depths, NEW p \in {"ask", "draw", "load"},
             \A f \in Depths : f > 0 /\ f < e => ~Pending(M, f),
             Onward(0) = [at EXCEPT !.pc = p, !.run = 0, !.valid = FALSE,
                                    !.retries = 0, !.depth = e]
      PROVE  ShallowerIsDone' /\ at'.pc # "close"
  <2>1. at'.pc = p /\ at'.depth = e
    BY <1>0, <1>4 DEF TypeOK, Positions
  <2> QED
    BY <1>0, <1>1, <1>2, <1>4, <2>1 DEF ShallowerIsDone
<1>9. CASE \E e \in Depths, p \in {"ask", "draw", "load"} :
              /\ e > 0 /\ Pending(M, e)
              /\ \A f \in Depths : f > 0 /\ f < e => ~Pending(M, f)
              /\ p = "ask" => kind = "acc"
              /\ p = "draw" => kind = "image"
              /\ Onward(0) = [at EXCEPT !.pc = p, !.run = 0, !.valid = FALSE,
                                            !.retries = 0, !.depth = e]
  <2>1. PICK e \in Depths, p \in {"ask", "draw", "load"} :
              /\ e > 0 /\ \A f \in Depths : f > 0 /\ f < e => ~Pending(M, f)
              /\ Onward(0) = [at EXCEPT !.pc = p, !.run = 0, !.valid = FALSE,
                                            !.retries = 0, !.depth = e]
    BY <1>9
  <2> QED
    BY <2>1, <1>4
<1> QED
  BY <1>0, <1>3, <1>9, OnwardGoes

\* Within a case a process stays at its depth, records it and goes on, or turns
\* to the next checkpoint of a conversation.
LEMMA WithinCase ==
    ASSUME TypeOK, PlaceFits, RunnerStep, at.pc \in AtCase, at'.pc \in AtCase
    PROVE  \/ at'.depth = at.depth /\ (UNCHANGED cases \/ RecordCase("running"))
           \/ /\ kind # "conv" /\ at' = Onward(at.depth)
              /\ \E state \in Recorded : RecordCase(state)
           \/ TurnReaches
<1>1. ~(NextModel \/ End \/ \E why : at' = Stop(why))
  BY DEF NextModel, After, End, Begun, Stop, AtCase
<1>2. ASSUME NEW p, Go(p) PROVE at'.depth = at.depth
  BY <1>2 DEF Go, TypeOK, Positions
<1>3. CASE Called
  BY <1>3, CalledLeads DEF Called, journal
<1>4. CASE RetryCall
  BY <1>4 DEF RetryCall, journal, TypeOK, Positions
<1>5. CASE \/ RecordSingle \/ BatchDone \/ Answered \/ Drawn \/ BenchDone \/ RowStreams
  BY <1>1, <1>5 DEF RecordSingle, BatchDone, Answered, Drawn, BenchDone, RowStreams, Recorded,
       Settled, PlaceFits, InBatch, Repeated, Single, Streaming
<1>6. CASE \/ LoadedSingle \/ LoadedConv \/ LoadedConc \/ LoadedAcc \/ LoadedImage \/ SoakBegins \/ Fail
  BY <1>2, <1>6 DEF LoadedSingle, LoadedConv, LoadedConc, LoadedAcc, LoadedImage, SoakBegins, Fail,
       journal
<1>7. ~(\/ Start \/ NotPulled \/ KnownCrash \/ Take \/ Handle \/ Close \/ Finish \/ MeetStray \/ NoBinary
        \/ NoFiles \/ HandleBatch \/ Unreachable)
  BY DEF Start, NotPulled, KnownCrash, Take, Handle, Close, Finish, MeetStray, NoBinary,
       NoFiles, HandleBatch, Unreachable, AtModel, AtCase
<1>8. ~(\/ WarmupFailsSingle \/ WarmupFailsConv \/ LoadFailsConc \/ WarmupCrashesConc \/ CallTimesOut
        \/ GiveUp \/ BatchUseless \/ BatchCrashes \/ WarmupFailsAcc \/ AnswerCrashes
        \/ WarmupFailsImage \/ DrawTimesOut \/ BenchFails \/ SweepStops \/ SoakEnds)
  BY <1>1 DEF WarmupFailsSingle, WarmupFailsConv, LoadFailsConc, WarmupCrashesConc, CallTimesOut,
       GiveUp, BatchUseless, BatchCrashes, WarmupFailsAcc, AnswerCrashes, WarmupFailsImage,
       DrawTimesOut, BenchFails, SweepStops, SoakEnds
<1>9. ~(TurnSlow \/ OutOfRoom \/ TurnTimesOut \/ TurnCrashes \/ TurnFails)
  BY <1>1 DEF TurnSlow, OutOfRoom, TurnTimesOut, TurnCrashes, TurnFails
<1>10. CASE WarmupFailsSoak
  <2>1. Go("raised")
    BY <1>1, <1>10 DEF WarmupFailsSoak
  <2> QED
    BY <2>1 DEF Go, TypeOK, Positions, AtCase
<1> QED
  BY <1>3, <1>4, <1>5, <1>6, <1>7, <1>8, <1>9, <1>10 DEF RunnerStep

LEMMA ShallowerStep ==
    ASSUME TypeOK, PlaceFits, ShallowerIsDone, [Next]_vars
    PROVE  ShallowerIsDone'
<1>1. ASSUME RunnerStep, at'.pc \in AtCase, at.pc \in AtCase
      PROVE  ShallowerIsDone'
  <2>1. /\ M' = M /\ picked' = picked /\ Depths' = Depths /\ kind' = kind
        /\ M \in Models /\ at.depth \in Depths /\ Depths \subseteq Nat
    BY <1>1, StepsLead, RestStep DEF order, Depths, kind, PlaceFits
  <2>2. CASE at'.depth = at.depth /\ UNCHANGED cases
    BY <1>1, <2>1, <2>2 DEF ShallowerIsDone, Pending
  <2>3. CASE at'.depth = at.depth /\ RecordCase("running")
    <3>1. \A e \in Depths : e < at.depth => cases'[M][e] = cases[M][e]
      BY <2>1, <2>3, OneCase
    <3> QED
      BY <1>1, <2>1, <2>3, <3>1 DEF ShallowerIsDone, Pending
  <2>4. ASSUME NEW state \in Recorded, at' = Onward(at.depth), RecordCase(state), kind # "conv"
        PROVE  ShallowerIsDone'
    BY <1>1, <2>4, OnwardDone
  <2>5. CASE TurnReaches
    <3>1. at' = [at EXCEPT !.depth = @ + 1] /\ kind = "conv"
      BY <1>1, <2>5 DEF TurnReaches, Stop, Begun, AtCase, InTurn, PlaceFits
    <3>2. at'.depth = at.depth + 1
      BY <3>1 DEF TypeOK, Positions
    <3>3. PICK state \in {"complete", "invalid"} : RecordTurn(state)
      BY <2>5 DEF TurnReaches
    <3>4. \A e \in Depths : e <= at.depth => cases'[M][e] # "none"
      <4>1. CASE ToMeasure
        <5>1. RecordCase(state)
          BY <3>3, <4>1 DEF RecordTurn
        <5> QED
          BY <1>1, <2>1, <3>1, <3>3, <5>1, OneCase DEF ShallowerIsDone
      <4>2. CASE ~ToMeasure
        BY <1>1, <2>1, <3>1, <3>3, <4>2 DEF RecordTurn, ToMeasure, Pending, ShallowerIsDone
      <4> QED
        BY <4>1, <4>2
    <3> QED
      BY <2>1, <3>1, <3>2, <3>4 DEF ShallowerIsDone
  <2> QED
    BY <1>1, <2>2, <2>3, <2>4, <2>5, WithinCase
<1>2. ASSUME RunnerStep, at'.pc \in AtCase, Take
      PROVE  ShallowerIsDone'
  <2>1. CASE kind # "conv"
    BY <1>2, <2>1, TakeDone
  <2>2. CASE kind = "conv"
    <3>1. at' = [at EXCEPT !.pc = "load", !.depth = 1]
      BY <1>2, <2>2 DEF Take, After, Begun, AtCase
    <3>2. at'.depth = 1 /\ kind' = kind
      BY <1>2, <3>1 DEF TypeOK, Positions, Take, order, kind
    <3>3. \A e \in Depths' : ~(e < 1)
      BY DEF Depths
    <3> QED
      BY <3>2, <3>3 DEF ShallowerIsDone
  <2> QED
    BY <2>1, <2>2
<1>3. ASSUME at'.pc \notin AtCase PROVE ShallowerIsDone'
  BY <1>3 DEF ShallowerIsDone
<1>4. ASSUME Kill \/ Session PROVE at'.pc \notin AtCase
  BY <1>4 DEF Kill, End, Session, Begun, AtCase
<1>5. ASSUME UNCHANGED vars PROVE ShallowerIsDone'
  BY <1>5 DEF vars, order, journal, ShallowerIsDone, Pending, Depths, kind, M
<1> QED
  BY <1>1, <1>2, <1>3, <1>4, <1>5, StepsLead DEF Next, Resume, RetryCases, NewRun, Over

\* Batches of embeddings and soaks have one depth.
LEMMA OneDepth ==
    ASSUME TypeOK, kind \in {"emb", "soak"}
    PROVE  Depths = {1}
BY LoopAssumption DEF TypeOK, kind, Depths

LEMMA PrefixStep ==
    ASSUME TypeOK, PlaceFits, ShallowerIsDone, RecordedIsPrefix, [Next]_vars
    PROVE  RecordedIsPrefix'
<1>0. CASE UNCHANGED <<plan, cases>>
  BY <1>0 DEF RecordedIsPrefix, Models, Depths
<1>1. ASSUME RunnerStep
      PROVE  RecordedIsPrefix'
  <2>1. Models' = Models /\ Depths' = Depths /\ plan' = plan /\ Depths \subseteq Nat
    BY <1>1, RestStep DEF order, Models, Depths
  <2> SUFFICES ASSUME NEW m \in Models, NEW d \in Depths, cases'[m][d] \in Recorded, NEW e \in 1 .. d
               PROVE  cases'[m][e] # "none"
    BY <2>1 DEF RecordedIsPrefix
  <2>2. e \in Depths /\ d \in Nat /\ e \in Nat /\ e <= d
    BY LoopAssumption DEF TypeOK, Depths
  <2>3. CASE UNCHANGED cases
    BY <2>3 DEF RecordedIsPrefix
  <2>4. ASSUME M \in Models, at.depth \in Depths, at.pc \in AtCase \/ kind = "emb",
               NEW state \in Recorded \cup {"running"}, RecordCase(state)
        PROVE  cases'[m][e] # "none"
    <3>1. CASE m # M
      BY <2>4, <3>1, OneCase DEF RecordedIsPrefix
    <3>2. CASE m = M /\ e = at.depth
      BY <2>4, <3>2, OneCase DEF Recorded, Settled
    <3>3. CASE m = M /\ e # at.depth /\ d # at.depth
      BY <2>2, <2>4, <3>3, OneCase DEF RecordedIsPrefix
    <3>4. CASE m = M /\ e # at.depth /\ d = at.depth
      <4>1. kind # "emb"
        BY <2>2, <2>4, <3>4, OneDepth
      <4>2. e < at.depth /\ at.pc \in AtCase
        BY <2>2, <2>4, <3>4, <4>1
      <4>3. cases[M][e] # "none"
        BY <2>2, <4>2 DEF ShallowerIsDone, Pending
      <4> QED
        BY <2>2, <2>4, <3>4, <4>3, OneCase
    <3> QED
      BY <3>1, <3>2, <3>3, <3>4
  <2>5. CASE WarmupFailsImage
    <3>1. CASE m # M
      BY <2>5, <3>1 DEF WarmupFailsImage, RecordedIsPrefix, TypeOK
    <3>2. CASE m = M
      <4>1. cases'[m][e] = IF Pending(M, e) THEN "failed" ELSE cases[M][e]
        BY <2>2, <2>5, <3>2 DEF WarmupFailsImage, TypeOK
      <4> QED
        BY <4>1 DEF Pending
    <3> QED
      BY <3>1, <3>2
  <2> QED
    BY <1>1, <2>3, <2>4, <2>5, CasesMove
<1>2. ASSUME NEW sel, Reopen(sel), UNCHANGED plan
      PROVE  RecordedIsPrefix'
  <2>1. Models' = Models /\ Depths' = Depths
    BY <1>2 DEF Models, Depths
  <2>2. \A m \in Models, d \in Depths :
            cases'[m][d] = IF <<m, d>> \in sel THEN "running" ELSE cases[m][d]
    BY <1>2 DEF Reopen
  <2>3. \A m \in Models, d \in Depths :
            /\ cases'[m][d] \in Recorded => cases[m][d] \in Recorded
            /\ cases[m][d] # "none" => cases'[m][d] # "none"
    BY <2>2 DEF Recorded, Settled
  <2>4. \A d \in Depths : 1 .. d \subseteq Depths
    BY LoopAssumption DEF TypeOK, Depths
  <2> QED
    BY <2>1, <2>3, <2>4 DEF RecordedIsPrefix
<1>3. CASE Kill
  BY <1>0, <1>3 DEF Kill, order, journal
<1>4. CASE Resume
  BY <1>2, <1>4 DEF Resume, Session
<1>5. CASE RetryCases
  BY <1>2, <1>5 DEF RetryCases, Session
<1>6. CASE NewRun
  BY <1>6 DEF NewRun, Session, NoCases, RecordedIsPrefix, Models, Depths, Recorded, Settled
<1>7. CASE UNCHANGED vars
  BY <1>0, <1>7 DEF vars, order, journal
<1> QED
  BY <1>1, <1>3, <1>4, <1>5, <1>6, <1>7 DEF Next, Over

\* A model is measured in the order of its depths, through failures, kills,
\* resumes and retries.
THEOREM RecordedArePrefixes == Spec => []RecordedIsPrefix
<1>1. Init => ShallowerIsDone /\ RecordedIsPrefix
  BY DEF Init, Begun, AtCase, NoCases, ShallowerIsDone, RecordedIsPrefix, Recorded, Settled
<1>2. TypeOK /\ PlaceFits /\ ShallowerIsDone /\ RecordedIsPrefix /\ [Next]_vars
         => ShallowerIsDone' /\ RecordedIsPrefix'
  BY ShallowerStep, PrefixStep
<1> QED
  BY <1>1, <1>2, LoopTypeCorrect, PTL DEF Spec
-----------------------------------------------------------------------------
(* Nothing is left out without a reason.                                   *)

\* What records the reason in the journal, at the case at hand.
LEMMA CaseExplains ==
    ASSUME TypeOK, M \in Models, at.depth \in Depths, Depths' = Depths,
           NEW state \in {"slow", "failed", "timed_out"}, RecordCase(state),
           NEW m \in Models, m = M
    PROVE  Through(m)'
BY OneCase DEF Through, Explained

LEMMA MarkExplains ==
    ASSUME TypeOK, NEW s \in MarkStates, Mark(s), NEW m \in Models, m = M
    PROVE  Through(m)'
<1>1. marks'[m][s] = "set"
  BY DEF Mark, TypeOK
<1> QED
  BY <1>1 DEF Through, Explained

\* A workload of one depth has nothing left to do once it is recorded.
LEMMA OneIsAll ==
    ASSUME TypeOK, M \in Models, at.depth \in Depths, Depths' = Depths, picked' = picked,
           kind \in {"emb", "soak"},
           NEW state \in Recorded, RecordCase(state), NEW m \in Models, m = M
    PROVE  Through(m)'
<1>1. \A d \in Depths : cases'[m][d] = state
  BY OneDepth, OneCase
<1>2. \A d \in Depths : ~Pending(m, d)'
  BY <1>1 DEF Pending, Recorded, Settled
<1> QED
  BY <1>2 DEF Through

LEMMA DoneIsThrough ==
    ASSUME Depths' = Depths, M' = M, \A d \in Depths : ~Pending(M, d)', NEW m \in Models, m = M
    PROVE  Through(m)'
BY DEF Through, Pending

\* What goes on to the next model.
LEMMA AfterLeads ==
    ASSUME TypeOK, PlaceFits, RunnerStep, kind # "conv", at' = After
    PROVE  \/ \E s \in MarkStates : Mark(s)
           \/ /\ NotPulled /\ silent' = silent \cup {M}
           \/ Close /\ at.stop = "-" /\ UNCHANGED marks
           \/ HandleBatch \/ WarmupFailsAcc \/ WarmupFailsImage \/ SoakEnds
<1>0. at.depth \in Nat /\ 0 \in Nat /\ at'.pc = "model" /\ at'.model = M + 1 /\ M \in Nat
  BY LoopAssumption DEF TypeOK, Positions, M, After, Begun
<1>1. ~(End \/ \E why : at' = Stop(why))
  BY <1>0 DEF End, Begun, Stop
<1>2. ~(\E d \in Nat : at' = Onward(d))
  BY <1>0, OnwardLeads
<1>3. ASSUME NEW p, Go(p) PROVE FALSE
  BY <1>0, <1>3 DEF Go, TypeOK, Positions, M
<1>4. ~RetryCall /\ ~Called
  <2>1. ASSUME RetryCall PROVE at'.pc = at.pc
    BY <2>1 DEF RetryCall, TypeOK, Positions
  <2> QED
    BY <1>0, <2>1, CalledLeads DEF RetryCall, InCalls, InBatch
<1>5. ~(Start \/ Take \/ Finish \/ MeetStray \/ NoBinary \/ Unreachable \/ Fail)
  BY <1>0, <1>1, <1>2, <1>3 DEF Start, Take, Finish, MeetStray, NoBinary, Unreachable, Fail
<1>6. ~(\/ LoadedSingle \/ WarmupFailsSingle \/ LoadedConv \/ WarmupFailsConv
        \/ LoadedConc \/ LoadFailsConc \/ WarmupCrashesConc \/ CallTimesOut \/ GiveUp
        \/ BatchUseless \/ BatchCrashes)
  BY <1>1, <1>3 DEF LoadedSingle, WarmupFailsSingle, LoadedConv, WarmupFailsConv, LoadedConc,
       LoadFailsConc, WarmupCrashesConc, CallTimesOut, GiveUp, BatchUseless, BatchCrashes
<1>7. ~(\/ LoadedAcc \/ AnswerCrashes \/ LoadedImage
        \/ DrawTimesOut \/ BenchFails \/ SweepStops \/ SoakBegins)
  BY <1>1, <1>3 DEF LoadedAcc, AnswerCrashes, LoadedImage, DrawTimesOut, BenchFails, SweepStops,
       SoakBegins
<1>8. ~(TurnSlow \/ TurnReaches \/ OutOfRoom \/ TurnTimesOut \/ TurnCrashes \/ TurnFails)
  BY DEF TurnSlow, TurnReaches, OutOfRoom, TurnTimesOut, TurnCrashes, TurnFails, InTurn, PlaceFits
<1>9. ~(RecordSingle \/ BatchDone \/ Answered \/ Drawn \/ BenchDone \/ RowStreams)
  BY <1>0, <1>1, <1>2 DEF RecordSingle, BatchDone, Answered, Drawn, BenchDone, RowStreams
<1>10. NotPulled => (\E s \in MarkStates : Mark(s)) \/ silent' = silent \cup {M}
  BY DEF NotPulled, MarkStates
<1>11. NoFiles \/ KnownCrash \/ Handle \/ WarmupFailsSoak => \E s \in MarkStates : Mark(s)
  BY <1>3 DEF NoFiles, KnownCrash, Handle, WarmupFailsSoak, MarkStates
<1>12. Close => (\E s \in MarkStates : Mark(s)) \/ (at.stop = "-" /\ UNCHANGED marks)
  <2>1. MarkFor(at.stop) \in MarkStates
    BY DEF MarkFor, MarkStates, TypeOK, Positions, Stops
  <2> QED
    BY <1>3, <2>1 DEF Close
<1> QED
  BY <1>4, <1>5, <1>6, <1>7, <1>8, <1>9, <1>10, <1>11, <1>12 DEF RunnerStep

LEMMA AfterThrough ==
    ASSUME TypeOK, PlaceFits, LeftIsThrough, RunnerStep, kind # "conv", at' = After,
           NEW m \in Models, m = M
    PROVE  Through(m)'
<1>0. Depths' = Depths /\ picked' = picked
  BY RestStep DEF order, Depths
<1>1. ASSUME NEW s \in MarkStates, Mark(s) PROVE Through(m)'
  BY <1>1, MarkExplains
<1>2. CASE silent' = silent \cup {M}
  BY <1>2 DEF Through
<1>3. CASE Close /\ at.stop = "-" /\ UNCHANGED marks
  <2>1. Through(m)
    BY <1>3 DEF LeftIsThrough, Close
  <2>2. cases' = cases /\ silent' = silent
    BY <1>3 DEF Close
  <2> QED
    BY <1>0, <1>3, <2>1, <2>2 DEF Through, Explained, Pending
<1>4. CASE HandleBatch
  BY <1>0, <1>4, CaseExplains DEF HandleBatch, PlaceFits
<1>5. CASE WarmupFailsAcc
  BY <1>5 DEF WarmupFailsAcc, Through
<1>6. CASE WarmupFailsImage
  <2>1. \A d \in Depths : cases'[m][d] = IF Pending(m, d) THEN "failed" ELSE cases[m][d]
    BY <1>6 DEF WarmupFailsImage, TypeOK
  <2>2. \A d \in Depths : ~Pending(m, d)'
    BY <1>0, <2>1 DEF Pending
  <2> QED
    BY <1>0, <2>2 DEF Through
<1>7. CASE SoakEnds
  <2>1. M \in Models /\ at.depth \in Depths /\ kind = "soak"
    BY <1>7 DEF SoakEnds, PlaceFits, AtCase
  <2>2. PICK state \in {"complete", "failed"} : RecordCase(state)
    BY <1>7 DEF SoakEnds
  <2> QED
    BY <1>0, <2>1, <2>2, OneIsAll DEF Recorded, Settled
<1> QED
  BY <1>1, <1>2, <1>3, <1>4, <1>5, <1>6, <1>7, AfterLeads

\* What ends the work on a model with no reason to mark: the depths are done, or
\* the last one says why.
LEMMA CloseLeads ==
    ASSUME TypeOK, PlaceFits, RunnerStep, kind # "conv", at'.pc = "close", at'.stop = "-"
    PROVE  \/ Take
           \/ /\ at.pc \in AtCase /\ at' = Onward(at.depth)
              /\ \E state \in Recorded : RecordCase(state)
           \/ at.pc \in AtCase /\ \E state \in {"slow", "failed", "timed_out"} : RecordCase(state)
           \/ /\ at.pc \in AtCase /\ kind = "emb"
              /\ \E state \in Recorded : RecordCase(state)
<1>1. ~(NextModel \/ End)
  BY DEF NextModel, After, End, Begun
<1>2. ASSUME NEW p, Go(p) PROVE p = "close"
  BY <1>2 DEF Go, TypeOK, Positions
<1>3. ASSUME NEW why, at' = Stop(why) PROVE why = "-"
  BY <1>3 DEF Stop, Begun
<1>4. ~RetryCall /\ ~Called
  <2>1. ASSUME RetryCall PROVE at'.pc = at.pc
    BY <2>1 DEF RetryCall, TypeOK, Positions
  <2> QED
    BY <2>1, CalledLeads DEF RetryCall, InCalls, InBatch
<1>5. ~(\/ Start \/ Finish \/ MeetStray \/ NoBinary \/ Unreachable \/ Fail \/ NotPulled
        \/ NoFiles \/ KnownCrash \/ Handle \/ HandleBatch)
  BY <1>1, <1>2 DEF Start, Finish, MeetStray, NoBinary, Unreachable, Fail, NotPulled, NoFiles,
       KnownCrash, Handle, HandleBatch
<1>6. ~Close
  BY <1>1, <1>2 DEF Close
<1>7. ~(\/ LoadedSingle \/ LoadedConv \/ WarmupFailsConv
        \/ LoadedConc \/ LoadFailsConc \/ WarmupCrashesConc
        \/ BatchUseless \/ BatchCrashes)
  BY <1>1, <1>2, <1>3 DEF LoadedSingle, LoadedConv, WarmupFailsConv, LoadedConc, LoadFailsConc,
       WarmupCrashesConc, BatchUseless, BatchCrashes
<1>8. ~(\/ LoadedAcc \/ WarmupFailsAcc \/ LoadedImage \/ WarmupFailsImage
        \/ SweepStops \/ WarmupFailsSoak \/ SoakBegins \/ SoakEnds)
  BY <1>1, <1>2, <1>3 DEF LoadedAcc, WarmupFailsAcc, LoadedImage, WarmupFailsImage, SweepStops,
       WarmupFailsSoak, SoakBegins, SoakEnds
<1>9. ~(TurnSlow \/ TurnReaches \/ OutOfRoom \/ TurnTimesOut \/ TurnCrashes \/ TurnFails)
  BY DEF TurnSlow, TurnReaches, OutOfRoom, TurnTimesOut, TurnCrashes, TurnFails, InTurn, PlaceFits
<1>10. CASE WarmupFailsSingle \/ AnswerCrashes \/ DrawTimesOut \/ BenchFails
  BY <1>10 DEF WarmupFailsSingle, AnswerCrashes, DrawTimesOut, BenchFails, AtCase
<1>11. CASE CallTimesOut \/ GiveUp
  BY <1>11 DEF CallTimesOut, GiveUp, Ends, InCalls, AtCase, Recorded, Settled
<1>12. CASE RecordSingle \/ BatchDone \/ Answered \/ Drawn \/ BenchDone \/ RowStreams
  BY <1>3, <1>12 DEF RecordSingle, BatchDone, Answered, Drawn, BenchDone, RowStreams, InBatch,
       AtCase, Recorded, Settled
<1> QED
  BY <1>4, <1>5, <1>6, <1>7, <1>8, <1>9, <1>10, <1>11, <1>12 DEF RunnerStep

LEMMA CloseThrough ==
    ASSUME TypeOK, PlaceFits, ShallowerIsDone, RunnerStep, kind # "conv",
           at'.pc = "close", at'.stop = "-", NEW m \in Models, m = M
    PROVE  Through(m)'
<1>0. Depths' = Depths /\ picked' = picked /\ M' = M
  BY RestStep, StepsLead DEF order, Depths
<1>1. at.pc \in AtCase => M \in Models /\ at.depth \in Depths
  BY DEF PlaceFits
<1>2. CASE Take
  BY <1>0, <1>2, TakeDone, DoneIsThrough
<1>3. ASSUME at.pc \in AtCase, at' = Onward(at.depth), NEW state \in Recorded, RecordCase(state)
      PROVE  Through(m)'
  <2>1. \A d \in Depths : ~Pending(M, d)'
    BY <1>3, OnwardDone
  <2> QED
    BY <1>0, <2>1, DoneIsThrough
<1>4. ASSUME at.pc \in AtCase, NEW state \in {"slow", "failed", "timed_out"}, RecordCase(state)
      PROVE  Through(m)'
  BY <1>0, <1>1, <1>4, CaseExplains
<1>5. ASSUME at.pc \in AtCase, kind = "emb", NEW state \in Recorded, RecordCase(state)
      PROVE  Through(m)'
  BY <1>0, <1>1, <1>5, OneIsAll
<1> QED
  BY <1>2, <1>3, <1>4, <1>5, CloseLeads
\* What ends the stage: the sweep over the models has been through, or it was
\* cut short and the models it did not reach are named.
LEMMA FinishIsReached ==
    ASSUME TypeOK, PlaceFits, LeftIsThrough, RunnerStep, kind # "conv", at'.pc = "finish",
           NEW m \in Models
    PROVE  Through(m)'
<1>0. at.depth \in Nat /\ 0 \in Nat /\ m \in Nat /\ M \in Nat /\ plan.models \in Nat
  BY LoopAssumption DEF TypeOK, Positions, M, Models
<1>1. ~(NextModel \/ End \/ (\E why : at' = Stop(why)))
  BY DEF NextModel, After, End, Begun, Stop
<1>2. ~(\E d \in Nat : at' = Onward(d))
  BY OnwardLeads
<1>3. ASSUME NEW p, Go(p) PROVE p = "finish"
  BY <1>3 DEF Go, TypeOK, Positions
<1>4. ~RetryCall /\ ~Called
  <2>1. ASSUME RetryCall PROVE at'.pc = at.pc
    BY <2>1 DEF RetryCall, TypeOK, Positions
  <2> QED
    BY <2>1, CalledLeads DEF RetryCall, InCalls, InBatch
<1>5. ~(\/ Start \/ Take \/ Finish \/ MeetStray \/ Fail \/ NotPulled \/ NoFiles \/ KnownCrash \/ Handle
        \/ HandleBatch \/ Close)
  BY <1>0, <1>1, <1>2, <1>3 DEF Start, Take, Finish, MeetStray, Fail, NotPulled, NoFiles,
       KnownCrash, Handle, HandleBatch, Close
<1>6. ~(\/ LoadedSingle \/ WarmupFailsSingle \/ LoadedConv \/ WarmupFailsConv
        \/ LoadedConc \/ LoadFailsConc \/ WarmupCrashesConc \/ CallTimesOut \/ GiveUp
        \/ BatchUseless \/ BatchCrashes)
  BY <1>1, <1>3 DEF LoadedSingle, WarmupFailsSingle, LoadedConv, WarmupFailsConv, LoadedConc,
       LoadFailsConc, WarmupCrashesConc, CallTimesOut, GiveUp, BatchUseless, BatchCrashes
<1>7. ~(\/ LoadedAcc \/ WarmupFailsAcc \/ AnswerCrashes \/ LoadedImage \/ WarmupFailsImage
        \/ DrawTimesOut \/ BenchFails \/ SweepStops \/ WarmupFailsSoak \/ SoakBegins \/ SoakEnds)
  BY <1>1, <1>3 DEF LoadedAcc, WarmupFailsAcc, AnswerCrashes, LoadedImage, WarmupFailsImage,
       DrawTimesOut, BenchFails, SweepStops, WarmupFailsSoak, SoakBegins, SoakEnds
<1>8. ~(TurnSlow \/ TurnReaches \/ OutOfRoom \/ TurnTimesOut \/ TurnCrashes \/ TurnFails)
  BY DEF TurnSlow, TurnReaches, OutOfRoom, TurnTimesOut, TurnCrashes, TurnFails, InTurn, PlaceFits
<1>9. ~(RecordSingle \/ BatchDone \/ Answered \/ Drawn \/ BenchDone \/ RowStreams)
  BY <1>0, <1>1, <1>2 DEF RecordSingle, BatchDone, Answered, Drawn, BenchDone, RowStreams
<1>10. CASE NoBinary
  BY <1>10 DEF NoBinary, Through
<1>11. CASE Unreachable
  <2>1. CASE m < M
    <3>1. Through(m)
      BY <1>11, <2>1 DEF Unreachable, AtModel, LeftIsThrough, Ended
    <3> QED
      BY <1>0, <1>11, <2>1, <3>1, OthersStayThrough
  <2>2. CASE m >= M
    <3>1. m \in M .. plan.models
      BY <1>0, <2>2 DEF Models
    <3> QED
      BY <1>11, <3>1 DEF Unreachable, Through
  <2> QED
    BY <1>0, <2>1, <2>2
<1> QED
  BY <1>4, <1>5, <1>6, <1>7, <1>8, <1>9, <1>10, <1>11 DEF RunnerStep

LEMMA ThroughStep ==
    ASSUME TypeOK, PlaceFits, ShallowerIsDone, LeftIsThrough, [Next]_vars
    PROVE  LeftIsThrough'
<1>1. ASSUME RunnerStep
      PROVE  LeftIsThrough'
  <2>1. Models' = Models /\ kind' = kind /\ Depths' = Depths /\ at.pc \notin Ended
    BY <1>1, RestStep, StepsLead DEF order, Models, kind, Depths
  <2> SUFFICES ASSUME kind # "conv" PROVE LeftIsThrough'
    BY <2>1 DEF LeftIsThrough
  <2>2. ASSUME at'.pc \notin Ended, NEW m \in Models, m < at'.model
        PROVE  Through(m)'
    <3>1. m \in Nat /\ M \in Nat
      BY LoopAssumption DEF TypeOK, Positions, M, Models
    <3>2. ASSUME m # M PROVE Through(m)'
      <4>1. at'.model = M \/ at'.model = M + 1
        <5>1. at'.pc = "model" /\ Start => at'.model = M
          BY DEF Start, Go, End, Begun, TypeOK, Positions, M
        <5>2. at' = After => at'.model = M + 1
          BY DEF After, Begun
        <5> QED
          BY <1>1, <2>2, <5>1, <5>2, StepsLead DEF Places, M
      <4>2. m < M
        BY <3>1, <3>2, <2>2, <4>1
      <4>3. Through(m)
        BY <2>1, <4>2 DEF LeftIsThrough
      <4> QED
        BY <1>1, <3>2, <4>3, OthersStayThrough
    <3>3. ASSUME m = M PROVE Through(m)'
      <4>1. at'.model # M
        BY <2>2, <3>1, <3>3
      <4>2. at' = After
        <5>1. at'.pc = "model" /\ Start => at'.model = M
          BY DEF Start, Go, End, Begun, TypeOK, Positions, M
        <5> QED
          BY <1>1, <2>2, <4>1, <5>1, StepsLead DEF Places, M
      <4> QED
        BY <1>1, <3>3, <4>2, AfterThrough
    <3> QED
      BY <3>2, <3>3
  <2>3. ASSUME at'.pc = "close", at'.stop = "-", NEW m \in Models, m = at'.model
        PROVE  Through(m)'
    <3>1. m = M
      BY <1>1, <2>3, StepsLead DEF M
    <3> QED
      BY <1>1, <2>3, <3>1, CloseThrough
  <2>4. at'.pc = "close" => at'.model \in Models
    <3>1. PlaceFits'
      BY <1>1, PlaceStep
    <3> QED
      BY <2>1, <3>1 DEF PlaceFits, M
  <2>5. ASSUME at'.pc = "finish", NEW m \in Models PROVE Through(m)'
    BY <1>1, <2>5, FinishIsReached
  <2> QED
    BY <2>1, <2>2, <2>3, <2>4, <2>5 DEF LeftIsThrough, M
<1>2. ASSUME Kill \/ UNCHANGED vars PROVE LeftIsThrough'
  <2>1. CASE Kill
    BY <2>1 DEF Kill, End, Begun, Ended, LeftIsThrough
  <2>2. CASE UNCHANGED vars
    BY <2>2 DEF vars, order, journal, LeftIsThrough, Through, Explained, Pending, Models, Depths,
         kind, M
  <2> QED
    BY <1>2, <2>1, <2>2
<1>3. ASSUME Session PROVE LeftIsThrough'
  <2>1. at'.pc = "start" /\ at'.model = 1
    BY <1>3 DEF Session, Begun
  <2>2. \A m \in Models' : ~(m < 1)
    BY DEF Models
  <2> QED
    BY <2>1, <2>2 DEF LeftIsThrough, M
<1> QED
  BY <1>1, <1>2, <1>3 DEF Next, Resume, RetryCases, NewRun, Over

LEMMA ExplainedStep ==
    ASSUME TypeOK, PlaceFits, StageFits, LeftIsThrough, MissingIsExplained, [Next]_vars
    PROVE  MissingIsExplained'
<1>1. ASSUME RunnerStep, Finish
      PROVE  MissingIsExplained'
  <2>1. /\ Models' = Models /\ kind' = kind /\ Depths' = Depths /\ cases' = cases
        /\ marks' = marks /\ silent' = silent
    BY <1>1, RestStep DEF order, Models, kind, Depths, Finish
  <2> SUFFICES ASSUME kind # "conv", stage' = "complete", NEW m \in Models \ silent,
                      NEW d \in Depths, cases[m][d] \notin Recorded
               PROVE  Explained(m)
    BY <2>1 DEF MissingIsExplained, Explained
  <2>2. Through(m)
    <3>1. CASE at.pc = "finish"
      BY <3>1 DEF LeftIsThrough
    <3>2. CASE at.pc = "model" /\ M \notin Models
      <4>1. m < M
        BY <3>2, LoopAssumption DEF TypeOK, Positions, M, Models
      <4> QED
        BY <3>2, <4>1 DEF LeftIsThrough, Ended
    <3> QED
      BY <1>1, <3>1, <3>2 DEF Finish
  <2>3. CASE ~Pending(m, d)
    <3>1. cases[m][d] = "running" /\ <<m, d>> \notin picked
      BY <2>3 DEF Pending, TypeOK
    <3>2. selected
      BY <3>1 DEF StageFits, CaseIds
    <3>3. Unresolved
      <4>1. <<m, d>> \in CaseIds /\ cases[<<m, d>>[1]][<<m, d>>[2]] \notin Settled \cup {"none"}
        BY <3>1 DEF CaseIds, Settled
      <4> QED
        BY <4>1 DEF Unresolved
    <3> QED
      BY <1>1, <3>2, <3>3 DEF Finish
  <2> QED
    BY <2>2, <2>3 DEF Through
<1>2. ASSUME RunnerStep \/ Kill, ~Finish
      PROVE  stage' = "running"
  <2>1. at.pc \notin Ended
    BY <1>2, StepsLead DEF Kill
  <2>2. stage' = stage
    BY <1>2, StageMoves DEF Kill, journal
  <2> QED
    BY <2>1, <2>2 DEF StageFits
<1>3. ASSUME Session PROVE stage' = "running"
  BY <1>3 DEF Session
<1>4. ASSUME stage' = "running" PROVE MissingIsExplained'
  BY <1>4 DEF MissingIsExplained
<1>5. ASSUME UNCHANGED vars PROVE MissingIsExplained'
  BY <1>5 DEF vars, order, journal, MissingIsExplained, Explained, Models, Depths, kind
<1>6. ASSUME Kill PROVE stage' = "running"
  BY <1>6 DEF Kill, journal, StageFits
<1> QED
  BY <1>1, <1>2, <1>3, <1>4, <1>5, <1>6 DEF Next, Resume, RetryCases, NewRun, Over

\* When a stage is complete, the journal says why a case of a model was not
\* measured, conversations and the models named in silent apart.
THEOREM MissingAreExplained == Spec => []MissingIsExplained
<1>1. Init => LeftIsThrough /\ MissingIsExplained
  <2>1. \A m \in Models : ~(m < 1)
    BY DEF Models
  <2> QED
    BY <2>1 DEF Init, Begun, LeftIsThrough, MissingIsExplained, M
<1>2. Init => ShallowerIsDone
  BY DEF Init, Begun, AtCase, ShallowerIsDone
<1>3. ASSUME TypeOK, PlaceFits, StageFits, ShallowerIsDone, LeftIsThrough, MissingIsExplained,
             [Next]_vars
      PROVE  ShallowerIsDone' /\ LeftIsThrough' /\ MissingIsExplained'
  BY <1>3, ShallowerStep, ThroughStep, ExplainedStep
<1> QED
  BY <1>1, <1>2, <1>3, LoopTypeCorrect, MarksAreInvariant, PTL DEF Spec

-----------------------------------------------------------------------------
(* A process goes forward.                                                 *)

\* What a place says of how far the process is.
LEMMA LegOf ==
    ASSUME TypeOK, NEW a, a.model \in 1 .. plan.models + 1
    PROVE  /\ a.pc = "start" => Leg(a) = 0
           /\ a.pc = "finish" => Leg(a) = plan.models + 2
           /\ a.pc \in Ended => Leg(a) = plan.models + 3
           /\ a.pc \in AtCase \cup {"model", "close", "raised"} => Leg(a) = a.model
           /\ a.pc \notin Ended => Leg(a) \in 0 .. plan.models + 2
<1>1. plan.models \in Nat
  BY LoopAssumption DEF TypeOK
<1> QED
  BY <1>1 DEF Leg, Ended, AtCase

LEMMA ToTheEnd ==
    ASSUME TypeOK, at' \in Positions, at.pc \notin Ended, at'.pc \in Ended
    PROVE  Further(at, at')
<1>1. plan.models \in Nat /\ at.model \in 1 .. plan.models + 1 /\ at'.model \in 1 .. plan.models + 1
  BY LoopAssumption DEF TypeOK, Positions
<1> QED
  BY <1>1, LegOf DEF Further

LEMMA ToTheFinish ==
    ASSUME TypeOK, at' \in Positions, at.pc \in {"start", "model"}, at'.pc = "finish"
    PROVE  Further(at, at')
<1>1. plan.models \in Nat /\ at.model \in 1 .. plan.models + 1 /\ at'.model \in 1 .. plan.models + 1
  BY LoopAssumption DEF TypeOK, Positions
<1>2. Leg(at) \in 0 .. plan.models + 1 /\ Leg(at') = plan.models + 2
  BY <1>1, LegOf DEF AtCase
<1> QED
  BY <1>1, <1>2 DEF Further

LEMMA ToTheNext ==
    ASSUME TypeOK, at' = After, at.pc \in AtCase \cup {"model", "close", "raised"}, M \in Models
    PROVE  Further(at, at')
<1>1. plan.models \in Nat /\ at.model \in 1 .. plan.models
  BY LoopAssumption DEF TypeOK, Models, M
<1>2. at'.pc = "model" /\ at'.model = at.model + 1
  BY DEF After, Begun, M
<1>3. Leg(at) = at.model /\ Leg(at') = at.model + 1
  BY <1>1, <1>2, LegOf
<1> QED
  BY <1>1, <1>3 DEF Further

LEMMA WithinModel ==
    ASSUME TypeOK, at'.model = at.model,
           at.pc \in AtCase \cup {"model", "close", "raised"},
           at'.pc \in AtCase \cup {"model", "close", "raised"}
    PROVE  Leg(at) = Leg(at')
<1>1. at.model \in 1 .. plan.models + 1
  BY DEF TypeOK, Positions
<1> QED
  BY <1>1, LegOf

\* From a part of a model's work to a later one.
LEMMA ToLaterPart ==
    ASSUME TypeOK, at'.model = at.model,
           at.pc \in AtCase \cup {"model", "close"},
           at'.pc \in AtCase \cup {"close", "raised"},
           at'.pc \in AtCase => at.pc = "model",
           at'.pc = "close" => at.pc # "close"
    PROVE  Further(at, at')
<1>1. Leg(at) = Leg(at')
  BY WithinModel
<1>2. Part(at) < Part(at')
  BY DEF Part, AtCase
<1> QED
  BY <1>1, <1>2 DEF Further

\* From a depth to a deeper one, or to a later place or call of the same.
LEMMA WithinCases ==
    ASSUME TypeOK, at'.model = at.model, at.pc \in AtCase, at'.pc \in AtCase,
           \/ at.depth < at'.depth
           \/ at'.depth = at.depth /\ Place(at) < Place(at')
           \/ at'.depth = at.depth /\ at'.pc = at.pc /\ at.run < at'.run
           \/ at'.depth = at.depth /\ at'.pc = at.pc /\ at.run = at'.run /\ at.retries < at'.retries
    PROVE  Further(at, at')
<1>1. Leg(at) = Leg(at')
  BY WithinModel
<1>2. Part(at) = Part(at') /\ DepthOf(at) = at.depth /\ DepthOf(at') = at'.depth
  BY DEF Part, DepthOf, AtCase
<1>3. at'.pc = at.pc => Place(at) = Place(at')
  BY DEF Place
<1>4. CASE at.depth < at'.depth
  BY <1>1, <1>2, <1>4 DEF Further
<1>5. CASE at'.depth = at.depth /\ Place(at) < Place(at')
  BY <1>1, <1>2, <1>5 DEF Further
<1>6. CASE at'.depth = at.depth /\ at'.pc = at.pc
  BY <1>1, <1>2, <1>3, <1>6 DEF Further
<1> QED
  BY <1>4, <1>5, <1>6

LEMMA OnwardGoesForward ==
    ASSUME TypeOK, PlaceFits, at' = Onward(at.depth), at.pc \in AtCase
    PROVE  Further(at, at')
<1>1. at.depth \in Nat
  BY DEF TypeOK, Positions
<1>2. CASE at' = Stop("-")
  <2>1. at'.pc = "close" /\ at'.model = at.model
    BY <1>2 DEF Stop, Begun, M
  <2> QED
    BY <2>1, ToLaterPart DEF AtCase
<1>3. ASSUME NEW e \in Depths, NEW p \in {"ask", "draw", "load"}, e > at.depth,
             at' = [at EXCEPT !.pc = p, !.run = 0, !.valid = FALSE, !.retries = 0, !.depth = e]
      PROVE  Further(at, at')
  <2>1. at'.pc = p /\ at'.model = at.model /\ at'.depth = e
    BY <1>3 DEF TypeOK, Positions
  <2> QED
    BY <1>1, <1>3, <2>1, WithinCases DEF AtCase, Depths
<1> QED
  BY <1>1, <1>2, <1>3, OnwardGoes

LEMMA GoesForward ==
    ASSUME TypeOK, PlaceFits, RunnerStep
    PROVE  Further(at, at')
<1>0. at.pc \in AtCase \cup {"close", "raised"} => M \in Models
  BY DEF PlaceFits
<1>1. at' \in Positions /\ at.pc \notin Ended
  BY PositionStep, StepsLead
<1>2. \A p : [at EXCEPT !.pc = p].pc = p /\ [at EXCEPT !.pc = p].model = at.model
             /\ [at EXCEPT !.pc = p].depth = at.depth
  BY DEF TypeOK, Positions
<1>3. \A why : Stop(why).pc = "close" /\ Stop(why).model = at.model
  BY DEF Stop, Begun, M
<1>4. CASE at'.pc \in Ended
  BY <1>1, <1>4, ToTheEnd
<1>5. CASE Start
  <2>1. at.pc = "start" /\ at.model \in 1 .. plan.models + 1
    BY <1>5 DEF Start, TypeOK, Positions
  <2>2. CASE Go("model")
    <3>1. at'.pc = "model" /\ at'.model = at.model
      BY <1>2, <2>2 DEF Go
    <3>2. Leg(at) = 0 /\ Leg(at') = at.model /\ at.model > 0
      BY <2>1, <3>1, LegOf
    <3> QED
      BY <2>1, <3>2 DEF Further
  <2> QED
    BY <1>4, <1>5, <2>2 DEF Start, End, Begun, Ended
<1>6. CASE NoBinary \/ Unreachable
  BY <1>1, <1>2, <1>6, ToTheFinish DEF NoBinary, Unreachable, AtModel, Go
<1>7. CASE MeetStray \/ Finish
  BY <1>2, <1>4, <1>7 DEF MeetStray, Finish, Go, End, Begun, Ended
<1>raised. ASSUME at' = [at EXCEPT !.pc = "raised"], at.pc \in AtCase \cup {"model", "close"}
           PROVE  Further(at, at')
  <2>1. at'.pc = "raised" /\ at'.model = at.model
    BY <1>2, <1>raised
  <2> QED
    BY <1>raised, <2>1, ToLaterPart DEF AtCase
<1>8. CASE NotPulled \/ KnownCrash \/ NoFiles
  <2>1. /\ at.pc = "model" /\ M \in Models
        /\ at' = After \/ at' = [at EXCEPT !.pc = "raised"]
    BY <1>8 DEF NotPulled, KnownCrash, NoFiles, AtModel, NextModel, Go
  <2> QED
    BY <1>raised, <2>1, ToTheNext
<1>9. CASE HandleBatch \/ Handle
  <2>1. at.pc = "raised" /\ (at' = After \/ at' = [at EXCEPT !.pc = "died"])
    BY <1>9 DEF HandleBatch, Handle, NextModel, Go
  <2> QED
    BY <1>0, <1>2, <1>4, <2>1, ToTheNext DEF Ended
<1>10. CASE Close \/ Fail
  <2>1. /\ at.pc \in {"close", "load"}
        /\ \/ at' = After \/ at' = [at EXCEPT !.pc = "raised"]
           \/ at' = [at EXCEPT !.pc = "died"]
    BY <1>10 DEF Close, Fail, NextModel, Go
  <2> QED
    BY <1>0, <1>2, <1>4, <1>raised, <2>1, ToTheNext DEF Ended, AtCase
<1>11. CASE WarmupFailsConv \/ WarmupFailsAcc \/ WarmupFailsImage \/ WarmupFailsSoak \/ SoakEnds
  <2>1. /\ at.pc \in {"load", "soak"}
        /\ at' = After \/ at' = [at EXCEPT !.pc = "raised"]
    BY <1>11 DEF WarmupFailsConv, WarmupFailsAcc, WarmupFailsImage, WarmupFailsSoak, SoakEnds,
       NextModel, Go
  <2> QED
    BY <1>0, <1>raised, <2>1, ToTheNext DEF AtCase
<1>12. CASE \/ LoadedSingle \/ LoadedConv \/ LoadedConc \/ LoadedAcc \/ LoadedImage \/ SoakBegins
  <2>0. at.pc = "load" /\ \E p \in {"prime", "measure", "turn", "ask", "draw", "soak"} :
                                at' = [at EXCEPT !.pc = p]
    BY <1>12 DEF LoadedSingle, LoadedConv, LoadedConc, LoadedAcc, LoadedImage, SoakBegins, Go
  <2>1. /\ at.pc = "load" /\ at'.model = at.model /\ at'.depth = at.depth
        /\ at'.pc \in {"prime", "measure", "turn", "ask", "draw", "soak"}
    BY <1>2, <2>0
  <2>2. Place(at) < Place(at')
    BY <2>1 DEF Place
  <2> QED
    BY <2>1, <2>2, WithinCases DEF AtCase
<1>13. CASE \/ WarmupFailsSingle \/ LoadFailsConc \/ WarmupCrashesConc \/ CallTimesOut \/ GiveUp
            \/ BatchUseless \/ BatchCrashes \/ AnswerCrashes \/ DrawTimesOut \/ BenchFails \/ SweepStops
            \/ TurnSlow \/ TurnTimesOut \/ TurnCrashes \/ TurnFails \/ OutOfRoom
  <2>1. at.pc \in AtCase /\ \E why : at' = Stop(why)
    BY <1>13 DEF WarmupFailsSingle, LoadFailsConc, WarmupCrashesConc, CallTimesOut, GiveUp,
       BatchUseless, BatchCrashes, AnswerCrashes, DrawTimesOut, BenchFails, SweepStops, TurnSlow,
       TurnTimesOut, TurnCrashes, TurnFails, OutOfRoom, AtCase, InCalls, InBatch, InTurn
  <2> QED
    BY <1>3, <2>1, ToLaterPart DEF AtCase
<1>14. CASE RecordSingle \/ BatchDone \/ Answered \/ Drawn \/ BenchDone \/ RowStreams
  <2>1. at.pc \in AtCase /\ (at' = Onward(at.depth) \/ \E why : at' = Stop(why))
    BY <1>14 DEF RecordSingle, BatchDone, Answered, Drawn, BenchDone, RowStreams, InBatch, AtCase
  <2>2. CASE \E why : at' = Stop(why)
    BY <1>3, <2>1, <2>2, ToLaterPart DEF AtCase
  <2> QED
    BY <2>1, <2>2, OnwardGoesForward
<1>15. CASE Take
  <2>1. \/ at' = Onward(0) \/ at' = After
        \/ at' = [at EXCEPT !.pc = "load", !.depth = 1]
    BY <1>15 DEF Take
  <2>2. at.pc = "model" /\ M \in Models
    BY <1>15 DEF Take, AtModel
  <2>3. CASE at' = Onward(0)
    <3>1. at'.pc \in {"close", "ask", "draw", "load"} /\ at'.model = at.model
      BY <2>3, OnwardLeads DEF M
    <3> QED
      BY <2>2, <3>1, ToLaterPart DEF AtCase
  <2>4. CASE at' = [at EXCEPT !.pc = "load", !.depth = 1]
    <3>1. at'.pc = "load" /\ at'.model = at.model
      BY <2>4 DEF TypeOK, Positions
    <3> QED
      BY <2>2, <3>1, ToLaterPart DEF AtCase
  <2> QED
    BY <2>1, <2>2, <2>3, <2>4, ToTheNext
<1>16. CASE TurnReaches
  <2>1. at.pc = "turn" /\ at.depth \in Nat
    BY <1>16 DEF TurnReaches, InTurn, TypeOK, Positions
  <2>2. CASE at' = Stop("-")
    BY <1>3, <2>1, <2>2, ToLaterPart DEF AtCase
  <2>3. CASE at' = [at EXCEPT !.depth = @ + 1]
    <3>1. at'.pc = "turn" /\ at'.model = at.model /\ at'.depth = at.depth + 1
      BY <2>1, <2>3 DEF TypeOK, Positions
    <3> QED
      BY <2>1, <3>1, WithinCases DEF AtCase
  <2> QED
    BY <1>16, <2>2, <2>3 DEF TurnReaches
<1>17. CASE RetryCall
  <2>1. at.pc \in AtCase /\ at.retries \in Nat
    BY <1>17 DEF RetryCall, InCalls, InBatch, AtCase, TypeOK, Positions
  <2>2. /\ at'.pc = at.pc /\ at'.model = at.model /\ at'.depth = at.depth /\ at'.run = at.run
        /\ at'.retries = at.retries + 1
    BY <1>17 DEF RetryCall, TypeOK, Positions
  <2> QED
    BY <2>1, <2>2, WithinCases
<1>18. CASE Called
  <2>1. at.pc \in {"prime", "measure"} /\ at.run \in Nat
    BY <1>18 DEF Called, InCalls, TypeOK, Positions
  <2>2. \/ at.pc = "measure" /\ at'.pc = "measure" /\ at'.run = at.run + 1
        \/ at.pc = "measure" /\ at'.pc = "record"
        \/ at.pc = "prime" /\ at'.pc \in {"raised", "measure"}
    BY <1>18, <2>1 DEF Called, TypeOK, Positions
  <2>3. at'.depth = at.depth /\ at'.model = at.model
    BY <1>18, CalledLeads DEF M
  <2>4. at.pc # at'.pc /\ at'.pc # "raised" => Place(at) < Place(at')
    BY <2>1, <2>2 DEF Place
  <2>5. CASE at'.pc = "raised"
    BY <2>1, <2>3, <2>5, ToLaterPart DEF AtCase
  <2>6. CASE at'.pc # "raised"
    BY <2>1, <2>2, <2>3, <2>4, <2>6, WithinCases DEF AtCase
  <2> QED
    BY <2>5, <2>6
<1> QED
  BY <1>5, <1>6, <1>7, <1>8, <1>9, <1>10, <1>11, <1>12, <1>13, <1>14, <1>15, <1>16, <1>17, <1>18
     DEF RunnerStep

\* The counts.
LEMMA CountsStay ==
    ASSUME TypeOK, PlaceFits, CallsAreCounted, RunnerStep
    PROVE  CallsAreCounted'
<1>0. /\ kind' = kind /\ plan' = plan
      /\ at.run \in Nat /\ at.retries \in Nat /\ plan.depths \in Nat
      /\ Runs \in Nat \ {0} /\ CrashRetryMax \in Nat
  BY RestStep, LoopAssumption DEF order, kind, TypeOK, Positions
<1>1. DepthOf(at)' <= plan.depths'
  <2>1. PlaceFits'
    BY PlaceStep
  <2> QED
    BY <1>0, <2>1 DEF PlaceFits, DepthOf, Depths
<1> DEFINE Counts == /\ at'.run <= Runs /\ at'.retries <= CrashRetryMax
                     /\ at'.pc \in {"start", "model", "load", "prime"} => at'.run = 0
                     /\ at'.pc = "measure" /\ Repeated => at'.run < Runs
<1> HIDE DEF Counts
<1>2. Counts => CallsAreCounted'
  BY <1>0, <1>1 DEF Counts, CallsAreCounted, Repeated, Single
<1> SUFFICES Counts
  BY <1>2
<1>3. ASSUME at'.run = 0, at'.retries = 0
      PROVE  Counts
  BY <1>0, <1>3 DEF Counts
<1>4. ASSUME at'.run = at.run, at'.retries = at.retries,
             at'.pc \in {"start", "model", "load", "prime"} => at.run = 0,
             at'.pc = "measure" /\ Repeated => at.pc = "load"
      PROVE  Counts
  BY <1>0, <1>4 DEF Counts, CallsAreCounted
<1>5. /\ After.run = 0 /\ After.retries = 0
      /\ [Begun EXCEPT !.pc = "gone"].run = 0 /\ [Begun EXCEPT !.pc = "gone"].retries = 0
      /\ \A why : Stop(why).run = 0 /\ Stop(why).retries = 0
  BY DEF After, Stop, Begun
<1>6. ASSUME NEW d \in Nat, at' = Onward(d)
      PROVE  Counts
  <2>1. at'.run = 0 /\ at'.retries = 0
    <3>1. CASE at' = Stop("-")
      BY <1>5, <3>1
    <3>2. ASSUME NEW e, NEW p,
                 at' = [at EXCEPT !.pc = p, !.run = 0, !.valid = FALSE, !.retries = 0, !.depth = e]
          PROVE  at'.run = 0 /\ at'.retries = 0
      BY <3>2 DEF TypeOK, Positions
    <3> QED
      BY <1>6, <3>1, <3>2, OnwardGoes
  <2> QED
    BY <2>1, <1>3
<1>7. ASSUME NEW p, at' = [at EXCEPT !.pc = p],
             p \in {"model", "prime"} => at.pc \in {"start", "load"},
             p = "measure" => at.pc = "load",
             p \notin {"start", "load"}
      PROVE  Counts
  <2>1. at'.pc = p /\ at'.run = at.run /\ at'.retries = at.retries
    BY <1>7 DEF TypeOK, Positions
  <2> QED
    BY <1>4, <1>7, <2>1 DEF CallsAreCounted
<1>8. ASSUME \/ at' = After \/ at' = [Begun EXCEPT !.pc = "gone"] \/ \E why : at' = Stop(why)
      PROVE  Counts
  BY <1>3, <1>5, <1>8
<1>9. CASE \/ Start \/ NoBinary \/ Unreachable \/ MeetStray \/ Finish \/ NotPulled \/ KnownCrash
           \/ NoFiles \/ HandleBatch \/ Handle \/ Fail \/ Close
  <2>1. \/ at' = After \/ at' = [Begun EXCEPT !.pc = "gone"]
        \/ at.pc = "start" /\ at' = [at EXCEPT !.pc = "model"]
        \/ \E p \in {"finish", "died", "raised"} : at' = [at EXCEPT !.pc = p]
    BY <1>9 DEF Start, NoBinary, Unreachable, MeetStray, Finish, NotPulled, KnownCrash,
       NoFiles, HandleBatch, Handle, Fail, Close, NextModel, Go, End
  <2> QED
    BY <1>7, <1>8, <2>1
<1>10. CASE \/ WarmupFailsConv \/ WarmupFailsAcc \/ WarmupFailsImage \/ WarmupFailsSoak \/ SoakEnds
            \/ LoadedSingle \/ LoadedConv \/ LoadedConc \/ LoadedAcc \/ LoadedImage \/ SoakBegins
  <2>1. \/ at' = After
        \/ at.pc = "load" /\ \E p \in {"raised", "prime", "measure", "turn", "ask", "draw", "soak"} :
                                 at' = [at EXCEPT !.pc = p]
    BY <1>10 DEF WarmupFailsConv, WarmupFailsAcc, WarmupFailsImage, WarmupFailsSoak, SoakEnds,
       LoadedSingle, LoadedConv, LoadedConc, LoadedAcc, LoadedImage, SoakBegins, NextModel, Go
  <2> QED
    BY <1>7, <1>8, <2>1
<1>11. CASE \/ WarmupFailsSingle \/ LoadFailsConc \/ WarmupCrashesConc \/ CallTimesOut \/ GiveUp
            \/ BatchUseless \/ BatchCrashes \/ AnswerCrashes \/ DrawTimesOut \/ BenchFails \/ SweepStops
            \/ TurnSlow \/ TurnTimesOut \/ TurnCrashes \/ TurnFails \/ OutOfRoom
  <2>1. \E why : at' = Stop(why)
    BY <1>11 DEF WarmupFailsSingle, LoadFailsConc, WarmupCrashesConc, CallTimesOut, GiveUp,
       BatchUseless, BatchCrashes, AnswerCrashes, DrawTimesOut, BenchFails, SweepStops, TurnSlow,
       TurnTimesOut, TurnCrashes, TurnFails, OutOfRoom
  <2> QED
    BY <1>8, <2>1
<1>12. CASE RecordSingle \/ BatchDone \/ Answered \/ Drawn \/ BenchDone \/ RowStreams
  <2>1. at' = Onward(at.depth) \/ \E why : at' = Stop(why)
    BY <1>12 DEF RecordSingle, BatchDone, Answered, Drawn, BenchDone, RowStreams
  <2>2. at.depth \in Nat
    BY DEF TypeOK, Positions
  <2> QED
    BY <1>6, <1>8, <2>1, <2>2
<1>13. CASE Take
  <2>1. \/ at' = Onward(0) \/ at' = After
        \/ at' = [at EXCEPT !.pc = "load", !.depth = 1]
    BY <1>13 DEF Take
  <2>2. at.run = 0 /\ 0 \in Nat
    BY <1>13 DEF Take, AtModel, CallsAreCounted
  <2>3. CASE at' = [at EXCEPT !.pc = "load", !.depth = 1]
    <3>1. at'.pc = "load" /\ at'.run = at.run /\ at'.retries = at.retries
      BY <2>3 DEF TypeOK, Positions
    <3> QED
      BY <1>4, <2>2, <3>1
  <2> QED
    BY <1>6, <1>8, <2>1, <2>2, <2>3
<1>14. CASE TurnReaches
  <2>1. CASE at' = [at EXCEPT !.depth = @ + 1]
    <3>1. at'.pc = "turn" /\ at'.run = at.run /\ at'.retries = at.retries
      BY <1>14, <2>1 DEF TurnReaches, InTurn, TypeOK, Positions
    <3> QED
      BY <1>4, <3>1
  <2> QED
    BY <1>8, <1>14, <2>1 DEF TurnReaches
<1>15. CASE RetryCall
  <2>1. at'.pc = at.pc /\ at'.run = at.run /\ at'.retries = at.retries + 1 /\ at.retries < CrashRetryMax
    BY <1>15 DEF RetryCall, TypeOK, Positions
  <2> QED
    BY <1>0, <2>1 DEF Counts, CallsAreCounted
<1>16. CASE Called
  <2>1. at.pc \in {"prime", "measure"} /\ Repeated /\ at.run < Runs
    BY <1>0, <1>16 DEF Called, InCalls, CallsAreCounted
  <2>2. \/ /\ at.pc = "measure" /\ at'.run = at.run + 1 /\ at'.retries = at.retries
           /\ at'.pc = IF at.run + 1 = Runs THEN "record" ELSE "measure"
        \/ at.pc = "prime" /\ at' = [at EXCEPT !.pc = "raised"]
        \/ /\ at.pc = "prime" /\ at'.pc = "measure" /\ at'.run = at.run /\ at'.retries = 0
    <3>1. PICK outcome \in {"valid", "invalid", "error"} :
           at' = CASE at.pc = "measure" ->
                        [at EXCEPT !.run = @ + 1, !.valid = @ \/ outcome = "valid",
                                   !.pc = IF at.run + 1 = Runs THEN "record" ELSE @]
                   [] at.pc = "prime" /\ outcome = "error" -> [at EXCEPT !.pc = "raised"]
                   [] OTHER -> [at EXCEPT !.pc = "measure", !.retries = 0]
      BY <1>16 DEF Called
    <3>2. CASE at.pc = "measure"
      BY <3>1, <3>2 DEF TypeOK, Positions
    <3>3. CASE at.pc = "prime"
      BY <3>1, <3>3 DEF TypeOK, Positions
    <3> QED
      BY <2>1, <3>2, <3>3
  <2>3. CASE at' = [at EXCEPT !.pc = "raised"]
    BY <1>7, <2>3
  <2> QED
    BY <1>0, <2>1, <2>2, <2>3 DEF Counts, CallsAreCounted
<1> QED
  BY <1>9, <1>10, <1>11, <1>12, <1>13, <1>14, <1>15, <1>16 DEF RunnerStep

\* A process never goes back, whatever fails, crashes and is repeated: why it ends.
THEOREM ProcessesGoForward == Spec => ProcessGoesForward /\ []CallsAreCounted
<1>1. Init => CallsAreCounted
  BY LoopAssumption DEF Init, Begun, CallsAreCounted, DepthOf, AtCase
<1>2. TypeOK /\ PlaceFits /\ CallsAreCounted /\ [Next]_vars => CallsAreCounted'
  <2>1. SUFFICES ASSUME TypeOK, PlaceFits, CallsAreCounted, [Next]_vars, ~RunnerStep
                 PROVE  CallsAreCounted'
    BY CountsStay
  <2>2. CASE UNCHANGED vars
    BY <2>1, <2>2 DEF vars, order, CallsAreCounted, DepthOf, AtCase, Repeated, Single, kind
  <2>3. CASE ~UNCHANGED vars
    <3>1. plan' = plan /\ (at' = Begun \/ at' = [Begun EXCEPT !.pc = "gone"])
      BY <2>1, <2>3 DEF Next, Kill, End, Resume, RetryCases, NewRun, Session, Over, order
    <3>2. at'.run = 0 /\ at'.retries = 0 /\ at'.pc \in {"start", "gone"}
      BY <3>1 DEF Begun
    <3> QED
      BY <2>1, <3>1, <3>2, LoopAssumption DEF CallsAreCounted, DepthOf, AtCase, TypeOK
  <2> QED
    BY <2>2, <2>3
<1>3. TypeOK /\ PlaceFits /\ [Next]_vars => [session' = session => Further(at, at')]_vars
  <2>1. SUFFICES ASSUME TypeOK, PlaceFits, Next, ~UNCHANGED vars, session' = session
                 PROVE  Further(at, at')
    OBVIOUS
  <2>2. CASE RunnerStep
    BY <2>1, <2>2, GoesForward
  <2>3. CASE Kill
    <3>1. at' \in Positions /\ at'.pc \in Ended /\ at.pc \notin Ended
      BY <2>1, <2>3, PositionsFit DEF Kill, End, Begun, Ended
    <3> QED
      BY <2>1, <3>1, ToTheEnd
  <2>4. CASE Resume \/ RetryCases \/ NewRun
    <3>1. session' = session + 1 /\ session \in Nat
      BY <2>1, <2>4, LoopAssumption DEF Resume, RetryCases, NewRun, Session, TypeOK
    <3> QED
      BY <2>1, <3>1
  <2> QED
    BY <2>1, <2>2, <2>3, <2>4 DEF Next, Over
<1> QED
  BY <1>1, <1>2, <1>3, LoopTypeCorrect, PTL DEF Spec, ProcessGoesForward

=============================================================================
