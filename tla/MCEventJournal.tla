--------------------------- MODULE MCEventJournal ---------------------------
(* Small instances of EventJournal. *)
EXTENDS EventJournal, TLC

CONSTANTS s1, s2, a, d, m

\* Two stages with one measured case each, the first with a state case as well;
\* the second may be a soak test.
TwoStages == {s1, s2}
TwoStageCases == {a, d, m}
TwoStageOf == (a :> s1) @@ (m :> s1) @@ (d :> s2)
FailedState == m :> "failed"

\* The soak test alone.
SoakStage == {s2}
SoakCases == {d}
SoakOf == d :> s2
NoStates == [c \in {} |-> "complete"]
=============================================================================
