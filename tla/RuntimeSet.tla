------------------------------ MODULE RuntimeSet ------------------------------
(***************************************************************************)
(* What an update of the app-managed runtimes promises (docs/setup.md): it *)
(* replaces every runtime of the llama.cpp family by one version, or none  *)
(* of them.  A rollback that fails and a kill in the middle of a           *)
(* replacement harm runtimes, until an update replaces those too.          *)
(***************************************************************************)
EXTENDS Naturals

CONSTANTS Targets,    \* the directories of the managed runtimes
          Family,     \* those of llama.cpp, some of Targets
          Contents    \* what a directory may hold; a number is a version that works,
                      \* and every number is in Contents

VARIABLES installed,  \* what a directory holds, or held before the update under way
          harmed      \* the directories that something other than an update changed

Init == /\ installed \in [Targets -> Contents]
        /\ \A t, u \in Family : {installed[t], installed[u]} \subseteq Nat =>
                                    installed[t] = installed[u]
        /\ harmed = {}

Keeps(ts) == /\ installed' \in [Targets -> Contents]
             /\ \A t \in Targets \ ts : installed'[t] = installed[t]

Replace(ts) ==
    /\ Keeps(ts)
    /\ \A t, u \in ts : installed'[t] \in Nat /\ installed'[t] = installed'[u]
    /\ ts \cap Family # {} => \A t \in Family \ ts : installed[t] \notin Nat
    /\ harmed' = harmed \ ts

Harm(ts) == Keeps(ts) /\ harmed' = harmed \cup ts

Next == \E ts \in SUBSET Targets : Replace(ts) \/ Harm(ts)

Spec == Init /\ [][Next]_<<installed, harmed>>

\* The llama.cpp builds are kept aligned.
Aligned == \A t, u \in Family \ harmed :
               {installed[t], installed[u]} \subseteq Nat => installed[t] = installed[u]
===============================================================================
