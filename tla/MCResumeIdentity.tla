--------------------------- MODULE MCResumeIdentity ---------------------------
(* One model in two stages, a job and its fork, two processes. *)
EXTENDS ResumeIdentity, TLC

CONSTANTS weights, runtime, old, new, none, first, fork, p, q

MCModels == {weights}
MCBytes == {old, new}
MCJobs == {first, fork}
MCProcs == {p, q}
Interchangeable == Permutations(MCBytes) \cup Permutations(MCJobs) \cup Permutations(MCProcs)
===============================================================================
