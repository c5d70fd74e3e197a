--------------------------- MODULE MCWorkloadLoop ---------------------------
(* Two models with two depths each, a conversation of three checkpoints    *)
(* with one model, or two models with one batch or one soak each.          *)
EXTENDS WorkloadLoop
MCPlans ==
    [kind : {"cached", "conc", "acc", "image", "vllm", "native", "batched"}, models : {2}, depths : {2}]
    \cup [kind : {"emb", "soak"}, models : {2}, depths : {1}]
    \cup {[kind |-> "conv", models |-> 1, depths |-> 3]}
MCQuestions == [kind : {"acc"}, models : {1}, depths : {2}]
MCLevels == [kind : {"conc"}, models : {1}, depths : {2}]
=============================================================================
