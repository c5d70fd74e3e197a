--------------------------- MODULE MCBenchmarkRun ---------------------------
(* Small instances of BenchmarkRun: two stages with one measured case each. *)
EXTENDS BenchmarkRun, TLC

CONSTANTS s1, s2, a, d

TwoStages == {s1, s2}
InOrder == <<s1, s2>>
TwoCases == {a, d}
TwoStageOf == (a :> s1) @@ (d :> s2)
NoStates == [c \in {} |-> "complete"]
AllFaults == {"preflight", "parent", "late", "engine", "interrupt", "signal", "crash"}
-----------------------------------------------------------------------------
(* The plan of passes a run is one of: a registry with an engine of each   *)
(* family, of which the second has no downloaded model.                    *)

Plan == INSTANCE PassPlan WITH
    Engines <- {"llamacpp", "vllm"},
    First <- [es \in SUBSET {"llamacpp", "vllm"} \ {{}} |->
                 IF "llamacpp" \in es THEN "llamacpp" ELSE "vllm"],
    Family <- [e \in {"llamacpp", "vllm"} |-> e],
    LLMTests <- {"llm", "llamabench", "vllmbench"}, ConcurrencyTests <- {"conc_chat"},
    NativeTests <- ("llamacpp" :> {"llamabench"}) @@ ("vllm" :> {"vllmbench"}),
    ServerTests <- {"llm", "conc_chat"},
    EngineBackedTests <- {"llm", "llamabench", "conc_chat", "emb"},
    Emb <- "emb", Img <- "img",
    Catalog <- {"m1", "m2"}, Custom <- {"c1"}, EmbedModels <- {"e1"}, ImageModels <- {"i1"},
    Installed <- ("llamacpp" :> {"m1", "c1", "e1"}) @@ ("vllm" :> {}),
    NativeMtp <- ("llamacpp" :> {"m1"}) @@ ("vllm" :> {"m1", "m2"})

Request(tests, mtp) ==
    [engines |-> {"llamacpp", "vllm"}, tests |-> tests, mtp |-> mtp,
     tier |-> {"m1", "m2"}, tierImages |-> {"i1"}, picky |-> FALSE, picks |-> {},
     embPicky |-> FALSE, embPicks |-> {}, imgPicky |-> FALSE, imgPicks |-> {}]

PassOf(e, mtp) == [engine |-> e, mtp |-> mtp]

\* What PassPlanProofs assumes of a registry is true of one like the code's.
ASSUME RegistryIsPlannable == Plan!PlanAssumption

\* Every mode has an accepted selection, so the theorems on passes are about some.
ASSUME ModesAreAccepted ==
    /\ \A mtp \in {"off", "on", "both"} : Plan!Accepted(Request({"llm", "conc_chat"}, mtp))
    /\ Plan!Passes(Request({"llm", "conc_chat"}, "both")) =
          [engine : {"llamacpp", "vllm"}, mtp : BOOLEAN]

\* With concurrency tests alone an engine is dropped, though "on" is for every
\* engine: OnDropsNoEngine needs its condition.
ASSUME ConcurrencyAloneDropsAnEngine ==
    LET r == Request({"conc_chat"}, "on")
    IN  Plan!Accepted(r) /\ Plan!Passes(r) = {PassOf("llamacpp", TRUE)}

\* Where no model is whole nothing is probed or refused, and the pass runs on
\* without models: EmptyPassIsRefused needs its condition.
ASSUME NothingWholeIsNotRefused ==
    LET r == Request({"llm"}, "off")
        p == PassOf("llamacpp", FALSE)
    IN  p \in Plan!Passes(r) /\ ~Plan!Refused(r, p, {}, {})
        /\ Plan!Given(r, p, "llm", {}, {}) = {}
=============================================================================
