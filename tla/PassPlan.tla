------------------------------ MODULE PassPlan ------------------------------
(***************************************************************************)
(* What a command line is turned into before anything runs: a scope of     *)
(* models for each engine, a baseline and a multi-token-prediction (MTP)   *)
(* pass for each scope, and, after the preflight, the models each test of  *)
(* a pass is given.  BenchmarkRun is the execution of one pass.            *)
(*                                                                         *)
(* Lists are sets: the order of tests and models decides nothing here, and *)
(* of the engines only which one is first.  A model stands for all the     *)
(* variants of its family; a pattern, for the models it matches.           *)
(***************************************************************************)
CONSTANTS
    Engines,           \* registered engine names
    First,             \* a set of engines -> its first in registry order
    Family,            \* engine -> its family, the native_engine of a test
    LLMTests,          \* LLM_TESTS: text generation, native tools, accuracy
    ConcurrencyTests,  \* CONCURRENCY_TESTS
    NativeTests,       \* family -> the LLM tests that only its tools can run
    ServerTests,       \* MTP_SERVER_TESTS
    EngineBackedTests, \* all but the tests of vllm bench and the images
    Emb, Img,          \* the embedding and the image test
    Catalog,           \* LLM_MODELS
    Custom,            \* models that were imported, not of the catalog
    EmbedModels,       \* EMBED_MODELS
    ImageModels,       \* IMAGE_MODELS
    Installed,         \* engine -> what its list_installed_models reports
    NativeMtp          \* family -> the models native_mtp_config accepts for it

Tests    == LLMTests \cup ConcurrencyTests \cup {Emb, Img}
Models   == Catalog \cup Custom
Families == {Family[e] : e \in Engines}

\* --engine, --tests after expand_tests, --mtp, the models of --maxtier; and of
\* --llm-models, --embedding-models and --image-models, whether they are given
\* and what they match.
Requests ==
    [engines : SUBSET Engines \ {{}}, tests : SUBSET Tests, mtp : {"off", "on", "both"},
     tier : SUBSET Catalog, tierImages : SUBSET ImageModels,
     picky : BOOLEAN, picks : SUBSET Models,
     embPicky : BOOLEAN, embPicks : SUBSET EmbedModels,
     imgPicky : BOOLEAN, imgPicks : SUBSET ImageModels]

\* What the registries promise.
PlanAssumption ==
    /\ First \in [SUBSET Engines \ {{}} -> Engines]
    /\ \A es \in SUBSET Engines \ {{}} : First[es] \in es
    /\ Family \in [Engines -> Families]
    /\ LLMTests \cap ConcurrencyTests = {} /\ Emb # Img
    /\ {Emb, Img} \cap (LLMTests \cup ConcurrencyTests) = {}
    /\ NativeTests \in [Families -> SUBSET (LLMTests \ ServerTests)]
    /\ ConcurrencyTests \subseteq ServerTests
    /\ ServerTests \subseteq LLMTests \cup ConcurrencyTests
    /\ ServerTests \cup {Emb} \subseteq EngineBackedTests
    /\ Catalog \cap Custom = {}
    /\ EmbedModels \cap Models = {} /\ ImageModels \cap Models = {}
    /\ Installed \in [Engines -> SUBSET (Models \cup EmbedModels)]
    /\ NativeMtp \in [Families -> SUBSET Catalog]
-----------------------------------------------------------------------------
\* The scope of an engine.

Normal(r)      == r.tests \cap LLMTests # {}
Concurrency(r) == r.tests \cap ConcurrencyTests # {}

\* An engine is asked for its models only if the selection depends on them.
InventoryNeeded(r) == \/ Concurrency(r)
                      \/ r.picky /\ Normal(r)
                      \/ r.embPicky /\ Emb \in r.tests
Inventory(r, e) == IF InventoryNeeded(r) THEN Installed[e] ELSE {}

\* What the patterns match, in a list of the catalog and among imported models.
Matched(r, e, ms) == r.picks \cap (ms \cup (Custom \cap Inventory(r, e)))

LLMModels(r, e) ==
    IF ~r.picky THEN r.tier
    ELSE Matched(r, e, IF Normal(r) THEN r.tier \cap Inventory(r, e) ELSE r.tier)

\* The tier does not cap these; the patterns do.
ConcurrencyModels(r, e) ==
    IF ~Concurrency(r) THEN {}
    ELSE LET downloaded == Catalog \cap Inventory(r, e)
         IN IF r.picky THEN Matched(r, e, downloaded) ELSE downloaded

CatalogEmbeddings(r) == IF r.embPicky THEN EmbedModels \cap r.embPicks ELSE EmbedModels
CatalogImages(r) == IF r.imgPicky THEN r.tierImages \cap r.imgPicks ELSE r.tierImages

EmbeddingModels(r, e) ==
    IF r.embPicky /\ Emb \in r.tests THEN CatalogEmbeddings(r) \cap Inventory(r, e)
    ELSE CatalogEmbeddings(r)

\* The native tools of the other families
Incompatible(e) == UNION {NativeTests[f] : f \in Families \ {Family[e]}}
Compatible(r, e) == r.tests \ Incompatible(e)

\* The first engine's scope has the images, which depend on no engine.
ScopeTests(r, e) ==
    {t \in Compatible(r, e) :
        /\ t = Img => e = First[r.engines]
        /\ t \in LLMTests => LLMModels(r, e) # {}
        /\ t \in ConcurrencyTests => ConcurrencyModels(r, e) # {}
        /\ t = Emb => EmbeddingModels(r, e) # {}}

\* A pattern that matches nothing, for the one engine or for all of them.
\* Only the tests of a single engine are first reduced to the compatible ones.
CatalogError(r) ==
    \/ Emb \in r.tests /\ r.embPicky /\ CatalogEmbeddings(r) = {}
    \/ Img \in r.tests /\ r.imgPicky /\ CatalogImages(r) = {}

OneEngineError(r, e) ==
    \/ r.picky /\ Compatible(r, e) \cap LLMTests # {} /\ LLMModels(r, e) = {}
    \/ r.picky /\ Compatible(r, e) \cap ConcurrencyTests # {} /\ ConcurrencyModels(r, e) = {}
    \/ r.embPicky /\ Emb \in Compatible(r, e) /\ EmbeddingModels(r, e) = {}

AllEnginesError(r) ==
    LET Relevant(ts) == {e \in r.engines : Compatible(r, e) \cap ts # {}}
    IN  \/ r.picky /\ Normal(r) /\ \A e \in Relevant(LLMTests) : LLMModels(r, e) = {}
        \/ /\ r.picky /\ Concurrency(r)
           /\ \A e \in Relevant(ConcurrencyTests) : ConcurrencyModels(r, e) = {}
        \/ r.embPicky /\ Emb \in r.tests /\ \A e \in r.engines : EmbeddingModels(r, e) = {}

Several(r) == \E e, f \in r.engines : e # f

ScopeError(r) ==
    \/ CatalogError(r)
    \/ IF Several(r) THEN AllEnginesError(r) ELSE \E e \in r.engines : OneEngineError(r, e)
-----------------------------------------------------------------------------
\* The passes.  An MTP pass is of the models with a predictor for the engine.

Capable(e, ms) == ms \cap NativeMtp[Family[e]]

ModeStates(mode) == CASE mode = "off" -> {FALSE} [] mode = "on" -> {TRUE} [] OTHER -> BOOLEAN

PassLLM(r, p)  == IF p.mtp THEN Capable(p.engine, LLMModels(r, p.engine))
                  ELSE LLMModels(r, p.engine)
PassConc(r, p) == IF p.mtp THEN Capable(p.engine, ConcurrencyModels(r, p.engine))
                  ELSE ConcurrencyModels(r, p.engine)

PassTests(r, p) ==
    {t \in ScopeTests(r, p.engine) :
        p.mtp => /\ t \in ServerTests
                 /\ PassLLM(r, p) = {} => t \in ConcurrencyTests
                 /\ PassConc(r, p) = {} => t \notin ConcurrencyTests}

Passes(r) == {p \in [engine : r.engines, mtp : ModeStates(r.mtp)] : PassTests(r, p) # {}}

HasCapable(r, e) == Capable(e, LLMModels(r, e) \cup ConcurrencyModels(r, e)) # {}

MtpError(r) ==
    \/ r.mtp = "on" /\ (\/ ~(r.tests \subseteq ServerTests)
                        \/ \E e \in r.engines : ~HasCapable(r, e)
                        \/ Passes(r) = {})
    \/ r.mtp = "both" /\ (\/ \A e \in r.engines : ~HasCapable(r, e)
                          \/ r.tests \cap ServerTests = {})

Accepted(r) == ~ScopeError(r) /\ ~MtpError(r)

\* The engines an execution profile is built for, before any pass
Profiled(r) == {e \in r.engines : ScopeTests(r, e) # {}}

\* The suffix of a pass's result file: the engine if there are several, and the
\* mode if it is not off.
OutSuffix(r, p) == [engine |-> IF Several(r) THEN {p.engine} ELSE {},
                    mtp    |-> IF r.mtp # "off" THEN {p.mtp} ELSE {}]
-----------------------------------------------------------------------------
\* The preflight and what is left of a pass.

\* Whatever the tests are
PreflightModels(r, p) == PassLLM(r, p) \cup PassConc(r, p)

EngineBacked(r, p) == PassTests(r, p) \cap EngineBackedTests # {}

\* Models that are not whole fail hard; the other static checks exclude none.
Static(r, p, whole) == PreflightModels(r, p) \cap Installed[p.engine] \cap whole

Probes(r, p, whole) == EngineBacked(r, p) /\ Static(r, p, whole) # {}

\* Each is loaded and asked for an answer; those that are not sound fail hard.
Runnable(r, p, whole, sound) ==
    IF Probes(r, p, whole) THEN Static(r, p, whole) \cap sound ELSE Static(r, p, whole)

\* The pass fails instead of running with no models.
Refused(r, p, whole, sound) ==
    Probes(r, p, whole) /\ Runnable(r, p, whole, sound) = {}

\* The models a test of the pass is given, before and after the preflight
Selected(r, p, t) == CASE t \in LLMTests         -> PassLLM(r, p)
                       [] t \in ConcurrencyTests -> PassConc(r, p)
                       [] t = Emb                -> EmbeddingModels(r, p.engine)
                       [] OTHER                  -> CatalogImages(r)

Given(r, p, t, whole, sound) ==
    IF t \in LLMTests \cup ConcurrencyTests
    THEN Selected(r, p, t) \cap Runnable(r, p, whole, sound)
    ELSE Selected(r, p, t)
=============================================================================
