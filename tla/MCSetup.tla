-------------------------------- MODULE MCSetup --------------------------------
(* Small instances of Setup: one catalog model, one imported name. *)
EXTENDS Setup

TwoParts == <<"w1", "w2">>
OneWeight == {"config", "weights"}
Sharded == {"config", "index", "s1", "s2"}

\* An NVIDIA machine without toolkit and interpreter, and an AMD one under WSL
\* or with an Intel card beside it.
SomeHosts == {[missing |-> {"vulkan"}, can |-> {"vulkan"}],
              [missing |-> {"headers", "python"}, can |-> {"vllm"}],
              [missing |-> {"driver", "cuda"}, can |-> {}],
              [missing |-> {"rocm", "intel"}, can |-> {}]}
SomePlans == {[engines |-> {"llamacpp", "vulkan"}, models |-> Catalog, images |-> FALSE],
              [engines |-> {"vllm"}, models |-> Catalog, images |-> FALSE],
              [engines |-> {"llamacpp"}, models |-> {}, images |-> TRUE]}
=============================================================================
