---------------------------- MODULE MCEngineServer ----------------------------
EXTENDS EngineServer

\* Two contexts of a model, one of them for a batch of two, and another model.
MCConfigurations == {[model |-> "a", ctx |-> 1, slots |-> 1, needs |-> 0],
                     [model |-> "a", ctx |-> 1, slots |-> 2, needs |-> 2],
                     [model |-> "b", ctx |-> 2, slots |-> 1, needs |-> 1]}
===============================================================================
