--------------------------- MODULE MCCaseTelemetry ----------------------------
EXTENDS CaseTelemetry

\* Workloads of each kind, a pause asked for in each, sensors that fail in one.
MCStages == {[style |-> "image", pauses |-> 1, failures |-> 1],
             [style |-> "sustained", pauses |-> 1, failures |-> 0],
             [style |-> "plain", pauses |-> 1, failures |-> 0]}

\* Workloads that are paused and do not always mark it.
MCPausedStages == {[style |-> "sustained", pauses |-> 1, failures |-> 0],
                   [style |-> "plain", pauses |-> 1, failures |-> 0]}
===============================================================================
