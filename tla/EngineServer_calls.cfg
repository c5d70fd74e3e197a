\* Calls with llama.cpp on a GPU, with another server about, and with vLLM.
SPECIFICATION Spec
CONSTANTS
    Backends = {"gpu", "vllm"}
    Strangers = {"gpu"}
    Configurations <- MCConfigurations
    Stride = 1
    HostLimits = {1, 2}
    MaxOffloads = 1
    CrashRetryMax = 2
    MaxServers = 2
    MaxFaults = 3
INVARIANTS ServedAsAsked NoServerOutlivesTheRun
PROPERTY CallsEnd
CHECK_DEADLOCK FALSE
