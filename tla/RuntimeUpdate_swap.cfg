SPECIFICATION UpdateSpec
CONSTANTS
    Targets = {native, vulkan, vllm}
    Family = {native, vulkan}
    Native = native
    Absent = Absent
    Empty = Empty
    Broken = Broken
    MaxUpdates = 3
    MaxFaults = 2
PROPERTIES
    ReplacesAllOrNothing
    RuntimeSurvives
