SPECIFICATION Spec
CONSTANTS
    NumBuffer = 2
    Calls = {"single"}
    MaxTriggers = 3
    MaxReads = 3
    MaxResets = 0
    MaxFaults = 0
PROPERTY ClearsOnlyHanded
