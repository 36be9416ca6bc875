SPECIFICATION Spec
CONSTANTS
    NumBuffer = 2
    Calls = {}
    MaxTriggers = 4
    MaxReads = 4
    MaxResets = 0
    MaxFaults = 1
PROPERTY PollDiscardsNothing
