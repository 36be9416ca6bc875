SPECIFICATION FairSpec
CONSTANTS
    NumBuffer = 3
    Calls = {"sw_trigger"}
    MaxTriggers = 5
    MaxReads = 5
    MaxResets = 1
    MaxFaults = 0
PROPERTY HandedOver
