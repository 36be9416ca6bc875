SPECIFICATION Spec
CONSTANTS
    NumBuffer = 2
    ADCs <- TwoADCs
    Phases <- FourPhases
    MaxMisery = 2
    Lengths = {624}
    MaxResets = 2
    MaxTroubles = 1
INVARIANTS
    TypeOK SettingsKept QuietCalibration DelaysMatch InStep
PROPERTY ResetReturns
CHECK_DEADLOCK FALSE
