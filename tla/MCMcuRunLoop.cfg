CONSTANTS
    Addrs <- MCAddrs
    Counts <- MCCounts
    IsARM = TRUE
    MaxRuns = 2
    None = None
SPECIFICATION Spec
INVARIANT TypeOK
INVARIANT StepBound
PROPERTY RunReturns
PROPERTY NoStepAfterStop
