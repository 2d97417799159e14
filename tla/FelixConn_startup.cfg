\* A restart trigger from the calculation graph at any time, start-up included.
CONSTANTS
    c1 = c1
    c2 = c2
    nil = nil
    ConfigValues <- MCConfigValues
    MainConfig = c1
    NoConfig = nil
    CalcKinds <- PassKinds
    MaxCalcMsgs = 3
    MaxReports = 2
    MaxApplyFailures = 1
    ReportingChoices <- ReportingOff
    MaxConfigErrors = 0
    MaxReadyChanges = 0
    MaxEndpointStatuses = 0
SPECIFICATION Spec
PROPERTY FailureLeadsToExit
\* felix's exit is a final state; so is the start-up hang in which every
\* goroutine is blocked, which FailureLeadsToExit is about.
CHECK_DEADLOCK FALSE
