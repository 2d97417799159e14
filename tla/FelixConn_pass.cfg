\* The calculation graph sends config changes, the not-ready flag, InSync and
\* an accepted data kind.
CONSTANTS
    c1 = c1
    c2 = c2
    nil = nil
    ConfigValues <- MCConfigValues
    MainConfig = c1
    NoConfig = nil
    CalcKinds <- PassKinds
    MaxCalcMsgs = 3
    MaxReports = 2
    MaxApplyFailures = 1
    ReportingChoices <- BothReportingChoices
    MaxConfigErrors = 1
    MaxReadyChanges = 1
    MaxEndpointStatuses = 1
SPECIFICATION Spec
INVARIANT DriverConfigNeverChanges
INVARIANT FirstReportMarked
INVARIANT NoStatusLost
PROPERTY ReportedFailureLeadsToExit
PROPERTY StartupCompletes
\* felix's exit is a final state; so is the start-up hang in which every
\* goroutine is blocked, which FailureLeadsToExit is about.
CHECK_DEADLOCK FALSE
