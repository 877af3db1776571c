\* The command with and without a target, and the generator as a library.
SPECIFICATION CommandSpec
CONSTANTS
    Second = 8
    ProbabilityScale = 4
    BaseTimestamp = 50
    MaxDuration = 23
    MaxSensorRate = 4
    MaxGeneratedEvents = 12
    DefaultRates <- MCRates
    ArgumentLists <- MCArgumentLists
    LibraryConfigs <- MCLibraryConfigs
    NotANumber = NotANumber
    MaxConnectTimeout = 60
    WireSize = 1
INVARIANTS ScheduleSound FaultsAccounted CleanIsInOrder ReportTruthful ExitStatusTruthful
PROPERTIES GenerateReturns
CHECK_DEADLOCK FALSE
