\* A collector with two streams whose clients end them and both signals, and a
\* client whose calls come one after the other or overlap.
SPECIFICATION EndpointsSpec
CONSTANTS
    s1 = s1
    s2 = s2
    SIGINT = SIGINT
    SIGTERM = SIGTERM
    NoSignal = NoSignal
    Streams = {s1, s2}
    Signals = {SIGINT, SIGTERM}
    Events = {1, 2}
    ArgumentLists <- MCArgumentLists
    NotANumber = NotANumber
    MaxOption = 1
    MaxEvents = 3
    MaxStarts = 2
    MaxStops = 2
    MaxSamples = 2
INVARIANTS ExitZeroIsComplete ObjectsOutliveUsers StopReleasesAll ContiguousNumbers
PROPERTIES SignalEndsProcess StopReturns
CHECK_DEADLOCK FALSE
