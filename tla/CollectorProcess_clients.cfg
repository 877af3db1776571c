\* Clients that may keep their streams open.
SPECIFICATION FairProcessSpec
CONSTANTS
    s1 = s1
    s2 = s2
    SIGINT = SIGINT
    SIGTERM = SIGTERM
    NoSignal = NoSignal
    Streams = {s1, s2}
    Signals = {SIGINT, SIGTERM}
    Events = {1}
    ArgumentLists <- MCArgumentLists
    NotANumber = NotANumber
    MaxOption = 1
    MaxEvents = 1
PROPERTIES SignalEndsProcess
