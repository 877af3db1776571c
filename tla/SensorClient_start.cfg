\* The collector cannot be reached.
SPECIFICATION FairClientSpec
CONSTANTS
    MaxStarts = 1
    MaxStops = 1
    MaxSamples = 1
PROPERTIES StartGivesUp
CHECK_DEADLOCK FALSE
