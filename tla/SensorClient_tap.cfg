\* Stop is tapped while Start is still connecting, Start while Stop is still
\* cancelling.
SPECIFICATION ClientSpec
CONSTANTS
    MaxStarts = 2
    MaxStops = 2
    MaxSamples = 1
INVARIANTS StopClosesStream
CHECK_DEADLOCK FALSE
