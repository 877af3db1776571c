\* recover on a file of exactly as many records as its limit, and a cut one.
SPECIFICATION Spec
CONSTANTS
    Events <- MCEvents
    NoEvent = "none"
    PayloadSize <- MCPayloadSize
    FileHeaderSize = 2
    RecordHeaderSize = 2
    MaximumPayloadSize = 2
    FlushEvery = 2
    MaximumRecords = 2
    MaxAppends = 3
    Damage = FALSE
    RecoverLive = FALSE
INVARIANTS InterruptedRecovered
