\* recover is run on the file of a collector that still records.
SPECIFICATION Spec
CONSTANTS
    Events <- MCEvents
    NoEvent = "none"
    PayloadSize <- MCPayloadSize
    FileHeaderSize = 2
    RecordHeaderSize = 2
    MaximumPayloadSize = 2
    FlushEvery = 2
    MaximumRecords = 3
    MaxAppends = 2
    Damage = FALSE
    RecoverLive = TRUE
PROPERTIES CompletedRecordsKept
