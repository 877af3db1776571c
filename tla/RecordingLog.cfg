\* Crashes, failed writes, live readers, recover and one bad byte.
SPECIFICATION Spec
CONSTANTS
    Events <- MCEvents
    NoEvent = "none"
    PayloadSize <- MCPayloadSize
    FileHeaderSize = 2
    RecordHeaderSize = 2
    MaximumPayloadSize = 2
    FlushEvery = 2
    MaximumRecords = 2
    MaxAppends = 3
    Damage = TRUE
    RecoverLive = FALSE
INVARIANTS TypeOK ReadsExactly NeverWrongRecord FlushedSurvive RecoverRefusals
PROPERTIES CompletedRecordsKept
