\* Replays beside a collector that may still record, with one bad byte; the
\* analysis of every log of up to four records.
SPECIFICATION ReadersSpec
CONSTANTS
    Events <- MCEvents
    NoEvent = "none"
    PayloadSize <- MCPayloadSize
    FileHeaderSize = 1
    RecordHeaderSize = 1
    MaximumPayloadSize = 2
    FlushEvery = 2
    MaximumRecords = 3
    MaxAppends = 3
    Damage = TRUE
    RecoverLive = FALSE
    Arrival <- MCArrival
    ArgumentLists <- MCArgumentLists
    LibraryOptions <- MCLibraryOptions
    NotANumber = NotANumber
    Unset = Unset
    Records <- MCRecords
    Word = 4
    MaxRecords = 4
    Empty = Empty
INVARIANTS ReplaysWindow FailsOnlyOnDamage CountsAsDocumented TimingAsDocumented
CHECK_DEADLOCK FALSE
