\* Two gRPC handlers, a queue of two places, four try_push calls.
SPECIFICATION FairSinkSpec
CONSTANTS
    p1 = p1
    p2 = p2
    worker = worker
    main = main
    Producers = {p1, p2}
    Consumers = {worker}
    Closers = {worker, main}
    Worker = worker
    Main = main
    Items = {1, 2}
    Capacity = 2
    MaxCalls = 4
    Garbage = {0, 7}
INVARIANTS SinkTypeOK Conservation FinalStatsBalance
PROPERTIES UsesQueue ShutdownCompletes FailureStopsIngest ImplementsLivePipeline
