\* Two streams into a queue of two places, at most three events offered.
SPECIFICATION ServiceSpec
CONSTANTS
    s1 = s1
    s2 = s2
    worker = worker
    main = main
    Producers = {s1, s2}
    Consumers = {worker}
    Closers = {worker, main}
    Worker = worker
    Main = main
    Capacity = 2
    MaxCalls = 3
    Garbage = {0}
    Word = 4
    ProducerIds <- MCProducerIds
    Events <- MCEvents
    Items <- MCItems
SYMMETRY Symmetry
INVARIANTS SummaryTruthful StreamsInOrder NoSilentDrop OkMeansConsumed
