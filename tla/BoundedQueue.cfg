\* Two producers and two consumers share a queue of two places.
SPECIFICATION FairQueueSpec
CONSTANTS
    p1 = p1
    p2 = p2
    c1 = c1
    c2 = c2
    closer = closer
    Producers = {p1, p2}
    Consumers = {c1, c2}
    Closers = {closer}
    Items = {1, 2}
    Capacity = 2
    MaxCalls = 4
INVARIANTS TypeOK Fifo StatsExact EndIsFinal NoLostWakeup
PROPERTIES CloseReleasesConsumers NoStrandedItems
