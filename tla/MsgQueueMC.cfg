SPECIFICATION MCSpec
CONSTANTS
    p1 = p1
    p2 = p2
    c1 = c1
    c2 = c2
    NoMessage = NoMessage
    Producers <- MCProducers
    Consumers <- MCConsumers
    MaxLen = 1
    SizeMax = 3
    MaxPuts = 2
    MaxSwitches = 2
INVARIANTS
    PendingBound
    NoLostGetWakeup
    NoLostPutWakeup
PROPERTIES
    ImplementsFifo
    EveryMessageTaken
    NonblockReleasesAll
