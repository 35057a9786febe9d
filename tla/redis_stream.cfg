\* One process relays and rebuilds, one consumes and relays; two records, pages of one
\* event, two losses.
CONSTANTS
    Relayers = {i1}
    Consumers = {i2}
    MaxRevision = 2
    PageLimit = 1
    Attempts = 2
    MaxFaults = 2
SPECIFICATION FairSpec
INVARIANTS DeliveredOnce
PROPERTIES WritesAreWhole EveryRecordDelivered
CHECK_DEADLOCK FALSE
