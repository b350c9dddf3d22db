SPECIFICATION Spec
CONSTANTS
    Ids <- MCIds
    Reads = {q1}
    PageLimit = 2
    Wanted <- MCWanted
    MaxChanges = 3
INVARIANTS
    TypeOK
    SubscriptionsAreExact
    DealsAreExact
PROPERTIES
    EveryReadEnds
CHECK_DEADLOCK FALSE
