SPECIFICATION FairSpec
CONSTANTS
    t1 = t1
    t2 = t2
    t3 = t3
    Checkouts <- MCCheckouts
    MaxPoolSize = 2
    MaxConnecting = 1
    MinPoolSizes <- MCMinPoolSizes
    MaxResets = 1
    None = None
INVARIANTS
    TypeOK
    CountersAddUp
    ConnectionsAreBounded
    IdleAreFresh
    NoLostWakeUp
PROPERTIES
    EveryCheckoutEnds
