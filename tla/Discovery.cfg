SPECIFICATION FairSpec
CONSTANTS
    a = a
    b = b
    c = c
    None = None
    SetName = rs0
    Seed = a
    Addresses = {a, b, c}
    Answers <- MCAnswers
    Clusters <- MCClusters
    Versions <- MCVersions
INVARIANTS
    TypeOK
    OnePrimary
    OnlyNamedServers
    SelectableIsReady
    PrimaryIsNewest
PROPERTIES
    ElectionsOnlyGrow
    PrimaryIsFound
CHECK_DEADLOCK FALSE
