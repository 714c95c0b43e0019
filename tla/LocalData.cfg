SPECIFICATION Spec
CONSTANTS
    Keys = {k1, k2}
    Tags = {t}
    TagOf <- MCTagOf
    Subscriptions = {s1}
    NodeSets = {n1}
    ManagedSet <- MCManagedSet
    Contents = {x}
    Clients = {c1, c2}
    CheckTypes = {"tcp", "tls"}
    Times <- MCTimes
    Limits = {0, 1}
    Queries <- MCQueries
    None = None
    MaxIds = 4
    MaxResets = 1
SYMMETRY Symmetry
CONSTRAINT Rows
INVARIANTS
    SourceListsItsNodes
    LatestIsNewest
    EventPagesComplete
PROPERTY CleanupKeepsNewest
