SPECIFICATION FairSpec
CONSTANTS
    Clients = {c1, c2}
    Cores = {mihomo}
    Procs = {p1, p2}
    None = None
    KillMayFail = FALSE
    MaxBoots = 0
PROPERTIES
    CallsReturn
    TransitionsEnd
