SPECIFICATION Spec
CONSTANTS
    Clients = {c1}
    Cores = {mihomo}
    Procs = {p1, p2, p3}
    None = None
    KillMayFail = TRUE
    MaxBoots = 0
INVARIANT RunningHasProcess
