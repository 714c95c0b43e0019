SPECIFICATION Spec
CONSTANTS
    Clients = {c1, c2}
    Cores = {mihomo, singbox}
    Procs = {p1, p2}
    None = None
    KillMayFail = TRUE
    MaxBoots = 1
SYMMETRY Symmetry
PROPERTY ImplementsSlot
INVARIANTS
    IInv
    OneManagedCore
    RulesRemembered
