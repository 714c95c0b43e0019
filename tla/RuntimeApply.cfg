SPECIFICATION MCSpec
CONSTANTS
    Clients = {c1, c2}
    Editors = {e1}
    Cores = {mihomo, singbox}
    Procs = {p1, p2}
    None = None
    KillMayFail = FALSE
    MaxBoots = 1
    MaxRevs = 1
SYMMETRY Symmetry
CONSTRAINT OneOfAll
INVARIANTS
    StatusNamesCore
    ValidatedBeforeRun
    RunsWhatWasCompiled
    RestoreIsLast
    SnapshotNotOverwritten
