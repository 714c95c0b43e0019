SPECIFICATION Spec
CONSTANTS
    ByName <- MCByName
    Releases <- MCReleases
    Uploads = {"v1.9", ".."}
    Outside = {".."}
    Clients = {c1, c2}
    None = None
    MaxCalls = 3
    MaxCrashes = 1
SYMMETRY Symmetry
CHECK_DEADLOCK FALSE
INVARIANTS
    InstalledIsWhole
    CachedIsStartable
