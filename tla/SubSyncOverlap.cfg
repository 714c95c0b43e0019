SPECIFICATION ImportSpec
CONSTANTS
    Names = {a}
    NodeNames = {x, y}
    Sources = {url}
    Profiles = {}
    Refreshers = {r1, r2}
    Importers = {i1}
    None = None
SYMMETRY Symmetry
VIEW Seen
CONSTRAINT TwoAtOnce
PROPERTIES
    RefreshIsComplete
    FailureRecorded
    ImportIsComplete
    ManualEditKeepsOthers
