SPECIFICATION Spec
CONSTANTS
    Names = {a, b}
    NodeNames = {x}
    Sources = {url}
    Profiles = {p}
    Refreshers = {r1}
    None = None
SYMMETRY Symmetry
VIEW Seen
INVARIANTS
    NodeNamesUnique
PROPERTIES
    
    RefreshKeepsSubscriptions
    FailureStays
