SPECIFICATION Spec
CONSTANTS
    Segments <- MCSegments
    HiddenSegments = {".git", ""}
    NoName = ""
    Rest <- MCRest
    LikeWord <- MCLikeWord
    LikePrefix <- MCLikePrefix
    Owners = {"MetaCubeX", "example"}
    GitRefs = {"meta", "sing"}
    None = None
    Ids = {"builtin", "own"}
    BuiltIn = "builtin"
    BuiltInRepository <- MCBuiltInRepository
    RepoChoices <- MCRepoChoices
    Trees <- MCTrees
    Archive <- MCArchive
    Clients = {c1, c2}
    Filters <- MCFilters
SYMMETRY Symmetry
CONSTRAINT Bounded
INVARIANTS
    RefsNameFiles
    OfferedFilesExist
    OfferedFilesSavable
    ReadsShowEveryEntry
    SearchAgrees
PROPERTY OtherCoresKept
