CONSTANTS
    Dirs <- MCDirs
    Home = "home"
    Start = "srv"
    SubDir <- MCSubDir
    NoDir = "none"
    Clps <- MCClps
    Lists <- MCLists
    Broken <- MCBroken
    Calling <- MCCalling
    Names = {"a", "b", "list"}
    InitialFiles <- MCInitialFiles
    MaxLoaded = 2
SPECIFICATION Spec
CHECK_DEADLOCK FALSE
INVARIANTS
    TypeOK
    ReportedPath
    ListsLoadInOrder
