SPECIFICATION Spec
CONSTANTS
    Styles = {"note", "loop"}
    MaxVersions = 6
    MaxFailures = 2
    MaxCrashes = 2
INVARIANTS
    TypeOK
    SavedIsInFile
PROPERTIES
    StoresBehind
CHECK_DEADLOCK FALSE
