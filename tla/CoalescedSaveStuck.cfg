SPECIFICATION Spec
CONSTANTS
    Styles = {"note"}
    MaxVersions = 5
    MaxFailures = 1
    MaxCrashes = 0
PROPERTIES
    NextSaveCatchesUp
CHECK_DEADLOCK FALSE
