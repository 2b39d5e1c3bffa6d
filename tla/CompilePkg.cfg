SPECIFICATION Spec
CHECK_DEADLOCK FALSE
CONSTANTS
    Nil = Nil
    Std <- MCStd
    IsRelative <- MCRelative
    Libs <- MCLibs
    Modes <- MCModes
    Coverdata <- MCCoverdata
INVARIANTS
    ArchiveExact
    ImportsCovered
    NogoSeesOriginals
    Clean
