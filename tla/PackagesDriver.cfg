SPECIFICATION Spec
CONSTANTS
    Inputs <- MCInputs
    Stdlib = "//:stdlib"
    MaxXTest = 2
INVARIANTS
    FilesExact
    ResponseComplete
