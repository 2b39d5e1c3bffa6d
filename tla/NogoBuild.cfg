SPECIFICATION FairSpec
CONSTANTS
    lib = lib
    mid = mid
    app = app
    other = other
    NoFactsFile = NoFactsFile
    Package = {lib, mid, app}
    Path = {lib, mid, app, other}
    Setups <- MCSetups
INVARIANTS
    FactsReachDependents
    ValidationExact
PROPERTY
    KeepsGoing
