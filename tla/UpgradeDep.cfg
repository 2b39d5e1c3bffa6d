SPECIFICATION Spec
CONSTANTS
    Inputs <- MCInputs
    Name = {"x", "y"}
    Patch = {"x1", "x2", "y1"}
    MaxPatches = 2
    MaxDeps = 2
INVARIANTS
    NewestVersion
    PatchesInOrder
    AllOrNothing
