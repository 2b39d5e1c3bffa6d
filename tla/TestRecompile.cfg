SPECIFICATION RecompileSpec
CONSTANTS
    libA = libA
    libB = libB
    libC = libC
    libD = libD
    Test = Test
    Label = {libA, libB, libC, libD, Test}
    Inputs <- MCInputs
INVARIANTS
    PostOrder
    RecompiledExactly
    LinksTogether
    CycleReported
