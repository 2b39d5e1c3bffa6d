SPECIFICATION Spec
CONSTANTS
    f1 = f1
    f2 = f2
    A = A
    B = B
    NoFile = NoFile
    File = {f1, f2}
    Byte <- MCByte
    Source <- MCSource
    Text <- MCText
    Offset = {0, 1, 2, 3}
    Inputs <- MCInputs
INVARIANTS
    EditsOrdered
    FixesAtomic
    PatchExact
