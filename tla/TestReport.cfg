SPECIFICATION FairSpec
CONSTANTS
    T1 = T1
    T2 = T2
    T3 = T3
    Test = {T1, T2, T3}
    NoTest = NoTest
    inBuffer = 4
    outBuffer = 3
    NL <- Newline
    Token <- MCToken
    Forced <- MCForced
    Programs <- MCPrograms
INVARIANTS
    OneWriter
    StreamsIntact
    FailureKept
    VerdictsExact
PROPERTY
    Terminates
