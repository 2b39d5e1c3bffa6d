SPECIFICATION Spec
CONSTANTS
    fA = fA
    fB = fB
    dT = dT
    gone = gone
    g1 = g1
    g2 = g2
    Empty = Empty
    NoRepo = NoRepo
    Nil = Nil
    Goroutine = {g1, g2}
    Segment <- MCSegment
    Target <- MCTarget
    Setups <- MCSetups
INVARIANTS
    RlocationExact
    OpenExact
    ListExact
