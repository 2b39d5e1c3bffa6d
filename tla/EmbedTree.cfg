SPECIFICATION EmbedSpec
CONSTANTS
    NoName = NoName
    Name <- MCName
    Hidden <- MCHidden
    Bad <- MCBad
    Inputs <- MCInputs
INVARIANTS
    FirstWins
    FoundExactly
