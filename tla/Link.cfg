SPECIFICATION Spec
CHECK_DEADLOCK FALSE
CONSTANTS
    Nil = Nil
    Std <- MCStd
    IsRelative <- MCRelative
    StableKeys <- MCStable
    Prefixed <- MCPrefixed
    Coverdata = 1
    Builds <- MCBuilds
INVARIANTS
    ConflictsFound
    LinkedAsCompiled
    EmbedderDecides
    ModulesExact
    DefsExact
