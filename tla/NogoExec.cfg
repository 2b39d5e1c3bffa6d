SPECIFICATION FairSpec
CONSTANTS
    printf = printf
    nilness = nilness
    buildssa = buildssa
    inspect = inspect
    f1 = f1
    f2 = f2
    d1 = d1
    d2 = d2
    Main = Main
    AllLinters = AllLinters
    NoConfig = NoConfig
    Unset = Unset
    Analyzer = {printf, nilness, buildssa, inspect}
    Targets <- MCTargets
    Requires <- MCRequires
    HasFacts = {printf, buildssa}
    RunDespiteErrors = {inspect, nilness}
    Diagnostic = {d1, d2}
    File = {f1, f2}
    FileOf <- MCFileOf
    IgnoreFiles = {}
    NolintComments <- MCNolint
    Configs <- MCConfigs
    BaseConfig <- MCBase
INVARIANTS
    TypeOK
    InputsAreFinal
    ErrorsReachCaller
    FactsComplete
PROPERTIES
    ImplementsAnalysis
    Terminates
