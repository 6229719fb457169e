\* One handle: every way to load, use and free it, and every failure.
SPECIFICATION Spec
CONSTANTS
    IntMax = 3
    LongMax = 7
    ModelChoices <- MCModelChoices
    PredictChoices <- MCPredictChoices
    MaxMessages = 2
INVARIANTS
    TypeOK
    NothingLeaks
    ParentsLive
    BiasesArrive
