SPECIFICATION FairSpec
CONSTANTS
    Configs <- AllConfigs
    Strings <- AllStrings
    Output <- AllOutput
    Text = {UserText, Instructions}
    Instructions = Instructions
    UserText = UserText
INVARIANTS
    TypeOK
    Accounted
    PromptTellsAll
    MessagesReplay
    RequiredMeansCalled
    IdsDistinct
    CanceledStops
PROPERTIES
    Returns
\* Generate returns once.
CHECK_DEADLOCK FALSE
