\* A recurrent or hybrid model: the memory cannot drop part of a session.
SPECIFICATION Spec
CONSTANTS
    Ctx = {c1}
    File = {f1}
    FilesOf <- EveryFile
    NoFile = NoFile
    Torn = Torn
    Token = {"a", "b"}
    NCtx = 4
    Batch = 2
    Prompts <- MCPrompts
    Leftovers <- MCLeftovers
    MaxGenerated = 2
    MaxCrashes = 0
    MayFail = FALSE
    Recurrent = TRUE
INVARIANTS
    SampledFromPrompt
