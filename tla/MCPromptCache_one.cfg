\* One context and one session file, failures and a crash anywhere.
SPECIFICATION Spec
CONSTANTS
    Ctx = {c1}
    File = {f1}
    FilesOf <- EveryFile
    NoFile = NoFile
    Torn = Torn
    Token = {"a", "b"}
    NCtx = 4
    Batch = 2
    Prompts <- MCPrompts
    Leftovers <- MCLeftovers
    MaxGenerated = 2
    MaxCrashes = 1
    MayFail = TRUE
    Recurrent = FALSE
INVARIANTS
    TypeOK
    SampledFromPrompt
    FileConsistent
    OnlySuffixDecoded
