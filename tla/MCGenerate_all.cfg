\* Stop words, callback answers, budgets and context shifts in one generation:
\* the longest one shifts the context of six cells several times.
SPECIFICATION FairSpec
CONSTANTS
    Token = {"t1", "t2", "t0"}
    Eog = "eog"
    Char <- MCChar
    Piece <- MCPiece
    Stops <- MCStops
    NCtx = 6
    TextPrompts <- MCPrompts
    MediaPrompts <- MCImages
    TokensOptions <- MCBudgets
    NKeeps <- MCKeeps
    Unlimited = 7
    DefaultBudget = 4
    CanShift = TRUE
    DecodeMayFail = TRUE
INVARIANTS
    TypeOK
    MemoryMatchesCounter
    StopsGracefully
    UnshiftedIsLinear
    StopsAtFirst
    NoStopInOutput
    ResultWasStreamed
    FullOnlyWithoutShift
PROPERTIES
    WindowSpec
    Returns
\* A finished generation takes no more steps.
CHECK_DEADLOCK FALSE
