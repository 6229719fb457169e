\* Goroutines with handles of their own, or that share one; addresses are reused.
SPECIFICATION FairSpec
CONSTANTS
    Thread = {t1, t2}
    Handle = {h1, h2, h3}
    Addr = {a1, a2}
    Nil = Nil
    Sharings <- SharedOrOwned
    Ops = {"predict", "predict_cb", "locked", "set_callback", "free"}
    NestedOps = {"info"}
    MaxOps = 2
    MaxTokens = 1
INVARIANTS
    TypeOK
    NoUseAfterFree
    ContextExclusive
    OwnCallback
    RegistryClean
PROPERTIES
    Returns
