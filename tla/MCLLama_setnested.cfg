\* A token callback that calls SetTokenCallback.
SPECIFICATION FairSpec
CONSTANTS
    Thread = {t1, t2}
    Handle = {h1}
    Addr = {a1}
    Nil = Nil
    Sharings <- JustShared
    Ops = {"predict_cb", "locked"}
    NestedOps = {"set_callback"}
    MaxOps = 2
    MaxTokens = 1
PROPERTIES
    Returns
\* The deadlock is what the property is about.
CHECK_DEADLOCK FALSE
