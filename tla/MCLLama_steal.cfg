\* Two predictions with callbacks on one handle.
SPECIFICATION Spec
CONSTANTS
    Thread = {t1, t2}
    Handle = {h1}
    Addr = {a1}
    Nil = Nil
    Sharings <- JustShared
    Ops = {"predict_cb"}
    NestedOps = {}
    MaxOps = 2
    MaxTokens = 2
INVARIANTS
    CallbackOfTheCall
