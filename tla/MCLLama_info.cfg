\* One goroutine reads the model information while another frees the model.
SPECIFICATION Spec
CONSTANTS
    Thread = {t1, t2}
    Handle = {h1}
    Addr = {a1}
    Nil = Nil
    Sharings <- JustShared
    Ops = {"info", "free"}
    NestedOps = {}
    MaxOps = 2
    MaxTokens = 1
INVARIANTS
    NoUseAfterFree
