\* One or two tools with schemas of every form, clashing names and recursion.
SPECIFICATION Spec
CONSTANTS
    ToolSets <- MCToolSets
    Docs <- MCDocs
    Sorted <- MCSorted
    Sanitized <- MCSanitized
INVARIANTS
    GrammarReadable
    CoversSchema
    SampledIsValid
\* A call has been sampled, or no document of Docs can be.
CHECK_DEADLOCK FALSE
