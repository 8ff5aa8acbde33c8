SPECIFICATION LoadSpec
CONSTANTS
    Docs <- MCDocsMissing
    MessageLibs <- MCMessageLibsMissing
    FunctionLibs <- MCFunctionLibs
    NULL = NULL
CHECK_DEADLOCK FALSE
INVARIANTS
    LoadFailureFatal
