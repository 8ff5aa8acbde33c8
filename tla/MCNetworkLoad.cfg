SPECIFICATION LoadSpec
CONSTANTS
    Docs <- MCDocs
    MessageLibs <- MCMessageLibs
    FunctionLibs <- MCFunctionLibs
    NULL = NULL
CHECK_DEADLOCK FALSE
INVARIANTS
    Runnable
    Released
    Annotated
