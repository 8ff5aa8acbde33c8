SPECIFICATION LoadSpec
CONSTANTS
    Docs <- MCDocsUnsized
    MessageLibs <- MCMessageLibsFull
    FunctionLibs <- MCFunctionLibs
    NULL = NULL
CHECK_DEADLOCK FALSE
INVARIANTS
    SizedMarshalled
