SPECIFICATION Spec
CONSTANTS
    None = None
    Adapters <- MCAdapters
    Priority <- MCPriority
    Items <- MCItems
    Outputs <- MCOutputs
    Upper <- MCUpper
    Placeholders = {"<v1>", "<v2>"}
INVARIANTS TypeOK WinnersOutrank NothingIsLost NoDanglingSource LinksAreJustified
CHECK_DEADLOCK FALSE
