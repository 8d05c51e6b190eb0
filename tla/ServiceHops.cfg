SPECIFICATION Spec
CONSTANTS
    None = None
    Spans <- MCAllSpans
    Windows <- MCWindows
    Catalog <- MCCatalog
    LookbackHours = 1
    MinSpanCount = 2
    Now = 20
    StaticNodes <- MCStaticNodes
    StaticRels <- MCStaticRels
    Depths = {0, 1, 2, 4, 5, 9}
INVARIANTS ACallIsOneHop
CHECK_DEADLOCK FALSE
