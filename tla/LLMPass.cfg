SPECIFICATION Spec
CONSTANTS
    None = None
    Missing = Missing
    Torn = Torn
    Inputs <- MCInputs
    EndsWith <- MCEndsWith
    MaxCandidates = 3
    MinConfidence = 2
    Answers <- MCAnswers
    Walks <- MCWalks
    Payloads <- MCPayloads
    AllowedKinds = {"symbol", "call"}
    MaxFiles = 2
    MaxTokens = 4
    MaxPasses = 3
INVARIANTS TypeOK PaidOnce ResultIsTheCache
CHECK_DEADLOCK FALSE
