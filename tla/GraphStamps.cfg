CONSTANTS
    Results = {"full", "partial"}
    Missing = missing
    Torn = torn
    Labels = {"CodeArtifact", "Endpoint"}
    Ids = {1, 2, 3}
    Versions = {1, 2}
    Nodes <- MCNodes
    Links <- MCLinks
    Suggestions <- MCSuggestions
    BatchSize = 2
SPECIFICATION Spec
INVARIANTS ResolverEdgesStay
