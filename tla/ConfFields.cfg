SPECIFICATION Spec
CONSTANTS
    Scenarios <- FieldScenarios
    Indices <- MCIndices
    Relaxed <- MCRelaxed
    Numerals <- MCNumerals
    Truths <- MCTruths
    Width = 4
    Resolution <- ResolveAlone
CHECK_DEADLOCK FALSE
INVARIANTS
    RefusedAsByJson
