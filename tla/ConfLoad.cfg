SPECIFICATION Spec
CONSTANTS
    Scenarios <- MCScenarios
    Indices <- MCIndices
    Relaxed <- MCRelaxed
    Numerals <- MCNumerals
    Truths <- MCTruths
    Width = 4
    Resolution <- ResolveAlone
CHECK_DEADLOCK FALSE
INVARIANTS
    LastWordWins
    ResolvedAsUnfolded
    BoundByName
