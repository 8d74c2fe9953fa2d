SPECIFICATION Spec
CONSTANTS
    Spelled <- MCSpelled
    Tokens <- MCTokens
    Memberships = {}
    Documents <- NestedDocuments
    MaxOperations = 4
CHECK_DEADLOCK FALSE
PROPERTIES
    GroupNameReceivesNone
