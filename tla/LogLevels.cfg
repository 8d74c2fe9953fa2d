SPECIFICATION Spec
CONSTANTS
    Spelled <- MCSpelled
    Tokens <- MCTokens
    Memberships <- MCMemberships
    Documents <- MCDocuments
    MaxOperations = 4
CHECK_DEADLOCK FALSE
INVARIANTS
    HandlersFollowTree
PROPERTIES
    DocumentOverlaid
