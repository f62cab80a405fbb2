\* Two processes ask: one's rebuild puts back rows older than the index it replaces.
SPECIFICATION Spec
CONSTANTS
    Asker = {a1, a2}
    Operator = {o1}
    Identity <- MCIdentity
    Question <- MCQuestion
    Texts <- MCTexts
    UriTerms <- MCUriTerms
    Declared = {TRUE}
    Unwrapped <- MCUnwrapped
    First <- MCFirst
    Dispositions = {"waived"}
    TopK = 2
    MaxItems = 3
    MaxRevs = 2
    MaxLinks = 2
    MaxEdits = 2
    MaxEscalations = 1
INVARIANTS
    CitesTheHeadOfItsTime
CHECK_DEADLOCK FALSE
