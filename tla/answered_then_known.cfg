\* One process asks; two answer, edit and rebuild; any of them may be killed.
SPECIFICATION Spec
CONSTANTS
    Asker = {a1}
    Operator = {a1, o1}
    Identity <- MCIdentity
    Question <- MCQuestion
    Texts <- MCTexts
    UriTerms <- MCUriTerms
    Declared = {TRUE}
    Unwrapped <- MCUnwrapped
    First <- MCStale
    Dispositions = {"waived"}
    TopK = 2
    MaxItems = 3
    MaxRevs = 2
    MaxLinks = 2
    MaxEdits = 0
    MaxEscalations = 1
INVARIANTS
    AnsweredThenKnown
CHECK_DEADLOCK FALSE
