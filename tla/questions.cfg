\* One process asks; two answer, edit and rebuild; any of them may be killed.
SPECIFICATION Spec
CONSTANTS
    Asker = {a1}
    Operator = {a1, o1}
    Identity <- MCIdentity
    Question <- MCQuestion
    Texts <- MCTexts
    UriTerms <- MCUriTerms
    Declared = {TRUE, FALSE}
    Unwrapped <- MCUnwrapped
    First <- MCFirst
    Dispositions = {"waived"}
    TopK = 2
    MaxItems = 3
    MaxRevs = 2
    MaxLinks = 2
    MaxEdits = 2
    MaxEscalations = 1
INVARIANTS
    CitesTheHeadOfItsTime
    AnsweredOnce
PROPERTIES
    EvidenceIsKept
CHECK_DEADLOCK FALSE
