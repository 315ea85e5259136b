SPECIFICATION Spec
CONSTANTS
    OPERATIONS <- MCOperations
    Contract <- MCContract
    Accepted <- MCAccepted
    Folded <- MCFolded
    MinSecretWithDigit = 4
    MinSecret = 6
    MaxTitle = 6
    MaxProblem = 12
    MaxCommand = 8
    MaxUrl = 32
    Weight <- MCWeight
    Keyboards <- MCKeyboards
    MaxWords = 4
    Places <- MCPlaces
    ColorChoices <- MCColors
    Texts <- MCTexts
    Messages <- MCMessages
INVARIANTS
    WordsAreReadAlike
    ContradictionsAreRefused
    ReportIsSafe
CHECK_DEADLOCK FALSE
