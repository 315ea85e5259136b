\* The process ends, and that is a deadlock.
CHECK_DEADLOCK FALSE
SPECIFICATION FairSpec
CONSTANTS
    None = None
    Secret = Secret
    FreeText = FreeText
    SecretKeys = {"secret", "token"}
    MaxPieces = 4
    MaxData = 2
    MaxChunk = 2
    MaxHidden = 2
    COLUMNS <- MCColumns
    Others <- MCOthers
    Truncatable = {"name", "x", "y"}
    LabelWidth <- MCLabelWidth
    MaxColumns = 3
    MinCell = 4
    NoticeWidth = 8
    NoLimit = NoLimit
    Scale <- MCScale
    MaxAmount = 60
    MaxUnits = 400
    MaxProduct = 8388607
    PriceDigits = 2
    MsatsPerBtc = 1000
    CentsPerUsd = 10
    Days = 3
    Bars = 4
    Tasks <- MCTasks
INVARIANTS
    TerminalIsKept
    StoryIsTrue
    ViewIsHonest
PROPERTIES
    InterruptEnds
