SPECIFICATION Spec
CONSTANTS
    Copies <- MCCopies
    Ids <- MCIds
    Prompts <- MCPrompts
    NoPrompt = NoPrompt
    IdOf <- MCIdOf
    Rank <- MCRank
    UploadDay <- MCUploadDay
    EventDate <- MCEventDate
    ClientRank <- MCClientRank
    PromptOf <- MCPromptOf
    SentEvent <- MCSentEvent
    Receipts <- MCReceipts
    LastDay = 6
    Throughs <- MCThroughs
    Lookback = 3
    Margin = 2
    Late = 1
    Ahead = 1
INVARIANTS
    TypeOK
    OneCopyPerEvent
    EvidenceConverges
    DailyBuildIsFullBuild
PROPERTIES
    FinalNeverChanges
    StatusOnlyAdvances

