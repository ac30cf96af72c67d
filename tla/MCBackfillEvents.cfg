SPECIFICATION Spec
CONSTANTS
    Copies <- MCCopies
    Ids <- MCIds
    Prompts = {"p"}
    NoPrompt = NoPrompt
    IdOf <- MCIdOf
    Rank <- MCRank
    UploadDay <- MCUploadDay
    EventDate <- MCEventDate
    ClientRank <- MCClientRank
    PromptOf <- MCPromptOf
    SentEvent <- MCSentEvent
    Receipts = {"receipt"}
    LastDay = 7
    Throughs = {0, 1, 2, 3, 4, 5, 6, 7}
    Lookback = 5
    Margin = 5
    Late = 3
    Ahead = 1
INVARIANT
    BackfillLosesNoEvent
