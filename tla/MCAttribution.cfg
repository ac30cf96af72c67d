SPECIFICATION Spec
CONSTANTS
    Window = 11
    Grace = 2
    SkewMax = 3
    SkewMin = 6
    Attempts = 3
    DeliverIn <- MCDeliverIn
    OpenIn <- MCOpenIn
    CaptureIn <- MCCaptureIn
    StartIn <- MCStartIn
    CompleteIn <- MCCompleteIn
    FailIn <- MCFailIn
    RetryIn <- MCRetryIn
    ReceiveIn <- MCReceiveIn
    OfflineIn <- MCOfflineIn
    SyncIn <- MCSyncIn
    SkewIn <- MCSkewIn
INVARIANTS
    TypeOK
    LabelIsCause
    BlameIsEarned
PROPERTIES
    LabelSharpens
CHECK_DEADLOCK FALSE
