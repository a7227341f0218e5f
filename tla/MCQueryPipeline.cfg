\* Row and Row2 iterators, a positive read timeout, no KILL.
CONSTANTS
    RowsBatch <- MCRowsBatch
    ChanCap <- MCChanCap
    MaxRows <- MCMaxRows
    OkAffected <- MCOkAffected
    ReadTimeout = 1
    Node2Modes = {FALSE, TRUE}
    KillEnabled = FALSE
    CloseResults = {"none", "close"}
    MixedResults = FALSE
SPECIFICATION Spec
INVARIANTS
    TypeOK
    ResultComplete
    IterNeverLeaked
    NoProcessLeak
    ErrorNeverLost
PROPERTIES
    QueryTerminates
    ImplementsLifecycle
