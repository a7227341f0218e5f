\* With no read timeout the consumer waits on the timer it has just drained.
CONSTANTS
    RowsBatch <- MCRowsBatch
    ChanCap <- MCChanCap
    MaxRows <- MCMaxRows
    OkAffected <- MCOkAffected
    ReadTimeout = 0
    Node2Modes = {FALSE}
    KillEnabled = FALSE
    CloseResults = {"none"}
    MixedResults = FALSE
SPECIFICATION Spec
PROPERTIES
    QueryTerminates
CHECK_DEADLOCK FALSE
