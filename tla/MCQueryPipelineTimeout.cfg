\* A positive read timeout and a slow callback.
CONSTANTS
    RowsBatch <- MCRowsBatch
    ChanCap <- MCChanCap
    MaxRows <- MCMaxRows
    OkAffected <- MCOkAffected
    ReadTimeout = 1
    Node2Modes = {FALSE}
    KillEnabled = FALSE
    CloseResults = {"none"}
    MixedResults = FALSE
SPECIFICATION Spec
PROPERTIES
    RowTimeoutOnlyWhenIdle
