\* KILL QUERY cancels the query context while rows are still streamed.
CONSTANTS
    RowsBatch <- MCRowsBatch
    ChanCap <- MCChanCap
    MaxRows <- MCMaxRows
    OkAffected <- MCOkAffected
    ReadTimeout = 1
    Node2Modes = {FALSE}
    KillEnabled = TRUE
    CloseResults = {"none"}
    MixedResults = FALSE
SPECIFICATION Spec
INVARIANTS
    ResultComplete
