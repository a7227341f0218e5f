\* RowIter iterators that mix an OkResult row with data rows.  Where the
\* consumer detects the mix it panics, which ends the server process: the
\* model's consumer then takes no step, so CHECK_DEADLOCK is off.
CONSTANTS
    RowsBatch <- MCRowsBatch
    ChanCap <- MCChanCap
    MaxRows <- MCMaxRows
    OkAffected <- MCOkAffected
    ReadTimeout = 1
    Node2Modes = {FALSE}
    KillEnabled = FALSE
    CloseResults = {"none"}
    MixedResults = TRUE
SPECIFICATION Spec
INVARIANTS
    OkResultMixingDetected
CHECK_DEADLOCK FALSE
