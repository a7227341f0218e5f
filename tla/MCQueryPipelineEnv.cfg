\* No read timeout and KILL QUERY enabled.  A query whose consumer drains an
\* already-fired timer stops for good (run pipeline_hang), so deadlock is not
\* checked here; the invariants are about the states doQuery returns in.
\* The channel holds one batch, so the producer can outrun a consumer that
\* has returned.
CONSTANTS
    RowsBatch <- MCRowsBatch
    ChanCap <- MCChanCapSmall
    MaxRows <- MCMaxRows
    OkAffected <- MCOkAffected
    ReadTimeout = 0
    Node2Modes = {FALSE, TRUE}
    KillEnabled = TRUE
    CloseResults = {"none", "close"}
    MixedResults = FALSE
SPECIFICATION Spec
INVARIANTS
    IterNeverLeaked
    NoProcessLeak
    ErrorNeverLost
    ProducerStopsAfterCancel
CHECK_DEADLOCK FALSE
