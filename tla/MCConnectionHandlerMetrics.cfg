\* The query metrics against the outcome doQuery returns.
CONSTANTS
    c1 = c1
    c2 = c2
    Conns <- MCConns
    Scripts <- MCScripts
    DisableMultiStmts = FALSE
    CloseCtxFails = {FALSE, TRUE}
    MaxCommands <- MCMaxCommands
SYMMETRY MCSymmetry
SPECIFICATION Spec
INVARIANT
    QueryMetricsMatchOutcome
