\* ConnectionClosed on a connection that took the named lock or LOCK TABLES,
\* when its NewContextWithQuery fails.
CONSTANTS
    c1 = c1
    c2 = c2
    Conns <- MCConns
    Scripts <- MCScripts
    DisableMultiStmts = FALSE
    CloseCtxFails = {FALSE, TRUE}
    MaxCommands <- MCMaxCommands
SYMMETRY MCSymmetry
SPECIFICATION Spec
INVARIANT
    LocksReleasedOnClose
