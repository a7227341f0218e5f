\* Two connections with every command, failures of every step of doQuery,
\* and a ConnectionClosed whose NewContextWithQuery may fail.
CONSTANTS
    c1 = c1
    c2 = c2
    Conns <- MCConns
    Scripts <- MCScripts
    DisableMultiStmts = FALSE
    CloseCtxFails = {FALSE, TRUE}
    MaxCommands <- MCMaxCommands
SYMMETRY MCSymmetry
SPECIFICATION Spec
INVARIANTS
    FlagsMatchSession
    TeardownComplete
