\* Every order of every map the two nodes range over, against the state
\* they render.
CONSTANTS
    p1 = p1
    p2 = p2
    Pids <- MCPids
    ProgressNames <- MCProgressNames
    Parts <- MCParts
    DBNames <- MCDBNames
    MySQL <- MCMySQL
SYMMETRY MCSymmetry
SPECIFICATION Spec
INVARIANTS
    TypeOK
    ProcessListRowsMatchState
    DatabasesSortedComplete
