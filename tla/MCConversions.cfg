\* Every pair of wire-typed bindings, in every map order; every small query
\* under every logging setting; every small row on both consumer paths.
CONSTANTS
    k1 = k1
    k2 = k2
    Keys <- MCKeys
    QueryBytes <- MCQueryBytes
    MaxQueryLen = 4
    MaxLens <- MCMaxLens
    MaxColumns = 3
SYMMETRY MCSymmetry
SPECIFICATION MCSpec
INVARIANTS
    TypeOK
    CoercionMatchesTable
    LoggedQueryAsSpecified
    WireRowsAsSpecified
