---------------------------- MODULE MCConversions ----------------------------
(* The handler's conversions, each behaviour exercising one of them:       *)
(*   - bindingsToExprs on two bind variables, each of every wire type with *)
(*     a value that parses or not, in either map order (BindVars);        *)
(*   - the query rendered for the logger, for every query of up to four   *)
(*     bytes of "a", space, tab and newline (so two runs of whitespace    *)
(*     fit) and limits below, at and above those lengths (WireFormat);    *)
(*   - rowToSQL, row2ToSQL and schemaToFields on every row of up to three *)
(*     columns (WireFormat).                                              *)
(* The two modules share no state: a behaviour of one leaves the other in *)
(* its initial state, so the state spaces add up rather than multiply.    *)
EXTENDS BindVars, WireFormat, TLC

CONSTANTS k1, k2

MCKeys == {k1, k2}

\* The names are interchangeable.
MCSymmetry == Permutations(MCKeys)

MCQueryBytes == {97, 32, 9, 10, 255}
MCMaxLens    == {-1, 0, 2, 3}

VARIABLE part   \* which conversion the behaviour exercises

MCInit ==
    \/ part = "bindings" /\ Init /\ wIn = (CHOOSE i \in LogInputs : TRUE)
       /\ wOut = <<>> /\ wDone = FALSE
    \/ part = "wire" /\ WireInit
       /\ bindings = [k \in Keys |-> [type |-> "NULL_TYPE", parses |-> TRUE]]
       /\ pending = Keys /\ res = [k \in {} |-> NoError] /\ err = NoError

MCNext ==
    \/ part = "bindings" /\ Next /\ UNCHANGED <<wireVars, part>>
    \/ part = "wire" /\ WireNext /\ UNCHANGED <<vars, part>>

MCSpec == MCInit /\ [][MCNext]_<<vars, wireVars, part>>
=============================================================================
