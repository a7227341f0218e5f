---------------------------- MODULE MCShowNodes ----------------------------
(* Two processes, each reading up to two tables of up to two partitions,  *)
(* so that every map the node ranges over can hold two keys in either     *)
(* order; two databases named so that "mysql" sorts between them          *)
(* ("information_schema" < "mysql" < "test").                             *)
EXTENDS ShowNodes, TLC

CONSTANTS p1, p2

MCPids          == {p1, p2}
MCProgressNames == {1, 2}
MCParts         == {1, 2}
MCDBNames       == {1, 3}   \* information_schema, test
MCMySQL         == 2

\* Processes are interchangeable: no definition compares two of them.
MCSymmetry == Permutations(MCPids)
=============================================================================
