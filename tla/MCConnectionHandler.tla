------------------------ MODULE MCConnectionHandler ------------------------
(* Two connections, each serving up to MCMaxCommands commands.  The        *)
(* multi-statement scripts pair a statement that changes the transaction   *)
(* or autocommit state with one that takes a shared lock or opens a        *)
(* transaction, so that flags must be both set and cleared across          *)
(* statements, and a lock of one connection can meet the other.            *)
EXTENDS ConnectionHandler, TLC

CONSTANTS c1, c2

MCConns == {c1, c2}

MCScripts == {<<"autocommit_off", "get_lock">>,
              <<"begin", "autocommit_on">>}

MCMaxCommands == 4

\* Connections are interchangeable: every property quantifies over all.
MCSymmetry == Permutations(MCConns)
=============================================================================
