----------------------------- MODULE ShowNodes -----------------------------
(***************************************************************************)
(* The plan nodes that render server state as rows: SHOW PROCESSLIST      *)
(* (src/sql/plan/processlist.go) over the shared process list, and SHOW   *)
(* DATABASES (src/sql/plan/showdatabases.go) over the catalog.            *)
(*                                                                         *)
(* Both read maps whose iteration order Go randomises: a process's        *)
(* Progress map and each item's partitions, the process list itself, and  *)
(* the catalog's database list.  The node is modelled for every order;    *)
(* the properties say its rows do not depend on it.  Names are numbers    *)
(* ordered as their strings are.  The process list and the catalog change *)
(* under the node as other connections run queries (their own code is not *)
(* under src/ and is modelled from the spec).                             *)
(***************************************************************************)
EXTENDS Naturals, Sequences, SequencesExt

CONSTANTS
    Pids,           \* connections with an entry in the process list
    ProgressNames,  \* names of progress items (tables being read)
    Parts,          \* names of partitions of a progress item
    DBNames,        \* database names, as ordered numbers
    MySQL           \* the name "mysql"

ASSUME /\ ProgressNames \subseteq Nat /\ Parts \subseteq Nat
       /\ DBNames \subseteq Nat /\ MySQL \in Nat \ DBNames

NULL == "NULL"

VARIABLES
    command,    \* per process: "Query" while a query runs, else "Sleep"
    db,         \* per process: its current database, "" for none
    tracked,    \* per process: the keys of its Progress map
    parts,      \* per process and item: the keys of PartitionsProgress
    dbs,        \* Catalog.AllDatabases: the databases it lists
    mysqlOk,    \* Catalog.Database(ctx, "mysql") succeeds
    plOut,      \* rows of a SHOW PROCESSLIST run in this state, or <<>>
    dbOut       \* rows of a SHOW DATABASES run in this state, or <<>>

vars == <<command, db, tracked, parts, dbs, mysqlOk, plOut, dbOut>>

-----------------------------------------------------------------------------
(* SHOW PROCESSLIST *)

\* A process's State column: the rendered progress items, or "running".
ProcState == [items : Seq([name : ProgressNames, children : Seq(Parts)]),
              running : BOOLEAN]

Row == [id : Pids, db : {NULL, "db"}, command : {"Query", "Sleep"},
        state : ProcState]

\* Mutant: the empty database name is shown as it is.
ToRowNoNull(p, state) ==
    [id |-> p, db |-> db[p], command |-> command[p], state |-> state]

\* process.toRow: an empty database name becomes NULL.
ToRow(p, state) ==
    [id |-> p, db |-> IF db[p] # "" THEN db[p] ELSE NULL,
     command |-> command[p], state |-> state]

\* Mutant: the progress names are rendered in map order.
ProcessStateUnsortedNames(p, names, children) ==
    LET status == [i \in 1..Len(names) |->
                     [name |-> names[i],
                      children |-> SortSeq(children[names[i]], <)]]
    IN [items |-> status,
        running |-> status = <<>> /\ command[p] = "Query"]

\* The State of process p, given the order in which ranging over Progress
\* produced the names and over each item's PartitionsProgress the
\* children: both are sorted, and an idle query reads "running".
ProcessState(p, names, children) ==
    LET sorted == SortSeq(names, <)
        status == [i \in 1..Len(sorted) |->
                     [name |-> sorted[i],
                      children |-> SortSeq(children[sorted[i]], <)]]
    IN [items |-> status,
        running |-> status = <<>> /\ command[p] = "Query"]

\* The order Go ranges over a map with keys S in: every order of S is the
\* restriction of some order of the whole key space K to S.
InMapOrder(ord, S) == SelectSeq(ord, LAMBDA x : x \in S)

\* ShowProcessList.RowIter: one row per process of Processes(), in the
\* process list's own order, each process's Progress and each item's
\* PartitionsProgress ranged over in an order of their own.
ShowProcessList ==
    /\ \E order \in SetToSeqs(Pids),
          names \in [Pids -> SetToSeqs(ProgressNames)],
          children \in [Pids -> [ProgressNames -> SetToSeqs(Parts)]] :
          plOut' = [i \in 1..Len(order) |->
                     LET p == order[i]
                     IN ToRow(p, ProcessState(p, InMapOrder(names[p], tracked[p]),
                                  [n \in ProgressNames |->
                                     InMapOrder(children[p][n], parts[p][n])]))]
    /\ UNCHANGED <<command, db, tracked, parts, dbs, mysqlOk, dbOut>>

-----------------------------------------------------------------------------
(* SHOW DATABASES *)

\* Mutant: the rows are left in catalog order.
DatabaseRowsUnsorted(listed) ==
    listed \o (IF mysqlOk THEN <<MySQL>> ELSE <<>>)

\* The listed databases, "mysql" if the catalog resolves it, sorted.
DatabaseRows(listed) ==
    SortSeq(listed \o (IF mysqlOk THEN <<MySQL>> ELSE <<>>), <)

\* ShowDatabases.RowIter over AllDatabases in whatever order it lists them.
ShowDatabases ==
    /\ \E all \in SetToSeqs(DBNames) :
          dbOut' = DatabaseRows(InMapOrder(all, dbs))
    /\ UNCHANGED <<command, db, tracked, parts, dbs, mysqlOk, plOut>>

-----------------------------------------------------------------------------
(* The process list and the catalog as other connections change them      *)
(* (ProcessList and Catalog are not under src/; from spec §3, §4.C).      *)
(* A change makes earlier output stale, so the outputs are cleared.       *)

ClearOutputs == plOut' = <<>> /\ dbOut' = <<>>

\* ProcessList.BeginQuery: the connection's entry starts a query.
BeginQuery(p) ==
    /\ ClearOutputs
    /\ command[p] = "Sleep"
    /\ command' = [command EXCEPT ![p] = "Query"]
    /\ UNCHANGED <<db, tracked, parts, dbs, mysqlOk>>

\* ProcessList.EndQuery: the entry goes idle and its progress is dropped.
EndQuery(p) ==
    /\ ClearOutputs
    /\ command[p] = "Query"
    /\ command' = [command EXCEPT ![p] = "Sleep"]
    /\ tracked' = [tracked EXCEPT ![p] = {}]
    /\ parts' = [parts EXCEPT ![p] = [n \in ProgressNames |-> {}]]
    /\ UNCHANGED <<db, dbs, mysqlOk>>

\* A running query starts reading table n.
AddTableProgress(p, n) ==
    /\ ClearOutputs
    /\ command[p] = "Query" /\ n \notin tracked[p]
    /\ tracked' = [tracked EXCEPT ![p] = @ \cup {n}]
    /\ UNCHANGED <<command, db, parts, dbs, mysqlOk>>

\* ... and partition k of that table.
AddPartitionProgress(p, n, k) ==
    /\ ClearOutputs
    /\ n \in tracked[p] /\ k \notin parts[p][n]
    /\ parts' = [parts EXCEPT ![p][n] = @ \cup {k}]
    /\ UNCHANGED <<command, db, tracked, dbs, mysqlOk>>

\* CREATE DATABASE and DROP DATABASE on another connection.
CreateDatabase(d) ==
    /\ ClearOutputs
    /\ d \notin dbs /\ dbs' = dbs \cup {d}
    /\ UNCHANGED <<command, db, tracked, parts, mysqlOk>>

DropDatabase(d) ==
    /\ ClearOutputs
    /\ d \in dbs /\ dbs' = dbs \ {d}
    /\ UNCHANGED <<command, db, tracked, parts, mysqlOk>>

-----------------------------------------------------------------------------
Init ==
    /\ command = [p \in Pids |-> "Sleep"]
    /\ db \in [Pids -> {"", "db"}]
    /\ tracked = [p \in Pids |-> {}]
    /\ parts = [p \in Pids |-> [n \in ProgressNames |-> {}]]
    /\ dbs \in SUBSET DBNames
    /\ mysqlOk \in BOOLEAN
    /\ plOut = <<>>
    /\ dbOut = <<>>

Next ==
    \/ \E p \in Pids :
          \/ BeginQuery(p) \/ EndQuery(p)
          \/ \E n \in ProgressNames :
                \/ AddTableProgress(p, n)
                \/ \E k \in Parts : AddPartitionProgress(p, n, k)
    \/ \E d \in DBNames : CreateDatabase(d) \/ DropDatabase(d)
    \/ ShowProcessList
    \/ ShowDatabases

Spec == Init /\ [][Next]_vars

-----------------------------------------------------------------------------
(* Properties. *)

TypeOK ==
    /\ command \in [Pids -> {"Query", "Sleep"}]
    /\ db \in [Pids -> {"", "db"}]
    /\ tracked \in [Pids -> SUBSET ProgressNames]
    /\ parts \in [Pids -> [ProgressNames -> SUBSET Parts]]
    /\ dbs \subseteq DBNames /\ mysqlOk \in BOOLEAN
    /\ plOut \in Seq(Row)
    /\ dbOut \in Seq(DBNames \cup {MySQL})

\* The State column the spec describes for a process (§3): its progress
\* items by name, each with its partitions by name, or "running" for a
\* query that reports no progress yet.
ReferenceState(p) ==
    LET ns == SetToSortSeq(tracked[p], <)
    IN [items |-> [i \in 1..Len(ns) |->
                     [name |-> ns[i],
                      children |-> SetToSortSeq(parts[p][ns[i]], <)]],
        running |-> tracked[p] = {} /\ command[p] = "Query"]

\* SHOW PROCESSLIST shows each process once, with its database or NULL
\* and the State the spec describes, whatever order Go ranges over the
\* process list, the Progress and the PartitionsProgress maps in: the same
\* process list always renders the same rows.
ProcessListRowsMatchState ==
    plOut # <<>> =>
        /\ Len(plOut) = Cardinality(Pids)
        /\ ToSet(plOut) = {ToRow(p, ReferenceState(p)) : p \in Pids}

\* SHOW DATABASES lists every database of the catalog and "mysql" when the
\* catalog resolves it, each once and in name order, whatever order
\* AllDatabases returns them in.
DatabasesSortedComplete ==
    dbOut # <<>> =>
        dbOut = SetToSortSeq(dbs \cup (IF mysqlOk THEN {MySQL} ELSE {}), <)

=============================================================================
