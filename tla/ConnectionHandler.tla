------------------------- MODULE ConnectionHandler -------------------------
(***************************************************************************)
(* The protocol entry points of Handler (src/server/handler.go) over      *)
(* several connections that share the session manager, the process list, *)
(* the named-lock subsystem and the catalog's table locks.                *)
(*                                                                         *)
(* The protocol layer serves each connection's commands one at a time:    *)
(* NewConnection, then ComQuery / ComMultiQuery / ComStmtExecute /        *)
(* ComInitDB / ComPrepare, then ConnectionClosed.  A query command runs   *)
(* errorWrappedDoQuery -> doQuery once per statement; its pipeline (the   *)
(* module QueryPipeline, abstracted by QueryLifecycle) is one step here   *)
(* that either fails or succeeds, having applied the statement to the     *)
(* session or not.  A statement is one of a few kinds that differ in what *)
(* they do to the session and to the shared locks.                        *)
(***************************************************************************)
EXTENDS Naturals, Sequences, FiniteSets

CONSTANTS
    Conns,            \* connection ids
    Scripts,          \* statement sequences a ComMultiQuery may carry
    DisableMultiStmts, \* h.disableMultiStmts
    CloseCtxFails,    \* may ConnectionClosed's NewContextWithQuery fail
    MaxCommands       \* bound on the commands served, all connections together

NoConn    == "noconn"
NoError   == "none"
Unset     == "unset"     \* no query command has returned yet
Err       == "error"     \* any error: the properties tell nil from non-nil

\* Statement kinds, by what executing one does to the session.
Stmts == {"select", "autocommit_off", "autocommit_on", "begin", "commit",
          "get_lock", "lock_tables"}

ASSUME /\ NoConn \notin Conns
       /\ Scripts \subseteq Seq(Stmts) /\ <<>> \notin Scripts
       /\ DisableMultiStmts \in BOOLEAN
       /\ CloseCtxFails \subseteq BOOLEAN /\ FALSE \in CloseCtxFails
       /\ MaxCommands \in Nat

VARIABLES
    cpc,          \* per connection: "unconnected", "idle", "query", "exec",
                  \* "closed"
    multiOff,     \* c.DisableClientMultiStatements
    flags,        \* c.StatusFlags: the Autocommit and InTransaction bits
    sessions,     \* connections the session manager holds a session for
    sess,         \* the session of each connection
    stmts,        \* the statements left in the current command (remainder)
    hasBindings,  \* the current command carries bind variables
    procs,        \* connections with an entry in the process list
    prepared,     \* the engine caches a prepared plan for the connection
    lockOwner,    \* owner of the named lock (GET_LOCK), or NoConn
    lockedTables, \* connections holding LOCK TABLES locks in the catalog
    disconnected, \* sel.ClientDisconnected has been reported
    obs,          \* what observeQuery recorded for the last observed query
    qres,         \* the error the last doQuery returned
    served        \* commands served so far

vars == <<cpc, multiOff, flags, sessions, sess, stmts, hasBindings, procs,
          prepared, lockOwner, lockedTables, disconnected, obs, qres, served>>

Session == [autocommit : BOOLEAN, inTxn : BOOLEAN]
Flags   == [autocommit : BOOLEAN, inTxn : BOOLEAN]

NewSession == [autocommit |-> TRUE, inTxn |-> FALSE]

-----------------------------------------------------------------------------
(* Statements and the handler's helpers. *)

\* What executing statement s of connection c does to its session and to
\* the shared named lock: autocommit = 1 commits an open transaction, a
\* statement run with autocommit off opens one, GET_LOCK takes a free lock
\* (it returns 0 when another connection holds it).
Execute(c, s) ==
    LET t == sess[c]
    IN /\ sess' = [sess EXCEPT ![c] =
              CASE s = "autocommit_off" -> [t EXCEPT !.autocommit = FALSE]
                [] s = "autocommit_on"  -> [t EXCEPT !.autocommit = TRUE,
                                                     !.inTxn = FALSE]
                [] s = "begin"          -> [t EXCEPT !.inTxn = TRUE]
                [] s = "commit"         -> [t EXCEPT !.inTxn = FALSE]
                [] OTHER -> [t EXCEPT !.inTxn = @ \/ ~t.autocommit]]
       /\ lockOwner' = IF s = "get_lock" /\ lockOwner = NoConn THEN c
                                                                ELSE lockOwner
       /\ lockedTables' = IF s = "lock_tables" THEN lockedTables \cup {c}
                                               ELSE lockedTables

\* Mutant: the bits are set from the session but never cleared.
SetConnStatusFlagsSetOnly(c) ==
    flags' = [flags EXCEPT ![c] =
                [autocommit |-> @.autocommit \/ sess'[c].autocommit,
                 inTxn |-> @.inTxn \/ sess'[c].inTxn]]

\* setConnStatusFlags: each bit is set or cleared from the session.
SetConnStatusFlags(c) ==
    flags' = [flags EXCEPT ![c] = [autocommit |-> sess'[c].autocommit,
                                   inTxn |-> sess'[c].inTxn]]

\* finish := observeQuery(ctx, query); defer finish(err): the deferred call's
\* argument is evaluated when the defer statement runs, where err is still
\* the nil of NewContext, so finish records a success whatever doQuery
\* returns.
ObserveFinish(observed) ==
    IF observed THEN "ok" ELSE "none"

\* doQuery returns e for the statement at the head of stmts[c], through
\* errorWrappedDoQuery; the protocol layer calls ComMultiQuery again with
\* the remainder while there is one and the statement succeeded.
Finish(c, e, observed) ==
    /\ qres' = [qres EXCEPT ![c] = e]
    /\ obs' = [obs EXCEPT ![c] = ObserveFinish(observed)]
    /\ stmts' = [stmts EXCEPT ![c] = Tail(@)]
    /\ hasBindings' = [hasBindings EXCEPT ![c] = FALSE]
    /\ cpc' = [cpc EXCEPT ![c] = IF e = NoError /\ Len(stmts[c]) > 1
                                 THEN "query" ELSE "idle"]

Serving(c) == cpc[c] = "idle" /\ served < MaxCommands

CountCommand == served' = served + 1

-----------------------------------------------------------------------------
Init ==
    /\ cpc = [c \in Conns |-> "unconnected"]
    /\ multiOff = [c \in Conns |-> FALSE]
    /\ flags = [c \in Conns |-> [autocommit |-> FALSE, inTxn |-> FALSE]]
    /\ sessions = {}
    /\ sess = [c \in Conns |-> NewSession]
    /\ stmts = [c \in Conns |-> <<>>]
    /\ hasBindings = [c \in Conns |-> FALSE]
    /\ procs = {}
    /\ prepared = [c \in Conns |-> FALSE]
    /\ lockOwner = NoConn
    /\ lockedTables = {}
    /\ disconnected = [c \in Conns |-> FALSE]
    /\ obs = [c \in Conns |-> "none"]
    /\ qres = [c \in Conns |-> Unset]
    /\ served = 0

-----------------------------------------------------------------------------
(* Connection lifecycle and the commands that do not run a query. *)

\* sel.ClientConnected; sm.AddConn; c.DisableClientMultiStatements is set.
NewConnection(c) ==
    /\ cpc[c] = "unconnected"
    /\ cpc' = [cpc EXCEPT ![c] = "idle"]
    /\ sessions' = sessions \cup {c}
    /\ sess' = [sess EXCEPT ![c] = NewSession]
    /\ multiOff' = [multiOff EXCEPT ![c] = DisableMultiStmts]
    /\ UNCHANGED <<flags, stmts, hasBindings, procs, prepared, lockOwner,
                   lockedTables, disconnected, obs, qres, served>>

\* sm.SetDB: switches the session's current database (which no property
\* reads), or fails for an unknown one.
ComInitDB(c) ==
    /\ Serving(c)
    /\ CountCommand
    /\ UNCHANGED <<cpc, multiOff, flags, sessions, sess, stmts, hasBindings,
                   procs, prepared, lockOwner, lockedTables, disconnected, obs,
                   qres>>

\* NewContextWithQuery or PrepareQuery may fail; otherwise the engine caches
\* the prepared plan under the connection id (the fields it returns, or nil
\* for an OkResult schema, change no state).
ComPrepare(c) ==
    /\ Serving(c)
    /\ \/ UNCHANGED prepared
       \/ prepared' = [prepared EXCEPT ![c] = TRUE]
    /\ CountCommand
    /\ UNCHANGED <<cpc, multiOff, flags, sessions, sess, stmts, hasBindings,
                   procs, lockOwner, lockedTables, disconnected, obs, qres>>

\* The release steps of ConnectionClosed: LS.ReleaseAll and
\* Catalog.UnlockTables need the context of NewContextWithQuery and are
\* skipped when it fails (their own errors are logged and ignored).
ReleaseSessionLocks(c, ctxFails) ==
    IF ctxFails
    THEN UNCHANGED <<lockOwner, lockedTables>>
    ELSE /\ lockOwner' = IF lockOwner = c THEN NoConn ELSE lockOwner
         /\ lockedTables' = lockedTables \ {c}

\* Mutant: CloseSession and RemoveConn run only when the context was made.
ConnectionClosedNoDefer(c) ==
    /\ cpc[c] = "idle"
    /\ \E ctxFails \in CloseCtxFails :
          /\ ReleaseSessionLocks(c, ctxFails)
          /\ prepared' = [prepared EXCEPT ![c] = IF ctxFails THEN @ ELSE FALSE]
          /\ sessions' = IF ctxFails THEN sessions ELSE sessions \ {c}
    /\ disconnected' = [disconnected EXCEPT ![c] = TRUE]
    /\ cpc' = [cpc EXCEPT ![c] = "closed"]
    /\ UNCHANGED <<multiOff, flags, sess, stmts, hasBindings, procs, obs,
                   qres, served>>

\* The locks are released as far as a context can be made, then the
\* deferred e.CloseSession, sm.RemoveConn and sel.ClientDisconnected run.
ConnectionClosed(c) ==
    /\ cpc[c] = "idle"
    /\ \E ctxFails \in CloseCtxFails : ReleaseSessionLocks(c, ctxFails)
    /\ prepared' = [prepared EXCEPT ![c] = FALSE]
    /\ sessions' = sessions \ {c}
    /\ disconnected' = [disconnected EXCEPT ![c] = TRUE]
    /\ cpc' = [cpc EXCEPT ![c] = "closed"]
    /\ UNCHANGED <<multiOff, flags, sess, stmts, hasBindings, procs, obs,
                   qres, served>>

-----------------------------------------------------------------------------
(* Query commands: errorWrappedDoQuery -> doQuery, once per statement. *)

StartCommand(c, script, binds) ==
    /\ Serving(c)
    /\ cpc' = [cpc EXCEPT ![c] = "query"]
    /\ stmts' = [stmts EXCEPT ![c] = script]
    /\ hasBindings' = [hasBindings EXCEPT ![c] = binds]
    /\ CountCommand
    /\ UNCHANGED <<multiOff, flags, sessions, sess, procs, prepared,
                   lockOwner, lockedTables, disconnected, obs, qres>>

\* MultiStmtModeOff, no bind variables: one statement.
ComQuery(c) == \E s \in Stmts : StartCommand(c, <<s>>, FALSE)

\* MultiStmtModeOn: the protocol layer sends it only to connections that
\* accept client multi-statements.
ComMultiQuery(c) ==
    /\ ~multiOff[c]
    /\ \E script \in Scripts : StartCommand(c, script, FALSE)

\* A prepared statement executed with its bind variables.
ComStmtExecute(c) ==
    /\ prepared[c]
    /\ \E s \in Stmts : StartCommand(c, <<s>>, TRUE)

\* doQuery up to BeginQuery: NewContext fails before observeQuery; parsing
\* (ParseOne, then Parse) or bindingsToExprs fails after it; otherwise the
\* query is registered in the shared process list.
DoQueryStart(c) ==
    /\ cpc[c] = "query"
    /\ \/ Finish(c, Err, FALSE) /\ UNCHANGED procs
       \/ Finish(c, Err, TRUE) /\ UNCHANGED procs
       \/ hasBindings[c] /\ Finish(c, Err, TRUE) /\ UNCHANGED procs
       \/ /\ procs' = procs \cup {c}
          /\ cpc' = [cpc EXCEPT ![c] = "exec"]
          /\ UNCHANGED <<stmts, hasBindings, obs, qres>>
    /\ UNCHANGED <<multiOff, flags, sessions, sess, prepared, lockOwner,
                   lockedTables, disconnected, served>>

\* The pipeline and the rest of doQuery.  The process entry is gone when
\* doQuery returns (QueryPipeline's NoProcessLeak).  A failing pipeline
\* may have executed the statement already (the error came from the
\* callback, the poller or Close); then the status flags are not touched.
\* On success setConnStatusFlags runs (it fails if the autocommit variable
\* cannot be read) before the last callback, which may fail in its turn.
DoQueryRun(c) ==
    /\ cpc[c] = "exec"
    /\ procs' = procs \ {c}
    /\ \/ /\ \/ Execute(c, Head(stmts[c]))
             \/ UNCHANGED <<sess, lockOwner, lockedTables>>
          /\ Finish(c, Err, TRUE)
          /\ UNCHANGED flags
       \/ /\ Execute(c, Head(stmts[c]))
          /\ \/ Finish(c, Err, TRUE) /\ UNCHANGED flags
             \/ SetConnStatusFlags(c) /\ Finish(c, NoError, TRUE)
             \/ SetConnStatusFlags(c) /\ Finish(c, Err, TRUE)
    /\ UNCHANGED <<multiOff, sessions, prepared, disconnected, served>>

\* Every connection is closed: nothing is left to do.
AllClosed ==
    /\ \A c \in Conns : cpc[c] = "closed"
    /\ UNCHANGED vars

Next ==
    \/ \E c \in Conns :
          \/ NewConnection(c) \/ ComInitDB(c) \/ ComPrepare(c)
          \/ ComQuery(c) \/ ComMultiQuery(c) \/ ComStmtExecute(c)
          \/ DoQueryStart(c) \/ DoQueryRun(c) \/ ConnectionClosed(c)
    \/ AllClosed

Spec == Init /\ [][Next]_vars

-----------------------------------------------------------------------------
(* Properties. *)

\* After a query command returned nil, the connection's status flags tell
\* the client the session's autocommit and in-transaction state, across
\* any history of statements, failed ones included (setConnStatusFlags,
\* spec §4.D).
FlagsMatchSession ==
    \A c \in Conns :
        cpc[c] = "idle" /\ qres[c] = NoError =>
            flags[c] = [autocommit |-> sess[c].autocommit,
                        inTxn |-> sess[c].inTxn]

\* ConnectionClosed tears the connection down whatever fails on the way:
\* its session is removed, the engine's cached plans are dropped, the
\* disconnect is reported and it has no process entry (spec §5).
TeardownComplete ==
    \A c \in Conns :
        cpc[c] = "closed" =>
            /\ c \notin sessions
            /\ ~prepared[c]
            /\ disconnected[c]
            /\ c \notin procs

\* A closed connection holds no named lock and no table lock, so it can
\* never block another connection's GET_LOCK or LOCK TABLES (spec §5:
\* locks are released on ConnectionClosed, each step runs even if earlier
\* steps fail).
LocksReleasedOnClose ==
    \A c \in Conns :
        cpc[c] = "closed" => lockOwner # c /\ c \notin lockedTables

\* The query metrics of observeQuery count a query as failed exactly when
\* doQuery returned an error for it.
QueryMetricsMatchOutcome ==
    \A c \in Conns :
        obs[c] # "none" => (obs[c] = "error") = (qres[c] = Err)

=============================================================================
