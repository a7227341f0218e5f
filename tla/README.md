# TLA+ models of the go-mysql-server query handler

These modules model `src/server/handler.go`, the MySQL-protocol handler that
turns one client command into a managed query execution. They also model the
plan nodes under `src/sql/plan/` that render server state as rows. All modules
are checked with TLC. `PROJECT.json` has the machine-readable inventory:
components, runs, mutants, the definition-to-source map, findings and hazards.

## 1. Inventory

### Components

| Component | Source | State it keeps | Operations |
|---|---|---|---|
| Row streaming pipeline | `handler.go:284-579` (`doQuery`) | rowChan (capacity 512), current result batch `r`, `processedAtLeastOneBatch`, the consumer's `time.Timer`, errgroup context and first error, a `sync.WaitGroup` | producer loop (RowIter and RowIter2 variants), consumer loop (batch flush, select on ctx/row/timer, timer stop-drain-reset), joiner (`wg.Wait`, `rowIter.Close`), `eg.Wait`, final callback |
| Socket liveness poller | `handler.go:638-697` | its own timer, socket inode and port | not-TCP exit, periodic `GetInodeSockState`: Broken ends with an error, Error ends quietly |
| Process-list registrar | `handler.go:347-357, 539-544`; `ProcessList` lives outside `src/` | the query's entry | `BeginQuery`, deferred `EndQuery` on error, `EndQuery` via the tracked iterator's `Close`, `KILL QUERY` cancelling the query context |
| Status-flag updater | `handler.go:582-608` | `c.StatusFlags` bits Autocommit and InTransaction | set or clear each bit from the session after a successful query |
| Facade | `handler.go:80-174, 611-633, 716-722, 791-805` | session manager map, `DisableClientMultiStatements`, metrics | `NewConnection`, `ComInitDB`, `ComPrepare`, `ComStmtExecute`, `ComQuery`, `ComMultiQuery` (returns the remainder), `ConnectionClosed` (best-effort teardown), `WarningCount`, `errorWrappedDoQuery`, `observeQuery` |
| Bind-value coercer | `handler.go:176-280` | none (pure) | wire type tag to literal type; unsupported tags fail |
| Query logging, wire conversion | `handler.go:282, 309-322, 724-778` | none (pure) | whitespace collapse and truncation or base64; `rowToSQL` and `row2ToSQL` (may fail); `schemaToFields` |
| SHOW nodes | `plan/processlist.go`, `plan/showdatabases.go`, `unnamed/part_000` (ShowTriggers) | none (row construction) | ShowProcessList renders process state (sorted progress, `"running"`, NULL db); ShowDatabases sorts and appends `mysql` |

### How they interact

The protocol layer calls the facade, one command at a time per connection.
`ComQuery`, `ComMultiQuery` and `ComStmtExecute` go through
`errorWrappedDoQuery` into `doQuery`. `doQuery` registers the query in the
shared process list and starts four goroutines in one errgroup. The
**producer** reads the engine's iterator into `rowChan`. The **consumer**
batches rows and calls the protocol callback for each full batch of 128. The
**poller** watches the socket. The **joiner** waits for the producer and
consumer, then closes the iterator. The iterator is a tracked iterator, so its
`Close` also ends the process-list entry (comment at `handler.go:539`). They
share the errgroup context: the first goroutine error cancels it, and so does
a `KILL QUERY` from another session. The consumer cancels the poller's
sub-context when it exits. After `eg.Wait` the handler sets the status flags
and calls the callback a last time with the remaining batch.

### What is hard

* **Interleavings of four goroutines.** Go's `select` picks at random among
  ready cases. Cancellation, rows, timer ticks and channel close can all be
  ready at once.
* **Go timer semantics.** `timer.C` has a buffer of one. `Stop` returns false
  once the timer has fired, and the code then drains `timer.C`. Whether
  something is still left to drain depends on which `select` case ran.
* **Timeouts.** The read timeout is per row. The timer keeps running during the
  callback.
* **Cancellation from outside.** `KILL QUERY` and a broken socket arrive at any
  point.
* **Cleanup on every exit path.** The iterator must be closed, the process
  entry removed, and the first error reported. These duties are split between
  the joiner, a deferred `EndQuery` and the tracked iterator.
* **Batch-boundary arithmetic.** An exact multiple of 128 rows, an empty result
  and an OkResult whose RowsAffected is 128 all need care.
* **Connection teardown.** Each step of `ConnectionClosed` must run even when
  an earlier one fails.

### Properties that make each component correct

* **Pipeline.** It terminates. On success it delivers exactly the iterator's
  rows, in order, in batches of `rowsBatch` (one empty batch for an empty
  result, none after a full last batch). It rejects an iterator that mixes
  an OkResult with data rows (spec 4.E.3). It always closes the iterator,
  never leaves the process entry behind, and never loses an error. It reports
  `ErrRowTimeout` only when the iterator was idle. It spools rows only while
  the query is registered (comment at 350-351).
* **Poller.** It ends whenever the query ends. A broken socket becomes the
  query's error.
* **Status flags.** After each successful statement the two bits mirror the
  session.
* **Facade.** After a successful statement the status flags match the
  session. `ConnectionClosed` runs every teardown step, and releases the
  connection's locks. The metrics outcome matches the returned error.
* **Coercer.** Every listed wire type maps to its literal type. Any other type
  is `ErrUnsupportedOperation`.
* **Logging and wire conversion.** The logged query is the input with each
  run of whitespace collapsed to one space, cut to the limit with `...`, or
  its base64. A row converts to NULL for each nil cell and its type's value
  for each other, or fails as a whole; both iterator paths agree.
* **SHOW nodes.** The rows do not depend on Go's map iteration order: each
  process once with its state rendered as specified, each database once in
  name order.

## 2. Modules

| Module | Models | Checked by |
|---|---|---|
| `QueryPipeline` | `doQuery` with its four goroutines, the errgroup, the timer, the poller, process-list registration and `KILL QUERY` (section 3) | `MCQueryPipeline` with seven cfgs |
| `QueryLifecycle` | the abstract promise of one query, with the goroutines hidden (section 4) | as a PROPERTY of run `pipeline` |
| `ConnectionHandler` | the facade: every command of several connections, status flags, metrics, teardown (section 5) | `MCConnectionHandler` with three cfgs |
| `BindVars` | `bindingsToExprs`: the type switch over every wire type, one binding per step in map order (section 7) | `MCConversions` |
| `WireFormat` | the query-log rendering, `rowToSQL`, `row2ToSQL` and `schemaToFields`, as RECURSIVE operators and one conversion step (section 7a) | `MCConversions` |
| `ShowNodes` | SHOW PROCESSLIST and SHOW DATABASES over a changing process list and catalog (section 6) | `MCShowNodes` |

`ConnectionHandler` composes `QueryPipeline` by its outcome: a query's
pipeline either succeeds, after which the flags are set and the last callback
may still fail, or fails, possibly after the statement already executed.
`QueryPipeline`'s `NoProcessLeak` is what lets `ConnectionHandler` remove the
process entry when the statement ends.

`MCConversions` checks `BindVars` and `WireFormat` in one run as a disjoint
union: a variable `part` picks which of the two runs, so their state spaces
add instead of multiplying. Each is a pure conversion, and a behaviour takes
one input (an initial state) through one conversion.

## 3. What is modelled and how (QueryPipeline)

State (`VARIABLES`):

* `items`, `iterEnd`, `node2` and `tcp` are fixed per query. They hold the
  iterator's rows (data rows `1..n`, or one OkResult carrying its
  RowsAffected, or, with `MixedResults`, an OkResult at any position among
  data rows), whether it ends in EOF or an error, RowIter vs RowIter2, and
  whether the socket can be inspected.
* `pos`, `ppc` and `pItem` are the producer's state. `rowChan` and
  `chanClosed` are the channel.
* `cpc`, `r` and `processed` are the consumer's state (`r` and
  `processedAtLeastOneBatch` in the code).
* `timerArmed` and `timerBuf` are the consumer's `time.Timer`: armed and
  pending, and whether the one-slot `timer.C` buffer holds a value.
* `pollPc`, `socket` and `pollCanceled` are the poller's state (the last one
  is `cancelF`).
* `jpc` is the joiner's state.
* `egErr` is the errgroup's first error. `killed` records KILL QUERY.
* `mpc`, `result` and `delivered` are doQuery's phase, its returned error, and
  the batches given to the callback.
* `closes` counts `rowIter.Close` calls. `registered` says whether the process
  entry exists.
* `lateReads` is a history variable. It counts the rows the producer read
  after the consumer had returned.
* `firedWithRowReady` is a history variable. It records that the timer fired
  while a row waited and the consumer was in the callback.

The variables are grouped as the code's actors are (`producerVars`,
`consumerVars`, `timerVars`, `pollerVars`, ...), and each action's UNCHANGED
names the groups it leaves alone.

Every branch of the goroutines is an action named after what the code does,
for example `ProducerSend`, `ConsumerReceiveRow`, `ConsumerDrainTimer` and
`PollerCheck`. `PROJECT.json` maps each definition to its lines. The parts
that are abstracted:

* Time. The consumer's timer may fire at any moment while armed. This covers
  every relation between `waitTime` and the speed of the iterator and the
  callback.
* The poller's timer loop. An Established check changes no state, so it is a
  stuttering step.
* Data. Rows are positions. Field conversion is either success or
  `rowToSQL`'s error.
* Errors before registration (NewContext, Parse, bindingsToExprs) are one
  action.

Modelled from outside `src/` (marked `spec_modelled`):

* the iterator contents (`IteratorContents`, `MixedIterators`);
* the OS socket state (`SocketChanges`);
* `KILL QUERY` (`KillQuery`).

### Bounds

`RowsBatch = 2`, `ChanCap = 3` and `MaxRows = 4`. Like the code's 128/512, the
channel holds more than one batch. Iterators of 0 to 4 rows give:

* an empty result;
* a partial single batch;
* an exact multiple of the batch (2, 4), the case where the final callback
  must be skipped;
* a partial last batch after a full one;
* a full channel with the producer blocked, for 4 rows.

Run `pipeline_env` uses `ChanCap = 2` (`MCChanCapSmall`). The channel then
fills within the four rows, so a cancelled RowIter2 producer can be seen
reading its `ChanCap + 1` rows after the consumer returned, and a RowIter
producer its one row (a cancel between its `ctx.Done()` check and `Next`);
without the check it would read all of them.

Run `pipeline_ok_mixing` adds the mixed iterators of 2 to 4 rows with the
OkResult at every position: before the first data row, inside the current
batch (the panic), and right after a flushed batch of 2.

OkResults carry RowsAffected 0 or 2 (= RowsBatch). The latter is flushed
inside the loop. Larger values add no new control path.

### Fairness

Weak fairness applies to doQuery, the producer, the consumer, the joiner and
the poller's start. Each is a goroutine that the Go scheduler runs whenever it
is runnable. `PollerCancelled` has its own weak fairness: once `ctx.Done()` is
ready it stays ready, and Go's random `select` eventually picks it even though
the poller's timer also keeps firing. The timer, the socket and KILL are the
environment and get no fairness. A query therefore never has to time out to
terminate.

## 4. The abstract query lifecycle and the refinement

`QueryLifecycle` states what `doQuery` promises the protocol layer, with the
goroutines, the channel and the timers hidden. A query either fails before it
is registered, or it is registered, gives the callback a prefix of the
batches its iterator calls for (`goal`) one at a time in order, leaves the
process list and returns. It returns nil only when every promised batch went
out; the last batch may go out in the same step as the return (the final
callback). `WF` on its `Next` says the handler returns.

`QueryPipeline` defines `Lifecycle == INSTANCE QueryLifecycle WITH ...`. The
mapping sends `mpc` to the phase (`"begin"` is idle, `"returned"` is done,
everything else running), `ExpectedBatches` to `goal`, `delivered` to `out`,
`result` to `res`, and `registered` to itself. Run `pipeline` checks
`ImplementsLifecycle == Lifecycle!Spec` as a PROPERTY, so every behaviour of
the detailed model, and its termination, is one of the abstract spec. KILL
QUERY (run `pipeline_kill`) and the `readTimeout = 0` hang (run
`pipeline_hang`) are exactly the behaviours that would leave it: a success
with fewer batches, and a query that never returns.

## 5. What is modelled and how (ConnectionHandler)

Connections `Conns` go from `"unconnected"` through `"idle"`, `"query"`
(a statement is pending) and `"exec"` (it is registered and running) to
`"closed"`. Per connection the state is the session (`sess`: autocommit and
in-transaction), whether it is in the session manager (`sessions`), its
`StatusFlags` bits (`flags`), its pending statements (`stmts`, the remainder
of a multi-statement query), bind variables, a prepared plan, whether the
listener saw it disconnect, the last result (`qres`) and what `observeQuery`
recorded (`obs`). Shared are the process list (`procs`), a named lock
(`lockOwner`, GET_LOCK) and table locks (`lockedTables`).

One action per handler entry point: `NewConnection`, `ComInitDB`,
`ComPrepare`, `ComQuery`, `ComMultiQuery`, `ComStmtExecute`,
`ConnectionClosed`. `doQuery` is two actions. `DoQueryStart` fails in
`NewContext` (before `observeQuery`), in parsing, or in `bindingsToExprs`, or
registers the query. `DoQueryRun` ends the pipeline: it fails (with or without
the statement executed), or executes it and then fails reading autocommit, or
sets the flags and returns success or the final callback's error. `Finish` is
`errorWrappedDoQuery`'s return, and moves to the next statement of a
multi-statement query while the last one succeeded.

Modelled from outside `src/` (marked `spec_modelled`): what a statement does
to the session and the locks (`Execute`), the protocol layer's
one-command-at-a-time loop (`Serving`) and its dispatch (`StartCommand`).

Bounds: two symmetric connections; two scripts (`autocommit_off; get_lock`
and `begin; autocommit_on`) for multi-statement queries, single statements
from the seven kinds; `MaxCommands = 4` commands in all, enough for a
connection to prepare, execute, run a two-statement script and close while
the other holds the lock. `CloseCtxFails` lets `NewContextWithQuery` fail in
`ConnectionClosed`. `AllClosed` is the only final state.

No fairness: the protocol layer need not send anything. That every query
command returns is not checked here: `DoQueryRun` is one step standing for
the whole pipeline, so it would hold by construction; run `pipeline` checks
`QueryTerminates` on the pipeline itself.

## 6. What is modelled and how (ShowNodes)

`ShowProcessList` and `ShowDatabases` are one action each, since
`Processes()` and `AllDatabases` return snapshots. The process list
(`command`, `db`, the keys of each process's `Progress` map and of each
item's `PartitionsProgress`) and the catalog (`dbs`, and whether `"mysql"`
resolves) change between them through spec-modelled actions: `BeginQuery`,
`EndQuery` (drops the progress), `AddTableProgress`,
`AddPartitionProgress`, `CreateDatabase`, `DropDatabase`. Each of those
clears the outputs, so `plOut` and `dbOut` are always the rows of a SHOW run
in the current state.

A Go map is ranged over in any order: the node takes an order of the whole
key space and restricts it to the keys present (`InMapOrder`), which gives
every order of every subset. Names are numbers ordered as their strings are
(TLC cannot compare strings). Bounds: two symmetric processes, two progress
names, two partitions, two databases with `"mysql"` sorting between them.

## 7. What is modelled and how (BindVars)

A wire type is vitess' `querypb.Type` code (`Code`), whose high bits are
flags; `IsSigned`, `IsUnsigned` and `IsFloat` test them as `sqltypes` does
(with `Bitwise`). `LiteralOf` is the code's switch in its order, as an IF
chain where the cases test flags, and `NamedLiteral` the cases that test the
type itself, which exclude each other, with the default. A value is
abstracted to whether it parses as its type (`NewValue`, then the case's
parse and `Convert`); lengths and values are left out. `ConvertBinding` is
one iteration of the range loop for whichever key the map yields next.

`SpecLiteral` is spec 4.A's table, by type name, written independently of
the flags. `CoercionMatchesTable` compares the two over all 34 wire types,
two bindings and both map orders. The table check shows something the
spec gets wrong: it says the case order matters only for the float/decimal
split, but `DECIMAL` has no float flag, while `YEAR` carries the integral
and unsigned flags and is a Year only because its case comes first (the
mutant that moves it becomes a Uint64). Not checked by a run: a `TUPLE` or
`EXPRESSION` binding fails in `sqltypes.NewValue`, so its error is not the
`UnsupportedOperation` spec section 8 asks for; and with two failing
bindings, which error is returned depends on map order.

## 7a. What is modelled and how (WireFormat)

The query-log rendering of `doQuery` (309-321) is `LoggedQuery`.
`CollapseLogSpace` is `queryLoggingRegex.ReplaceAll` (`[\r\n\t ]+` to one
space) as a RECURSIVE left-to-right scan of leftmost-longest matches;
`TruncateLogged` is the byte slice plus `...` when the limit is positive;
`Base64` is `base64.StdEncoding`, recursively on every three bytes, padded
with `=`.
`RowToSQL` and `Row2ToSQL` are the two loops of 724-759 (nil or `IsNull`
to NULL, else the type's `SQL`/`SQL2`, the first error ends it);
`SchemaToFields` gives binary types the binary charset. A query is its
bytes; a cell is nil, a value its type formats, or one it rejects.

The properties compare these with definitions written from the spec:
`SpecCollapsed` keeps a byte unless it continues a whitespace run,
`SpecTruncated` cuts at the limit with 0 unlimited, `SpecBase64` is RFC 4648
read off whole 24-bit groups and an alphabet table, and `SpecWireRow` fails a
row exactly when a non-null cell cannot be formatted. Bounds: every query of
up to 4 bytes over `a`, space, tab, newline and 0xFF (runs at the start,
end and middle, mixed kinds; 0xFF reaches the last letters of the base64
alphabet and every padding length), the limits -1, 0, 2 and 3 (below, at and above the
length), with and without encoding; every schema of up to 3 columns over
INT64, TEXT and BLOB with every nil, good and bad cell, on both paths.

The code attaches the query field when encoding is on even with a negative
`maxLoggedQueryLen`. Spec 6 says a negative value disables logging the query,
and spec 4.E.6 treats encoding as a separate switch, so the spec does not
decide the combination; `LoggedQueryAsSpecified` leaves it open.

## 8. Runs

| Run | Cfg | Expect | What it shows |
|---|---|---|---|
| `pipeline` | `MCQueryPipeline.cfg` | pass (~93k states) | With `readTimeout > 0`, both iterator kinds, failing callbacks, Close and rowToSQL errors, and a socket that breaks, every query returns (`QueryTerminates`). Success delivers exactly the expected batches (`ResultComplete`). The iterator is always closed (`IterNeverLeaked`), the process entry always removed (`NoProcessLeak`), and the first goroutine error always returned (`ErrorNeverLost`). The pipeline implements `QueryLifecycle` (`ImplementsLifecycle`). |
| `pipeline_env` | `MCQueryPipelineEnv.cfg` | pass (~208k states) | The same cleanup and error properties with `readTimeout = 0` and KILL QUERY enabled. A cancelled RowIter2 producer, which calls `Next2` without checking `ctx.Done()` (`handler.go:387`), still reads at most `ChanCap + 1` rows after the consumer returned, and the RowIter producer, whose `ctx.Done()` check (409-412) and `Next` (413) are separate steps, at most one (`ProducerStopsAfterCancel`). Deadlock is not checked, since the hang below is a real stop of the program. |
| `pipeline_hang` | `MCQueryPipelineHang.cfg` | violation of `QueryTerminates` | **Code bug.** With `readTimeout = 0`, once the timer fires (a minute without a row) the consumer receives from `timer.C` in the select. It then runs `if !timer.Stop() { <-timer.C }`, and the receive blocks forever (`handler.go:532-533`). The query never returns and stays in the process list. |
| `pipeline_kill` | `MCQueryPipelineKill.cfg` | violation of `ResultComplete` | KILL QUERY makes the producer and consumer return nil. `eg.Wait` succeeds, and the client gets a truncated result with an OK instead of an error. |
| `pipeline_timeout` | `MCQueryPipelineTimeout.cfg` | violation of `RowTimeoutOnlyWhenIdle` | The timer runs during `callback(r, more)`. A slow client gets `ErrRowTimeout` while rows wait in the channel. |
| `pipeline_ok_mixing` | `MCQueryPipelineMixed.cfg` | violation of `OkResultMixingDetected` | The consumer panics on an OkResult only when the current batch holds rows (`handler.go:509-511`). An OkResult as the first row followed by a data row, or an OkResult after a flushed batch, reaches the client and `doQuery` returns nil. Spec 4.E.3 says mixing must be detected. Deadlock is not checked: the panic ends the process, and the model's consumer then stops. |
| `pipeline_spool` | `MCQueryPipelineSpool.cfg` | violation of `SpoolWhileRegistered` | The final batch goes out after `Close` has ended the process entry. This contradicts the comment at `handler.go:350-351`. |
| `connection` | `MCConnectionHandler.cfg` | pass (~517k states) | Two connections with every command and a failure at every step. After a successful statement the flags match the session (`FlagsMatchSession`). A closed connection has no session, prepared plan or process entry left (`TeardownComplete`). |
| `connection_close_locks` | `MCConnectionHandlerLocks.cfg` | violation of `LocksReleasedOnClose` | When `NewContextWithQuery` fails in `ConnectionClosed` (`handler.go:142`), `LS.ReleaseAll` and `UnlockTables` are skipped. The closed connection keeps GET_LOCK's lock and its table locks. Spec section 5 asks for maximal teardown. With `CloseCtxFails = {FALSE}` the property holds. |
| `connection_metrics` | `MCConnectionHandlerMetrics.cfg` | violation of `QueryMetricsMatchOutcome` | **Code bug.** `defer finish(err)` (`handler.go:325`) evaluates `err` while it is still nil. `observeQuery` counts every failed query as a success, and `QueryErrorCounter` never moves. |
| `shownodes` | `MCShowNodes.cfg` | pass (~61k states) | For every order of the maps ranged over, SHOW PROCESSLIST gives each process once with the state spec section 3 describes (`ProcessListRowsMatchState`), and SHOW DATABASES gives each database and `mysql` once, in name order (`DatabasesSortedComplete`). |
| `conversions` | `MCConversions.cfg` | pass (~24k states) | For two bindings of every wire type, valid or malformed, in either map order, the conversion succeeds exactly when spec 4.A's table covers every binding, and each name gets the tabulated literal type (`CoercionMatchesTable`). Every bounded query is logged as spec 4.E.6 and 6 say (`LoggedQueryAsSpecified`), and every bounded row converts on both paths as spec 6 says, with binary columns in the binary charset (`WireRowsAsSpecified`). |

Every property of a passing run has a mutant in `PROJECT.json`: a plausible
bug in the mapped definition that TLC catches under that run's cfg. The
mutants are:

* the send ignores the channel's capacity;
* the last callback ignores `processedAtLeastOneBatch`;
* the joiner returns without closing the iterator;
* the deferred `EndQuery` never runs on an error;
* `eg.Wait` does not wait for the joiner;
* the consumer does not defer `cancelF`;
* the consumer keeps the flushed rows in `r` after a batch callback;
* the producer loop calls `Next` without selecting on `ctx.Done()`;
* `setConnStatusFlags` sets bits but never clears them;
* `CloseSession` and `RemoveConn` run only when a context was made;
* `toRow` leaves an empty database name as it is;
* the progress names are rendered in map order;
* the database rows are left in catalog order;
* the Year case is tested after the unsigned one;
* the switch has no default case;
* `rowToSQL` has no nil check;
* the log regex replaces each whitespace byte instead of each run.

## 9. Not modelled

* The engine (parse, analyze, execute) and the session manager, except as the
  iterator contents, what a statement does to the session and locks, and the
  failures they return.
* The wire codec itself (vitess). `WireFormat` checks the conversions in
  isolation; inside `QueryPipeline` a row's conversion is success or
  `rowToSQL`'s error.
* That `queryStr[:n]` cuts bytes, so a multi-byte character can be split in
  the log: queries are byte strings, and the spec speaks only of length.
* The double `Close` of a RowIter2 (producer at 392-394, joiner at 543):
  spec section 7 expects a well-behaved iterator to tolerate it, while
  sections 3 and 5 say Close runs once, so it is not checked as a finding.
  `IterNeverLeaked` checks that Close runs at least once.
* The values of bind variables, and the length and precision of literals.
* The per-batch `more` flag of a multi-statement query (`handler.go:307`):
  it only tells the client another result follows, and it is fixed for the
  query; `ConnectionHandler` works statement by statement.
* How many times `EndQuery` runs. On an error after the goroutines started,
  the joiner's `Close` has already ended the entry, and the deferred
  `EndQuery` (`handler.go:353-357`) ends it again. Spec section 8 item 2
  says once. Whether the second call matters depends on the process list,
  which is outside `src/`; the model records only whether the entry exists.
* A failing `ProcessList.BeginQuery` (`handler.go:352`): its error is
  overwritten at 359 and the next call uses the returned context, which the
  process list (outside `src/`) does not specify.
* `ComResetConnection` (an empty TODO) and `WarningCount` (a read): neither
  changes state.
* The session's current database (`ComInitDB`): no property reads it.
* Whether `AllDatabases` can itself list `"mysql"` (which would duplicate
  the row, `showdatabases.go:65`): it depends on the catalog, outside
  `src/`, and `ShowNodes` assumes it does not.
* `ShowTriggers`, a plain row copy.
* The plan-node test file.
