--------------------------- MODULE QueryPipeline ---------------------------
(***************************************************************************)
(* The row-streaming pipeline of Handler.doQuery (src/server/handler.go).  *)
(*                                                                         *)
(* One query of one connection: doQuery registers the query in the        *)
(* process list, then runs four goroutines in one errgroup:                *)
(*   - the producer, reading the row iterator into the bounded rowChan;    *)
(*   - the consumer, batching rows RowsBatch at a time into the result     *)
(*     callback, woken by a per-row timer;                                 *)
(*   - the liveness poller (pollForClosedConnection);                      *)
(*   - the joiner, closing the iterator once producer and consumer are     *)
(*     done (its Close also ends the process-list entry, handler.go:539).  *)
(* doQuery waits for all four, sets the status flags, and hands the last   *)
(* batch to the callback.                                                  *)
(*                                                                         *)
(* Data is abstracted: a data row is its position in the iterator, an     *)
(* OkResult row carries only its RowsAffected; a result batch is the list  *)
(* of row positions, its RowsAffected and whether it came from an          *)
(* OkResult.  Time is abstracted to the timer firing at any moment while   *)
(* it is armed.                                                            *)
(***************************************************************************)
EXTENDS Naturals, Sequences, SequencesExt

CONSTANTS
    RowsBatch,     \* rowsBatch (handler.go:55), 128 in the code
    ChanCap,       \* capacity of rowChan / row2Chan (handler.go:371-373), 512
    MaxRows,       \* the most data rows an iterator yields
    OkAffected,    \* RowsAffected values an OkResult row may carry
    ReadTimeout,   \* h.readTimeout: 0 disables the row timeout
    Node2Modes,    \* iterator kinds: FALSE = sql.RowIter, TRUE = sql.RowIter2
    KillEnabled,   \* KILL QUERY from another session may cancel the query
    CloseResults,  \* what rowIter.Close may return
    MixedResults   \* a RowIter may mix an OkResult row with data rows

NoError == "none"

\* The errors a goroutine or doQuery itself may end with.
Errors == {"early",    \* NewContext, Parse or bindingsToExprs failed
           "exec",     \* QueryNodeWithBindings failed
           "iter",     \* rowIter.Next returned a non-EOF error
           "timeout",  \* ErrRowTimeout
           "callback", \* the wire callback failed
           "closed",   \* ErrConnectionWasClosed from the poller
           "close",    \* rowIter.Close failed
           "convert",  \* rowToSQL failed on a row
           "flags"}    \* setConnStatusFlags failed

ASSUME /\ RowsBatch \in Nat \ {0}
       /\ ChanCap \in Nat \ {0}
       /\ MaxRows \in Nat
       /\ OkAffected \subseteq Nat
       /\ ReadTimeout \in Nat
       /\ Node2Modes \subseteq BOOLEAN /\ Node2Modes # {}
       /\ KillEnabled \in BOOLEAN
       /\ CloseResults \subseteq {NoError, "close"} /\ NoError \in CloseResults
       /\ MixedResults \in BOOLEAN

VARIABLES
    node2, items, iterEnd, tcp,          \* fixed for the query: iterator kind,
                                         \* its rows, how it ends, socket kind
    pos, ppc, pItem,                     \* producer: rows read, pc, row in hand
    rowChan, chanClosed,                 \* the row channel
    cpc, r, processed,                   \* consumer: pc, current result batch,
                                         \* processedAtLeastOneBatch
    timerArmed, timerBuf,                \* the consumer's time.Timer and timer.C
    pollPc, socket, pollCanceled,        \* poller: pc, socket state, cancelF()
    jpc,                                 \* joiner pc
    egErr, killed,                       \* errgroup's first error; KILL QUERY
    mpc, result, delivered,              \* doQuery: pc, returned error, batches
                                         \* given to the callback
    closes, registered,                  \* rowIter.Close calls; process entry
    firedWithRowReady,                   \* history: the timer fired while a row
                                         \* waited and a batch was being sent
    lateReads                            \* history: rows read from the iterator
                                         \* after the consumer returned

iterVars == <<node2, items, iterEnd, tcp>>
producerVars == <<pos, ppc, pItem>>
chanVars == <<rowChan, chanClosed>>
consumerVars == <<cpc, r, processed>>
timerVars == <<timerArmed, timerBuf>>
pollerVars == <<pollPc, socket, pollCanceled>>
groupVars == <<jpc, egErr, killed>>
doQueryVars == <<mpc, result, delivered>>
procVars == <<closes, registered>>
historyVars == <<firedWithRowReady, lateReads>>

vars == <<iterVars, producerVars, chanVars, consumerVars, timerVars,
          pollerVars, groupVars, doQueryVars, procVars, historyVars>>

-----------------------------------------------------------------------------
(* Rows and results. *)

DataRow(i) == [ok |-> FALSE, n |-> i]
OkRow(a)   == [ok |-> TRUE, n |-> a]
Item       == [ok : BOOLEAN, n : Nat]

\* &sqltypes.Result{Fields: schemaToFields(schema)}
NewResult == [rows |-> <<>>, affected |-> 0, ok |-> FALSE]

\* resultFromOkResult: RowsAffected taken over, no rows
ResultFromOkResult(a) == [rows |-> <<>>, affected |-> a, ok |-> TRUE]

Result == [rows : Seq(Nat), affected : Nat, ok : BOOLEAN]

\* A RowIter that yields an OkResult row at position p among data rows,
\* which the consumer checks for (handler.go:508-513).
MixedIterators ==
    UNION {{[i \in 1..n |-> IF i = p THEN OkRow(a) ELSE DataRow(i)] :
                p \in 1..n, a \in OkAffected} : n \in 2..MaxRows}

\* What an iterator of the engine yields: up to MaxRows data rows, or one
\* OkResult row for a DML plan, or, when MixedResults, a mix of both.  The
\* Row2 path has no OkResult handling (handler.go:476-483), so its
\* iterators yield data rows only.
IteratorContents(isNode2) ==
    {[i \in 1..n |-> DataRow(i)] : n \in 0..MaxRows}
      \cup (IF isNode2 THEN {} ELSE {<<OkRow(a)>> : a \in OkAffected})
      \cup (IF isNode2 \/ ~MixedResults THEN {} ELSE MixedIterators)

-----------------------------------------------------------------------------
(* The errgroup and the contexts. *)

\* ctx.Done(): the errgroup context is cancelled by the first error, and the
\* query context returned by BeginQuery by KILL QUERY.
CtxDone == egErr # NoError \/ killed

\* pollCtx is a sub-context of ctx, also cancelled by the consumer's cancelF.
PollCtxDone == CtxDone \/ pollCanceled

\* A goroutine of eg returns e: the errgroup keeps the first non-nil error.
GoReturn(e) == egErr' = IF egErr = NoError THEN e ELSE egErr

\* ProcessList.EndQuery: the query's process entry is removed.
EndQuery == registered' = FALSE

\* rowIter.Close: the tracked iterator also ends the query (handler.go:539).
CloseIterator == closes' = closes + 1 /\ EndQuery

\* Mutant: doQuery waits for the producer and consumer only.
AllJoinedButJoiner == ppc = "done" /\ cpc = "done" /\ pollPc = "done"

\* eg.Wait(): every goroutine of the group has returned.
AllJoined == ppc = "done" /\ cpc = "done" /\ pollPc = "done" /\ jpc = "done"

Return(e) == mpc' = "returned" /\ result' = e

-----------------------------------------------------------------------------
Init ==
    /\ node2 \in Node2Modes
    /\ items \in IteratorContents(node2)
    /\ iterEnd \in {"eof", "error"}
    /\ tcp \in BOOLEAN
    /\ pos = 0 /\ ppc = "idle" /\ pItem = DataRow(0)
    /\ rowChan = <<>> /\ chanClosed = FALSE
    /\ cpc = "idle" /\ r = NewResult /\ processed = FALSE
    /\ timerArmed = FALSE /\ timerBuf = FALSE
    /\ pollPc = "idle" /\ socket = "established" /\ pollCanceled = FALSE
    /\ jpc = "idle"
    /\ egErr = NoError /\ killed = FALSE
    /\ mpc = "begin" /\ result = NoError /\ delivered = <<>>
    /\ closes = 0 /\ registered = FALSE
    /\ firedWithRowReady = FALSE
    /\ lateReads = 0

-----------------------------------------------------------------------------
(* doQuery up to the goroutines. *)

\* NewContext, ParseOne/Parse or bindingsToExprs fails: doQuery returns
\* before BeginQuery.
QueryFailsBeforeBegin ==
    /\ mpc = "begin"
    /\ Return("early")
    /\ UNCHANGED <<iterVars, producerVars, chanVars, consumerVars, timerVars,
                   pollerVars, groupVars, delivered, procVars, historyVars>>

\* ctx.NewErrgroup, ProcessList.BeginQuery.
BeginQuery ==
    /\ mpc = "begin"
    /\ mpc' = "exec"
    /\ registered' = TRUE
    /\ UNCHANGED <<iterVars, producerVars, chanVars, consumerVars, timerVars,
                   pollerVars, groupVars, result, delivered, closes,
                   historyVars>>

\* Mutant: the deferred func never ends the query.
DeferredEndQueryNever(err) == UNCHANGED registered

\* The func deferred after BeginQuery: EndQuery when doQuery's local err is
\* non-nil as it returns.
DeferredEndQuery(err) ==
    IF err # NoError THEN EndQuery ELSE UNCHANGED registered

\* QueryNodeWithBindings fails and err is returned.
QueryNodeFails ==
    /\ mpc = "exec"
    /\ Return("exec")
    /\ DeferredEndQuery("exec")
    /\ UNCHANGED <<iterVars, producerVars, chanVars, consumerVars, timerVars,
                   pollerVars, groupVars, delivered, closes, historyVars>>

\* The channel is made, the four goroutines start and the consumer's timer
\* is armed with waitTime.
StartPipeline ==
    /\ mpc = "exec"
    /\ mpc' = "wait"
    /\ ppc' = "loop" /\ cpc' = "top" /\ pollPc' = "start" /\ jpc' = "wait"
    /\ timerArmed' = TRUE
    /\ UNCHANGED <<iterVars, pos, pItem, chanVars, r, processed, timerBuf,
                   socket, pollCanceled, egErr, killed, result, delivered,
                   procVars, historyVars>>

-----------------------------------------------------------------------------
(* The producer goroutine (handler.go:379-428).  The sql.RowIter loop      *)
(* checks ctx.Done() before every Next and leaves closing the iterator to  *)
(* the joiner; the sql.RowIter2 loop calls Next2 without that check and    *)
(* closes the iterator itself on EOF and on error.  Every exit closes the  *)
(* channel (deferred close).                                               *)

ProducerExit(e) ==
    /\ ppc' = "done"
    /\ chanClosed' = TRUE
    /\ GoReturn(e)

\* select { case <-ctx.Done(): return nil; default: ... }: the RowIter
\* loop returns when ctx is done ...
ProducerCancelled ==
    /\ ppc = "loop" /\ ~node2 /\ CtxDone
    /\ ProducerExit(NoError)
    /\ UNCHANGED <<iterVars, pos, pItem, rowChan, consumerVars, timerVars,
                   pollerVars, jpc, killed, doQueryVars, procVars,
                   historyVars>>

\* ... and otherwise takes the default case, after which ctx may be
\* cancelled before rowIter.Next is called.
ProducerCtxLive ==
    /\ ppc = "loop" /\ ~node2 /\ ~CtxDone
    /\ ppc' = "next"
    /\ UNCHANGED <<iterVars, pos, pItem, chanVars, consumerVars, timerVars,
                   pollerVars, groupVars, doQueryVars, procVars, historyVars>>

\* Mutant: the RowIter loop calls Next without selecting on ctx.Done().
NextAllowedNoCtxCheck == ppc = "next" \/ ppc = "loop"

\* The RowIter loop calls Next in the select's default case; the RowIter2
\* loop calls Next2 at the top of the loop without looking at ctx
\* (handler.go:387).
NextAllowed == ppc = "next" \/ (ppc = "loop" /\ node2)

\* rowIter.Next / Next2 returns a row.
ProducerNext ==
    /\ NextAllowed
    /\ pos < Len(items)
    /\ pos' = pos + 1
    /\ pItem' = items[pos + 1]
    /\ ppc' = "send"
    /\ lateReads' = IF cpc = "done" THEN lateReads + 1 ELSE lateReads
    /\ UNCHANGED <<iterVars, chanVars, consumerVars, timerVars, pollerVars,
                   groupVars, doQueryVars, procVars, firedWithRowReady>>

\* Next returns io.EOF: the RowIter loop returns nil, the RowIter2 loop
\* returns rowIter2.Close(ctx).
ProducerEOF ==
    /\ NextAllowed
    /\ pos = Len(items) /\ iterEnd = "eof"
    /\ \/ /\ ~node2
          /\ ProducerExit(NoError)
          /\ UNCHANGED procVars
       \/ /\ node2
          /\ \E ce \in CloseResults : CloseIterator /\ ProducerExit(ce)
    /\ UNCHANGED <<iterVars, pos, pItem, rowChan, consumerVars, timerVars,
                   pollerVars, jpc, killed, doQueryVars, historyVars>>

\* Next returns another error: returned to the group; the RowIter2 loop
\* first closes the iterator and only logs a close error.
ProducerError ==
    /\ NextAllowed
    /\ pos = Len(items) /\ iterEnd = "error"
    /\ \/ ~node2 /\ UNCHANGED procVars
       \/ node2 /\ CloseIterator
    /\ ProducerExit("iter")
    /\ UNCHANGED <<iterVars, pos, pItem, rowChan, consumerVars, timerVars,
                   pollerVars, jpc, killed, doQueryVars, historyVars>>

\* Mutant: the send does not wait for room in the channel.
ChanHasRoomAlways == TRUE

\* A send on the buffered channel proceeds while it is not full.
ChanHasRoom == Len(rowChan) < ChanCap

\* select { case rowChan <- row: ... }
ProducerSend ==
    /\ ppc = "send"
    /\ ChanHasRoom
    /\ rowChan' = Append(rowChan, pItem)
    /\ ppc' = "loop"
    /\ UNCHANGED <<iterVars, pos, pItem, chanClosed, consumerVars, timerVars,
                   pollerVars, groupVars, doQueryVars, procVars, historyVars>>

\* select { ... case <-ctx.Done(): return nil }
ProducerSendCancelled ==
    /\ ppc = "send" /\ CtxDone
    /\ ProducerExit(NoError)
    /\ UNCHANGED <<iterVars, pos, pItem, rowChan, consumerVars, timerVars,
                   pollerVars, jpc, killed, doQueryVars, procVars,
                   historyVars>>

Producer ==
    \/ ProducerCancelled \/ ProducerCtxLive \/ ProducerNext \/ ProducerEOF \/ ProducerError
    \/ ProducerSend \/ ProducerSendCancelled

-----------------------------------------------------------------------------
(* The consumer goroutine (handler.go:451-537).  At the top of its loop it *)
(* hands a full batch to the callback; otherwise it selects on ctx.Done(), *)
(* the row channel and timer.C, and after a row (or an idle timer tick)    *)
(* stops, drains and resets the timer.  Every exit runs cancelF (the       *)
(* poller's sub-context) and wg.Done.                                      *)

\* Mutant: the consumer does not defer cancelF().
ConsumerExitNoCancel(e) ==
    /\ cpc' = "done"
    /\ UNCHANGED pollCanceled
    /\ GoReturn(e)

ConsumerExit(e) ==
    /\ cpc' = "done"
    /\ pollCanceled' = TRUE
    /\ GoReturn(e)

BatchFull == r.affected = RowsBatch

\* the consumer is in its select
Selecting == cpc = "top" /\ ~BatchFull

\* Mutant: the flushed batch's count is cleared but not its rows.
FlushBatchKeepRows ==
    /\ delivered' = Append(delivered, r)
    /\ r' = [r EXCEPT !.affected = 0]
    /\ processed' = TRUE

\* callback(r, more) succeeds; r = nil, and the loop's top makes a new one;
\* processedAtLeastOneBatch = true.
FlushBatch ==
    /\ delivered' = Append(delivered, r)
    /\ r' = NewResult
    /\ processed' = TRUE

\* r.RowsAffected == rowsBatch: the batch is handed to the callback.
ConsumerSendBatch ==
    /\ cpc = "top" /\ BatchFull
    /\ FlushBatch
    /\ UNCHANGED <<iterVars, producerVars, chanVars, cpc, timerVars,
                   pollerVars, groupVars, mpc, result, procVars, historyVars>>

\* callback(r, more) returns an error.
ConsumerCallbackFails ==
    /\ cpc = "top" /\ BatchFull
    /\ ConsumerExit("callback")
    /\ UNCHANGED <<iterVars, producerVars, chanVars, r, processed, timerVars,
                   pollPc, socket, jpc, killed, doQueryVars, procVars,
                   historyVars>>

\* case <-ctx.Done(): return nil
ConsumerCancelled ==
    /\ Selecting /\ CtxDone
    /\ ConsumerExit(NoError)
    /\ UNCHANGED <<iterVars, producerVars, chanVars, r, processed, timerVars,
                   pollPc, socket, jpc, killed, doQueryVars, procVars,
                   historyVars>>

\* case row, ok := <-rowChan with a data row: rowToSQL, appended to r.
ConsumerReceiveRow ==
    /\ Selecting
    /\ rowChan # <<>> /\ ~Head(rowChan).ok
    /\ rowChan' = Tail(rowChan)
    /\ r' = [r EXCEPT !.rows = Append(@, Head(rowChan).n),
                      !.affected = @ + 1]
    /\ cpc' = "reset"
    /\ UNCHANGED <<iterVars, producerVars, chanClosed, processed, timerVars,
                   pollerVars, groupVars, doQueryVars, procVars, historyVars>>

\* rowToSQL (a column type's SQL conversion) fails on the received row.
ConsumerRowToSQLFails ==
    /\ Selecting
    /\ rowChan # <<>> /\ ~Head(rowChan).ok
    /\ rowChan' = Tail(rowChan)
    /\ ConsumerExit("convert")
    /\ UNCHANGED <<iterVars, producerVars, chanClosed, r, processed, timerVars,
                   pollPc, socket, jpc, killed, doQueryVars, procVars,
                   historyVars>>

\* An OkResult row replaces the empty batch and the loop continues without
\* resetting the timer (with rows already in r the code panics).
ConsumerReceiveOkResult ==
    /\ Selecting
    /\ rowChan # <<>> /\ Head(rowChan).ok
    /\ r.rows = <<>>
    /\ rowChan' = Tail(rowChan)
    /\ r' = ResultFromOkResult(Head(rowChan).n)
    /\ UNCHANGED <<iterVars, producerVars, chanClosed, cpc, processed,
                   timerVars, pollerVars, groupVars, doQueryVars, procVars,
                   historyVars>>

\* !ok: the producer closed the channel and it is drained.
ConsumerChannelClosed ==
    /\ Selecting
    /\ rowChan = <<>> /\ chanClosed
    /\ ConsumerExit(NoError)
    /\ UNCHANGED <<iterVars, producerVars, chanVars, r, processed, timerVars,
                   pollPc, socket, jpc, killed, doQueryVars, procVars,
                   historyVars>>

\* case <-timer.C with h.readTimeout != 0: ErrRowTimeout.
ConsumerRowTimeout ==
    /\ Selecting /\ timerBuf /\ ReadTimeout # 0
    /\ timerBuf' = FALSE
    /\ ConsumerExit("timeout")
    /\ UNCHANGED <<iterVars, producerVars, chanVars, r, processed, timerArmed,
                   pollPc, socket, jpc, killed, doQueryVars, procVars,
                   historyVars>>

\* case <-timer.C with no read timeout: falls through to the timer reset.
ConsumerTimerTick ==
    /\ Selecting /\ timerBuf /\ ReadTimeout = 0
    /\ timerBuf' = FALSE
    /\ firedWithRowReady' = FALSE
    /\ cpc' = "reset"
    /\ UNCHANGED <<iterVars, producerVars, chanVars, r, processed, timerArmed,
                   pollerVars, groupVars, doQueryVars, procVars, lateReads>>

\* if !timer.Stop() { <-timer.C }; timer.Reset(waitTime), with Stop
\* stopping a pending timer: Reset arms it again.
ConsumerStopTimer ==
    /\ cpc = "reset" /\ timerArmed
    /\ cpc' = "top"
    /\ UNCHANGED <<iterVars, producerVars, chanVars, r, processed, timerVars,
                   pollerVars, groupVars, doQueryVars, procVars, historyVars>>

\* The timer has already fired: Stop returns false and <-timer.C blocks
\* until timer.C holds a value, then Reset arms the timer.
ConsumerDrainTimer ==
    /\ cpc = "reset" /\ ~timerArmed /\ timerBuf
    /\ timerBuf' = FALSE
    /\ timerArmed' = TRUE
    /\ firedWithRowReady' = FALSE
    /\ cpc' = "top"
    /\ UNCHANGED <<iterVars, producerVars, chanVars, r, processed, pollerVars,
                   groupVars, doQueryVars, procVars, lateReads>>

Consumer ==
    \/ ConsumerSendBatch \/ ConsumerCallbackFails \/ ConsumerCancelled
    \/ ConsumerReceiveRow \/ ConsumerRowToSQLFails \/ ConsumerReceiveOkResult
    \/ ConsumerChannelClosed
    \/ ConsumerRowTimeout \/ ConsumerTimerTick \/ ConsumerStopTimer
    \/ ConsumerDrainTimer

\* waitTime elapses: the runtime sends the time on timer.C (buffer of one).
\* The history variable records whether a row was waiting in the channel
\* while the consumer was busy handing a full batch to the callback.
TimerFires ==
    /\ timerArmed /\ cpc # "done"
    /\ timerArmed' = FALSE
    /\ timerBuf' = TRUE
    /\ firedWithRowReady' = (rowChan # <<>> /\ cpc = "top" /\ BatchFull)
    /\ UNCHANGED <<iterVars, producerVars, chanVars, consumerVars, pollerVars,
                   groupVars, doQueryVars, procVars, lateReads>>

-----------------------------------------------------------------------------
(* pollForClosedConnection (handler.go:638-683).  A connection that is not *)
(* TCP, or whose inode or local port cannot be read, ends the poller at    *)
(* once.  Otherwise it wakes every tcpCheckerSleepDuration: a Broken       *)
(* socket is ErrConnectionWasClosed, an Error state ends it quietly, and   *)
(* an Established socket changes nothing (a stuttering step).              *)

PollerNotTCP ==
    /\ pollPc = "start" /\ ~tcp
    /\ pollPc' = "done"
    /\ UNCHANGED <<iterVars, producerVars, chanVars, consumerVars, timerVars,
                   socket, pollCanceled, groupVars, doQueryVars, procVars,
                   historyVars>>

PollerStart ==
    /\ pollPc = "start" /\ tcp
    /\ pollPc' = "poll"
    /\ UNCHANGED <<iterVars, producerVars, chanVars, consumerVars, timerVars,
                   socket, pollCanceled, groupVars, doQueryVars, procVars,
                   historyVars>>

\* case <-ctx.Done(): return nil
PollerCancelled ==
    /\ pollPc = "poll" /\ PollCtxDone
    /\ pollPc' = "done"
    /\ UNCHANGED <<iterVars, producerVars, chanVars, consumerVars, timerVars,
                   socket, pollCanceled, groupVars, doQueryVars, procVars,
                   historyVars>>

\* case <-timer.C: sockstate.GetInodeSockState is Broken or Error.
PollerCheck ==
    /\ pollPc = "poll"
    /\ \/ socket = "broken" /\ GoReturn("closed")
       \/ socket = "error" /\ UNCHANGED egErr
    /\ pollPc' = "done"
    /\ UNCHANGED <<iterVars, producerVars, chanVars, consumerVars, timerVars,
                   socket, pollCanceled, jpc, killed, doQueryVars, procVars,
                   historyVars>>

Poller == PollerNotTCP \/ PollerStart \/ PollerCancelled \/ PollerCheck

\* Mutant: the joiner returns nil without closing the iterator.
JoinerReturnNothing == UNCHANGED <<closes, registered, egErr>>

\* return rowIter.Close(ctx): the goroutine returns Close's error.
JoinerReturn == \E ce \in CloseResults : CloseIterator /\ GoReturn(ce)

\* wg.Wait(); return rowIter.Close(ctx)  (handler.go:541-544)
JoinerCloses ==
    /\ jpc = "wait" /\ ppc = "done" /\ cpc = "done"
    /\ jpc' = "done"
    /\ JoinerReturn
    /\ UNCHANGED <<iterVars, producerVars, chanVars, consumerVars, timerVars,
                   pollerVars, killed, doQueryVars, historyVars>>

-----------------------------------------------------------------------------
(* doQuery after eg.Wait() (handler.go:546-578). *)

\* eg.Wait() returns the group's error; the deferred EndQuery runs.
PipelineFails ==
    /\ mpc = "wait" /\ AllJoined /\ egErr # NoError
    /\ Return(egErr)
    /\ DeferredEndQuery(egErr)
    /\ UNCHANGED <<iterVars, producerVars, chanVars, consumerVars, timerVars,
                   pollerVars, groupVars, delivered, closes, historyVars>>

\* eg.Wait() returns nil, then setConnStatusFlags, which fails only when
\* the autocommit session variable cannot be read (deferred EndQuery).
PipelineSetsFlags ==
    /\ mpc = "wait" /\ AllJoined /\ egErr = NoError
    /\ \/ mpc' = "final" /\ UNCHANGED <<result, registered>>
       \/ Return("flags") /\ DeferredEndQuery("flags")
    /\ UNCHANGED <<iterVars, producerVars, chanVars, consumerVars, timerVars,
                   pollerVars, groupVars, delivered, closes, historyVars>>

\* Mutant: the last callback ignores processedAtLeastOneBatch.
FinalBatchAlwaysDue == TRUE

\* The last callback is skipped only when r is empty after a full batch.
FinalBatchDue == ~(r.affected = 0 /\ processed)

\* return remainder, callback(r, more); its error is not assigned to err, so
\* the deferred EndQuery does not run.
FinalCallback ==
    /\ mpc = "final"
    /\ \/ ~FinalBatchDue /\ Return(NoError) /\ UNCHANGED delivered
       \/ FinalBatchDue /\ delivered' = Append(delivered, r) /\ Return(NoError)
       \/ FinalBatchDue /\ Return("callback") /\ UNCHANGED delivered
    /\ DeferredEndQuery(NoError)
    /\ UNCHANGED <<iterVars, producerVars, chanVars, consumerVars, timerVars,
                   pollerVars, groupVars, closes, historyVars>>

DoQuery ==
    \/ QueryFailsBeforeBegin \/ BeginQuery \/ QueryNodeFails \/ StartPipeline
    \/ PipelineFails \/ PipelineSetsFlags \/ FinalCallback

-----------------------------------------------------------------------------
(* The environment. *)

\* The peer closes the socket, or its state can no longer be read.
SocketChanges ==
    /\ socket = "established" /\ mpc # "returned"
    /\ \E s \in {"broken", "error"} : socket' = s
    /\ UNCHANGED <<iterVars, producerVars, chanVars, consumerVars, timerVars,
                   pollPc, pollCanceled, groupVars, doQueryVars, procVars,
                   historyVars>>

\* KILL QUERY from another session cancels the registered query's context.
KillQuery ==
    /\ KillEnabled /\ registered /\ ~killed
    /\ killed' = TRUE
    /\ UNCHANGED <<iterVars, producerVars, chanVars, consumerVars, timerVars,
                   pollerVars, jpc, egErr, doQueryVars, procVars, historyVars>>

\* doQuery has returned: the connection waits for its next command.
Returned == mpc = "returned" /\ UNCHANGED vars

Next ==
    \/ DoQuery \/ Producer \/ Consumer \/ TimerFires \/ Poller
    \/ JoinerCloses \/ SocketChanges \/ KillQuery \/ Returned

\* Every goroutine, and doQuery, is scheduled whenever it can run.  The
\* poller's select picks ctx.Done() among ready cases with positive
\* probability, so it eventually takes it.  The timer, the socket and KILL
\* are the environment and need not act.
Fairness ==
    /\ WF_vars(DoQuery)
    /\ WF_vars(Producer)
    /\ WF_vars(Consumer)
    /\ WF_vars(PollerNotTCP \/ PollerStart)
    /\ WF_vars(PollerCancelled)
    /\ WF_vars(JoinerCloses)

Spec == Init /\ [][Next]_vars /\ Fairness

-----------------------------------------------------------------------------
(* Properties. *)

PCs == {"idle", "loop", "next", "send", "top", "reset", "start", "poll", "wait",
        "done", "begin", "exec", "final", "returned"}

TypeOK ==
    /\ node2 \in BOOLEAN /\ tcp \in BOOLEAN
    /\ items \in Seq(Item) /\ iterEnd \in {"eof", "error"}
    /\ pos \in 0..Len(items) /\ pItem \in Item
    /\ {ppc, cpc, pollPc, jpc, mpc} \subseteq PCs
    /\ rowChan \in Seq(Item) /\ Len(rowChan) <= ChanCap
    /\ chanClosed \in BOOLEAN
    /\ r \in Result
    /\ processed \in BOOLEAN
    /\ timerArmed \in BOOLEAN /\ timerBuf \in BOOLEAN
    /\ socket \in {"established", "broken", "error"}
    /\ pollCanceled \in BOOLEAN /\ killed \in BOOLEAN
    /\ egErr \in Errors \cup {NoError} /\ result \in Errors \cup {NoError}
    /\ delivered \in Seq(Result)
    /\ closes \in Nat /\ registered \in BOOLEAN
    /\ firedWithRowReady \in BOOLEAN
    /\ lateReads \in Nat

\* The batches the callback must have received for the iterator's rows
\* (spec §8 items 1, S1, S2, S7): rows in iterator order cut every RowsBatch
\* rows, one empty batch for an empty result and no empty batch after a full
\* one; an OkResult row is the single result.
ExpectedBatches ==
    IF items # <<>> /\ items[1].ok
    THEN <<ResultFromOkResult(items[1].n)>>
    ELSE LET n == Len(items)
             k == IF n = 0 THEN 1 ELSE (n + RowsBatch - 1) \div RowsBatch
             size(i) == IF i < k THEN RowsBatch ELSE n - (k - 1) * RowsBatch
             rows(i) == [j \in 1..size(i) |-> (i - 1) * RowsBatch + j]
         IN [i \in 1..k |-> [rows |-> rows(i), affected |-> size(i),
                             ok |-> FALSE]]

\* When doQuery returns nil, the callback has received every row of the
\* iterator, in order, batched as the handler promises: the producer's EOF,
\* the consumer's flush at RowsBatch and the final callback guarded by
\* processedAtLeastOneBatch must agree.
ResultComplete ==
    mpc = "returned" /\ result = NoError => delivered = ExpectedBatches

\* doQuery implements the abstract query lifecycle: a step of the pipeline
\* is a registration, a delivery of the next promised batch in order, the
\* removal of the process entry, the return, or invisible, and the query
\* always returns.  It ties the consumer's batching, the final callback's
\* processedAtLeastOneBatch guard, the joiner's Close and the error paths'
\* deferred EndQuery to one ordering of observable events.
Lifecycle == INSTANCE QueryLifecycle WITH
    phase <- CASE mpc = "begin"    -> "idle"
               [] mpc = "returned" -> "done"
               [] OTHER            -> "running",
    goal <- ExpectedBatches,
    out <- delivered,
    res <- result,
    Batch <- Result,
    Errs <- Errors,
    NoErr <- NoError

ImplementsLifecycle == Lifecycle!Spec

\* Once the goroutines started, doQuery never returns while the row
\* iterator is still open: the joiner (or the Row2 producer) closed it.
IterNeverLeaked ==
    mpc = "returned" /\ ppc # "idle" => closes >= 1

\* No exit path of doQuery leaves the query in the process list: success
\* relies on the iterator's Close, failures on the deferred EndQuery.
NoProcessLeak ==
    mpc = "returned" => ~registered

\* An error of any goroutine (iterator, consumer, callback, poller or
\* Close) is never lost: doQuery then returns the first of them.
ErrorNeverLost ==
    mpc = "returned" /\ egErr # NoError => result = egErr

\* Every query started returns to the protocol layer.
QueryTerminates == <>(mpc = "returned")

\* ErrRowTimeout only when the iterator was idle: never because the timer
\* ran out while a row already waited in the channel and the consumer was
\* busy in the callback (spec §4.E.2, §9: the timeout is per row).
RowTimeoutOnlyWhenIdle ==
    [][ConsumerRowTimeout => ~firedWithRowReady]_vars

\* Once the consumer has returned (with an error, on ctx.Done(), or after
\* the channel closed), nothing drains rowChan and ctx is cancelled: the
\* RowIter producer reads at most the one row whose Next it was about to
\* call when the cancel came after its ctx.Done() check, and the RowIter2
\* producer, which calls Next2 before it looks at ctx, reads at most the rows
\* that still fit in the channel and the one its blocked send holds (spec
\* §8 item 4: the producer observes cancellation within one channel
\* capacity).
ProducerStopsAfterCancel ==
    lateReads <= IF node2 THEN ChanCap + 1 ELSE 1

\* Whether an iterator mixes an OkResult row with data rows.
IsMixed(s) == Len(s) > 1 /\ \E i \in DOMAIN s : s[i].ok

\* An iterator that mixes an OkResult row with data rows, the programming
\* error the consumer's panic at handler.go:510 guards against, never ends
\* in doQuery reporting success (spec 4.E.3: mixing must be detected,
\* fail-fast), whatever the row's position and the batching.
OkResultMixingDetected ==
    mpc = "returned" /\ result = NoError => ~IsMixed(items)

\* Rows are spooled over the wire only while the query is still in the
\* process list (the comment at handler.go:350-351).
SpoolWhileRegistered ==
    [][delivered' # delivered => registered]_vars

=============================================================================
