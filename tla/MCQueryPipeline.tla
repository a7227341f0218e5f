-------------------------- MODULE MCQueryPipeline --------------------------
(* Instantiates QueryPipeline for TLC.  RowsBatch = 2 and ChanCap = 3 keep *)
(* the code's shape (the channel holds more than a batch) at a size where  *)
(* full batches, a full channel, a partial last batch and an exact multiple *)
(* of the batch all occur with MaxRows = 4.                                *)
EXTENDS QueryPipeline

MCRowsBatch == 2
MCChanCap   == 3
MCMaxRows   == 4
\* an OkResult with a full batch's worth of RowsAffected is flushed at the
\* top of the consumer's loop, one with 0 by the final callback
MCOkAffected == {0, 2}

\* A channel of exactly one batch, so that an iterator of MaxRows rows has
\* more rows than fit in the channel plus the producer's hand.
MCChanCapSmall == 2
=============================================================================
