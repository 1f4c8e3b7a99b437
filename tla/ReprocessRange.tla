--------------------------- MODULE ReprocessRange ---------------------------
(***************************************************************************)
(* ContractMonitor.ProcessBlockRange (monitor/contract_monitor.go), which  *)
(* cmd/reprocess_block_range runs instead of Start: blocks that were       *)
(* processed before are fetched and handled again.  Four goroutines: the   *)
(* caller, one that schedules the ranges, the logs fetcher and the logs    *)
(* processor.  The caller decides from the lengths of the two channels,    *)
(* which both end with a nil element, when everything is done.             *)
(*                                                                         *)
(* A monitor may run beside it and write the same row of logs_cursors; the *)
(* program has the copy of the row that it read at its start.              *)
(*                                                                         *)
(* A batch of logs is named by its block.  Failed attempts that are        *)
(* repeated without a trace are not steps of their own.                    *)
(***************************************************************************)
EXTENDS Naturals, Sequences

CONSTANTS
    FromBlock, ToBlock,  \* the blocks to process again
    MaxBlockRangeSize,
    LogBlocks,           \* the blocks that have logs
    BlockRangesChanCap,
    LogsChanCap,
    MaxCursor,           \* bound: highest cursor
    MaxLate,             \* bound: blocks that a late copy of the monitor is behind
    Nil                  \* the nil element of both channels

ASSUME ReprocessAssumption ==
    /\ FromBlock \in Nat \ {0} /\ ToBlock \in Nat /\ FromBlock <= ToBlock
    /\ MaxBlockRangeSize \in Nat \ {0}
    /\ LogBlocks \subseteq Nat
    /\ BlockRangesChanCap \in Nat \ {0} /\ LogsChanCap \in Nat \ {0}
    /\ MaxCursor \in Nat /\ MaxLate \in Nat
ASSUME NilAssumption == Nil \notin Nat /\ Nil \notin [from: Nat, to: Nat]

VARIABLES
    fetched, processed,        \* logsCursor, as read at the start
    row,                       \* the row of the contract in logs_cursors
    indexed,                   \* the highest that a monitor has reached
    blocksRangeChan, logsChan,
    mainPc, finishedFetching,  \* the caller
    nextBlock, schedulerPc,    \* the goroutine that schedules the ranges
    fetcherPc, current,        \* range being fetched
    pending,                   \* batches of the range left to submit
    processorPc, batch,
    done,                      \* batches that were handled
    ctxDone

cursorVars == <<fetched, processed>>
sharedVars == <<row, indexed>>
chans == <<blocksRangeChan, logsChan>>
mainVars == <<mainPc, finishedFetching>>
schedulerVars == <<nextBlock, schedulerPc>>
fetcherVars == <<fetcherPc, current, pending>>
processorVars == <<processorPc, batch, done>>
programVars == <<cursorVars, chans, mainVars, schedulerVars, fetcherVars,
                 processorVars, ctxDone>>
vars == <<programVars, sharedVars>>

-----------------------------------------------------------------------------

NoRange == [from |-> 1, to |-> 0]

Lower(a, b) == IF a < b THEN a ELSE b

HasRoomAtCap(chan, cap) == Len(chan) <= cap

\* A send on a Go channel blocks while its buffer is full.
HasRoom(chan, cap) == Len(chan) < cap

\* The batches submitLogs makes of a range.
BatchesOf(r) == {b \in LogBlocks : r.from <= b /\ b <= r.to} \cup {r.to}

\* The batch that ends each range of SplitBlockRange.
RangeEnds ==
    {b \in FromBlock..ToBlock :
       \/ b = ToBlock
       \/ \E k \in 1..ToBlock : b + 1 = FromBlock + k * MaxBlockRangeSize}

\* Everything ProcessBlockRange is asked to process.
AllBatches == {b \in LogBlocks : FromBlock <= b /\ b <= ToBlock} \cup RangeEnds

Copy == [fetched |-> fetched, processed |-> processed]

\* The monitor may have any cursor.  The guard, then the nil element, and the
\* goroutines are started.
Refuses(last) == ToBlock > last

Init ==
    /\ processed \in 0..MaxCursor /\ fetched \in processed..MaxCursor
    /\ row = Copy /\ indexed = Copy
    /\ logsChan = <<>> /\ finishedFetching = FALSE
    /\ IF Refuses(processed)
       THEN mainPc = "refused" /\ schedulerPc = "stopped" /\ blocksRangeChan = <<>>
       ELSE mainPc = "check" /\ schedulerPc = "ranges" /\ blocksRangeChan = <<Nil>>
    /\ nextBlock = FromBlock
    /\ fetcherPc = "take" /\ current = NoRange /\ pending = {}
    /\ processorPc = "take" /\ batch = 0 /\ done = {}
    /\ ctxDone = FALSE

-----------------------------------------------------------------------------
(* The goroutine that schedules the ranges *)

NothingAfterRanges == "stopped"

\* What follows the last range: another nil element.
AfterRanges == "nil"

ScheduleRange ==
    /\ schedulerPc = "ranges"
    /\ HasRoom(blocksRangeChan, BlockRangesChanCap)
    /\ LET last == Lower(nextBlock + MaxBlockRangeSize - 1, ToBlock)
       IN  /\ blocksRangeChan' =
                Append(blocksRangeChan, [from |-> nextBlock, to |-> last])
           /\ nextBlock' = last + 1
           /\ schedulerPc' = IF last = ToBlock THEN AfterRanges ELSE "ranges"
    /\ UNCHANGED <<cursorVars, sharedVars, logsChan, mainVars, fetcherVars,
                   processorVars, ctxDone>>

ScheduleNil ==
    /\ schedulerPc = "nil"
    /\ HasRoom(blocksRangeChan, BlockRangesChanCap)
    /\ blocksRangeChan' = Append(blocksRangeChan, Nil)
    /\ schedulerPc' = "stopped"
    /\ UNCHANGED <<cursorVars, sharedVars, logsChan, mainVars, nextBlock,
                   fetcherVars, processorVars, ctxDone>>

SchedulerCancelled ==
    /\ ctxDone /\ schedulerPc = "ranges"
    /\ schedulerPc' = "stopped"
    /\ UNCHANGED <<cursorVars, sharedVars, chans, mainVars, nextBlock,
                   fetcherVars, processorVars, ctxDone>>

-----------------------------------------------------------------------------
(* StartLogsFetcher and StartLogsProcessor *)

TakeRange ==
    /\ fetcherPc = "take"
    /\ blocksRangeChan # <<>>
    /\ blocksRangeChan' = Tail(blocksRangeChan)
    /\ IF Head(blocksRangeChan) = Nil
       THEN UNCHANGED <<fetcherPc, current>>
       ELSE fetcherPc' = "fetch" /\ current' = Head(blocksRangeChan)
    /\ UNCHANGED <<cursorVars, sharedVars, logsChan, mainVars, schedulerVars,
                   pending, processorVars, ctxDone>>

RecordsAll(block, last) == TRUE

\* The early returns of recordFetchedBlockNumber and recordProcessedBlockNumber.
Records(block, last) == ~(block < last)

\* Both advance their half of the copy, then LogsCursors.Ensure stores all of it.
RecordFetched(block) ==
    /\ fetched' = IF Records(block, fetched) THEN block ELSE fetched
    /\ UNCHANGED <<processed, indexed>>
    /\ row' = IF Records(block, fetched) THEN Copy' ELSE row

RecordProcessed(block) ==
    /\ processed' = IF Records(block, processed) THEN block ELSE processed
    /\ UNCHANGED <<fetched, indexed>>
    /\ row' = IF Records(block, processed) THEN Copy' ELSE row

\* tryToFetchLogs up to recordFetchedBlockNumber.
FetchRange ==
    /\ ~ctxDone
    /\ fetcherPc = "fetch"
    /\ RecordFetched(current.to)
    /\ pending' = BatchesOf(current)
    /\ fetcherPc' = "submit"
    /\ UNCHANGED <<chans, mainVars, schedulerVars, current, processorVars, ctxDone>>

SubmitAnyBatch ==
    /\ fetcherPc = "submit"
    /\ HasRoom(logsChan, LogsChanCap)
    /\ \E b \in pending : logsChan' = Append(logsChan, b) /\ pending' = pending \ {b}
    /\ IF pending' = {}
       THEN fetcherPc' = "take" /\ current' = NoRange
       ELSE UNCHANGED <<fetcherPc, current>>
    /\ UNCHANGED <<cursorVars, sharedVars, blocksRangeChan, mainVars,
                   schedulerVars, processorVars, ctxDone>>

SubmitBatch ==
    /\ fetcherPc = "submit"
    /\ HasRoom(logsChan, LogsChanCap)
    /\ \E b \in pending :
         /\ \A c \in pending : b <= c
         /\ logsChan' = Append(logsChan, b)
         /\ pending' = pending \ {b}
    /\ IF pending' = {}
       THEN fetcherPc' = "take" /\ current' = NoRange
       ELSE UNCHANGED <<fetcherPc, current>>
    /\ UNCHANGED <<cursorVars, sharedVars, blocksRangeChan, mainVars,
                   schedulerVars, processorVars, ctxDone>>

FetcherCancelled ==
    /\ ctxDone /\ fetcherPc \in {"take", "fetch"}
    /\ fetcherPc' = "stopped"
    /\ UNCHANGED <<cursorVars, sharedVars, chans, mainVars, schedulerVars,
                   current, pending, processorVars, ctxDone>>

StopAfterNil == "stopped"

\* A nil element is skipped.
AfterNil == "take"

TakeBatch ==
    /\ processorPc = "take"
    /\ logsChan # <<>>
    /\ logsChan' = Tail(logsChan)
    /\ IF Head(logsChan) = Nil
       THEN processorPc' = AfterNil /\ batch' = batch
       ELSE processorPc' = "work" /\ batch' = Head(logsChan)
    /\ UNCHANGED <<cursorVars, sharedVars, blocksRangeChan, mainVars,
                   schedulerVars, fetcherVars, done, ctxDone>>

\* processLogsBatch.
ProcessBatch ==
    /\ ~ctxDone
    /\ processorPc = "work"
    /\ done' = done \cup {batch}
    /\ RecordProcessed(batch)
    /\ processorPc' = "take"
    /\ UNCHANGED <<chans, mainVars, schedulerVars, fetcherVars, batch, ctxDone>>

\* When it is cancelled the batch is not handled, but its block is recorded all
\* the same, in the copy: Ensure fails in a cancelled context.
DropBatch ==
    /\ ctxDone
    /\ processorPc = "work"
    /\ processed' = IF Records(batch, processed) THEN batch ELSE processed
    /\ processorPc' = "take"
    /\ UNCHANGED <<fetched, sharedVars, chans, mainVars, schedulerVars, fetcherVars,
                   batch, done, ctxDone>>

\* The row was stored but the answer is lost, or the context is cancelled
\* meanwhile: the goroutine is where it was, and tries again unless it stops.
StoreUnanswered ==
    /\ \/ fetcherPc = "fetch" /\ RecordFetched(current.to)
       \/ processorPc = "work" /\ RecordProcessed(batch)
    /\ UNCHANGED <<chans, mainVars, schedulerVars, fetcherVars, processorVars, ctxDone>>

\* The monitor indexes on, or starts again from the row, and stores what it has
\* reached or, late, an older copy of it.
MonitorStores ==
    /\ \E f, p \in 0..MaxCursor :
         /\ indexed.fetched <= f /\ indexed.processed <= p /\ p <= f
         /\ indexed' = [fetched |-> f, processed |-> p]
    /\ \E f, p \in 0..MaxCursor :
         /\ fetched <= f + MaxLate /\ f <= indexed'.fetched
         /\ processed <= p + MaxLate /\ p <= indexed'.processed /\ p <= f
         /\ row' = [fetched |-> f, processed |-> p]
    /\ UNCHANGED programVars

ProcessorCancelled ==
    /\ ctxDone /\ processorPc = "take"
    /\ processorPc' = "stopped"
    /\ UNCHANGED <<cursorVars, sharedVars, chans, mainVars, schedulerVars,
                   fetcherVars, batch, done, ctxDone>>

-----------------------------------------------------------------------------
(* The caller *)

SeeNoRanges ==
    /\ mainPc = "check" /\ ~finishedFetching
    /\ blocksRangeChan = <<>>
    /\ finishedFetching' = TRUE
    /\ mainPc' = "stub"
    /\ UNCHANGED <<cursorVars, sharedVars, chans, schedulerVars, fetcherVars,
                   processorVars, ctxDone>>

\* m.logsChan <- nil, whether or not the context is cancelled.
SubmitStub ==
    /\ mainPc = "stub"
    /\ HasRoom(logsChan, LogsChanCap)
    /\ logsChan' = Append(logsChan, Nil)
    /\ mainPc' = "check"
    /\ UNCHANGED <<cursorVars, sharedVars, blocksRangeChan, finishedFetching,
                   schedulerVars, fetcherVars, processorVars, ctxDone>>

SeeNoBatches ==
    /\ mainPc = "check" /\ finishedFetching
    /\ logsChan = <<>>
    /\ mainPc' = "returned"
    /\ UNCHANGED <<cursorVars, sharedVars, chans, finishedFetching,
                   schedulerVars, fetcherVars, processorVars, ctxDone>>

Sleep ==
    /\ mainPc = "check"
    /\ IF finishedFetching THEN logsChan # <<>> ELSE blocksRangeChan # <<>>
    /\ mainPc' = "sleep"
    /\ UNCHANGED <<cursorVars, sharedVars, chans, finishedFetching,
                   schedulerVars, fetcherVars, processorVars, ctxDone>>

WakeUp ==
    /\ mainPc = "sleep"
    /\ mainPc' \in IF ctxDone THEN {"check", "cancelled"} ELSE {"check"}
    /\ UNCHANGED <<cursorVars, sharedVars, chans, finishedFetching,
                   schedulerVars, fetcherVars, processorVars, ctxDone>>

\* The user interrupts the program.
Cancel ==
    /\ ~ctxDone
    /\ ctxDone' = TRUE
    /\ UNCHANGED <<cursorVars, sharedVars, chans, mainVars, schedulerVars,
                   fetcherVars, processorVars>>

-----------------------------------------------------------------------------

Ended == mainPc \in {"returned", "cancelled", "refused"}

Scheduler == ScheduleRange \/ ScheduleNil \/ SchedulerCancelled
LogsFetcher == TakeRange \/ FetchRange \/ SubmitBatch \/ FetcherCancelled
LogsProcessor == TakeBatch \/ ProcessBatch \/ DropBatch \/ ProcessorCancelled
Main == SeeNoRanges \/ SubmitStub \/ SeeNoBatches \/ Sleep \/ WakeUp

\* The program exits when ProcessBlockRange returns, and with it everything.
Exited == Ended /\ UNCHANGED vars

Next ==
    \/ ~Ended /\ (Scheduler \/ LogsFetcher \/ LogsProcessor \/ Main \/ Cancel)
    \/ ~Ended /\ (StoreUnanswered \/ MonitorStores)
    \/ Exited

Spec == Init /\ [][Next]_vars

\* The goroutines run; a request is not refused, nor its answer lost, forever.
\* Nothing is assumed of the monitor.  Once the context is
\* cancelled ContextSleep does not keep returning the timer's tick.
FairSpec ==
    /\ Spec
    /\ WF_vars(~Ended /\ Scheduler) /\ WF_vars(~Ended /\ LogsFetcher)
    /\ WF_vars(~Ended /\ LogsProcessor) /\ WF_vars(~Ended /\ Main)
    /\ SF_vars(~Ended /\ WakeUp /\ mainPc' = "cancelled")

-----------------------------------------------------------------------------
(* Properties *)

\* The types of the variables; only blocks of the request are touched.
TypeOK ==
    /\ processed \in Nat /\ fetched \in Nat
    /\ row \in [fetched: Nat, processed: Nat] /\ indexed \in [fetched: Nat, processed: Nat]
    /\ Len(blocksRangeChan) <= BlockRangesChanCap /\ Len(logsChan) <= LogsChanCap
    /\ mainPc \in {"check", "stub", "sleep", "returned", "cancelled", "refused"}
    /\ finishedFetching \in BOOLEAN
    /\ nextBlock \in FromBlock..(ToBlock + 1)
    /\ schedulerPc \in {"ranges", "nil", "stopped"}
    /\ fetcherPc \in {"take", "fetch", "submit", "stopped"}
    /\ pending \subseteq BatchesOf(current)
    /\ processorPc \in {"take", "work", "stopped"}
    /\ batch \in AllBatches \cup {0} /\ done \subseteq AllBatches
    /\ ctxDone \in BOOLEAN

\* No block is left out by a monitor that starts from the row.
RowWithinReach ==
    /\ row.fetched <= indexed.fetched
    /\ row.processed <= indexed.processed

\* The program does write the row of the monitor beside it: the early returns let
\* the block through that the cursor was at.  It does so for a request that ends
\* there only, and puts back the row as it was at the start, both halves of it; for
\* any other request it never writes the row, and its own copy never changes.  So
\* the row is never put ahead of what a monitor has reached, wherever the program
\* is interrupted: the monitor at most repeats what it did since.
SetBackOnlyAtCursor ==
    [][/\ UNCHANGED cursorVars
       /\ row' # row =>
            MonitorStores \/ (ToBlock = processed /\ row' = Copy)
       /\ RowWithinReach']_vars

\* What the nil element at the end of blocksRangeChan is for: once the ranges
\* and the nil were scheduled and the channel is empty again, every batch was
\* submitted.  (The caller looks at the length only, so it may see an empty
\* channel before.)
LastNilMeansSubmitted ==
    schedulerPc = "stopped" /\ ~ctxDone /\ ~Ended /\ blocksRangeChan = <<>> =>
      \A b \in AllBatches :
        \/ b \in done \/ (b = batch /\ processorPc = "work")
        \/ \E i \in 1..Len(logsChan) : logsChan[i] = b

\* The batches as logs of the indexer: one for each block.
AsLogs(batches) == {[block |-> b, index |-> 0] : b \in batches}

Idx == INSTANCE Indexer WITH
    Logs <- AsLogs(AllBatches), StartBlock <- FromBlock,
    handled <- AsLogs(done), mark <- FromBlock - 1

\* What the pipeline promises when it indexes it also promises when it processes
\* blocks again, through the same channels: the batches are handled in chain order,
\* none is skipped, and after an interrupt none is handled.
ImplementsIndexer == Idx!Spec

\* A program that is not interrupted ends: neither a nil element nor a full
\* channel keeps the caller waiting for ever.
Terminates == <>(Ended \/ ctxDone)

\* What the comment before the return of ProcessBlockRange says: "last nil
\* from m.logsChan was consumed, meaning that all previous values were
\* already processed".
ReturnsWhenProcessed == mainPc = "returned" /\ ~ctxDone => done = AllBatches
=============================================================================
