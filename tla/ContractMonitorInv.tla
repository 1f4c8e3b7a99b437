------------------------- MODULE ContractMonitorInv -------------------------
(***************************************************************************)
(* The inductive invariant of ContractMonitor: why the pipeline has no     *)
(* gap.  Its parts follow a block on its way: from the polled head through *)
(* blocksRangeChan (RangesContiguous), through the fetch into the database *)
(* (FetchedRange, RowsCovered), through logsChan (BatchesOrdered) to the   *)
(* handlers (BatchHandled).                                                *)
(***************************************************************************)
EXTENDS ContractMonitor

HandledUpTo(n) == \A l \in Logs : l.block <= n => l \in handled
StoredUpTo(n) == \A l \in Logs : l.block <= n => l \in dbLogs

\* Block n directly follows, or is not beyond, what was fetched, what is
\* being fetched, or one of the first k ranges of the channel.
Reached(n, fetched, current, ranges, k) ==
    \/ n <= fetched + 1
    \/ n <= current.to + 1
    \/ \E j \in 1..k : n <= ranges[j].to + 1

\* No range leaves a gap behind the ranges before it.
RangesContiguous ==
    /\ blocksRange.from <= logsCursor.fetched + 1
    /\ \A i \in 1..Len(blocksRangeChan) :
         Reached(blocksRangeChan[i].from, logsCursor.fetched, blocksRange,
                 blocksRangeChan, i - 1)
    /\ Reached(IF fromBlock <= head THEN fromBlock ELSE head + 1,
               logsCursor.fetched, blocksRange, blocksRangeChan, Len(blocksRangeChan))

\* The ranges to fetch keep the distance to the chain head.
RangesConfirmed ==
    /\ fromBlock <= head => head + BlockConfirmations <= chainHead
    /\ \A i \in 1..Len(blocksRangeChan) :
         blocksRangeChan[i].to + BlockConfirmations <= chainHead
    /\ fetcherPc \in {"fetch", "save", "record", "cursor"} =>
         blocksRange.to + BlockConfirmations <= chainHead

\* What the fetcher holds: all logs of its range, saved before the range is
\* recorded; a range is submitted only after it was recorded.
FetchedRange ==
    /\ fetcherPc = "take" => blocksRange = NoRange
    /\ fetcherPc \in {"load", "take", "fetch"} => logs = {}
    /\ fetcherPc \in {"save", "record", "cursor"} => logs = LogsIn(blocksRange)
    /\ fetcherPc \in {"record", "cursor"} => logs \subseteq dbLogs
    /\ fetcherPc = "submit" => logs \subseteq LogsIn(blocksRange)
    /\ fetcherPc \in {"load", "cursor", "submit"} => blocksRange.to <= logsCursor.fetched
    /\ StartBlock <= logsCursor.fetched + 1
    /\ StoredUpTo(logsCursor.fetched)

\* A cursor that was sent to the database or stored there can be the start
\* of a new process.
Covered(row) ==
    /\ row.processed <= row.fetched
    /\ StartBlock <= row.processed + 1
    /\ StoredUpTo(row.fetched)
    /\ HandledUpTo(row.processed)

RowsCovered == \A row \in Rows \cup SentRows : Covered(row)

\* A batch holds logs of one block, not beyond the fetched block.
WellFormed(b, fetched) ==
    /\ b.block <= fetched
    /\ \A l \in b.logs : l.block = b.block

BatchesFormed ==
    /\ WellFormed(batch, logsCursor.fetched)
    /\ \A i \in 1..Len(logsChan) : WellFormed(logsChan[i], logsCursor.fetched)
    /\ logsCursor.processed <= logsCursor.fetched
    /\ StartBlock <= logsCursor.processed + 1

\* A log is done, or in one of the first k batches of the channel.
Held(l, done, batches, k) ==
    l \in done \/ \E j \in 1..k : l \in batches[j].logs

\* No batch leaves a log behind that is not handled, in the batch being
\* processed, or in a batch that is not later than it.
BatchesOrdered ==
    /\ \A l \in Logs : l.block <= batch.block => l \in handled \cup batch.logs
    /\ \A i \in 1..Len(logsChan) : \A l \in Logs :
         l.block <= logsChan[i].block => Held(l, handled \cup batch.logs, logsChan, i)

\* The batch being processed is dropped only when its logs are handled.
BatchHandled ==
    /\ batch.logs \subseteq handled \cup todo
    /\ processorPc = "take" => batch = NoBatch
    /\ HandledUpTo(logsCursor.processed)

\* A cancelled process may drop what it holds; what it stored stays covered.
Pipeline == BatchesOrdered /\ FetchedInPipeline /\ BatchHandled

\* What is processed has a timestamp before it becomes a mark.
Stamped(n) == n \in blockTimestamps \/ n = StartBlock - 1

MarksStamped ==
    /\ \A row \in Rows \cup SentRows : Stamped(row.processed)
    /\ ctxDone \/ Stamped(logsCursor.processed)
    /\ stamped => processorPc = "work" /\ (ctxDone \/ batch.block \in blockTimestamps)

IInv ==
    /\ RangesContiguous
    /\ RangesConfirmed
    /\ FetchedRange
    /\ RowsCovered
    /\ BatchesFormed
    /\ ctxDone \/ Pipeline
    /\ MarksStamped
=============================================================================
