--------------------------- MODULE ContractMonitor ---------------------------
(***************************************************************************)
(* The indexing pipeline of one side of a bridge                           *)
(* (monitor/contract_monitor.go): three goroutines connected by two        *)
(* bounded channels, sharing one cursor that both the logs fetcher and the *)
(* logs processor store in the same database row.                          *)
(*                                                                         *)
(*   StartBlockFetcher --blocksRangeChan--> StartLogsFetcher               *)
(*                           --logsChan--> StartLogsProcessor              *)
(*                                                                         *)
(* headBlock and isSynced never influence the pipeline; SyncStatus models  *)
(* them.                                                                   *)
(*                                                                         *)
(* The definitions that no action uses (HasRoomAtCap, LogsBefore, ...) are *)
(* faulty variants of the definition that follows them.  They document     *)
(* which mistake each property would reveal (README.md).                   *)
(***************************************************************************)
EXTENDS Naturals, Sequences, FiniteSets

CONSTANTS
    Queries,             \* the eth_getLogs queries made for a block range
    Logs,                \* the logs they match, up to the end of the chain
    StartBlock,          \* first block to index
    MaxBlockRangeSize,   \* largest block range of a query
    BlockConfirmations,  \* distance kept from the reported chain head
    BlockRangesChanCap,  \* defaultBlockRangesChanCap
    LogsChanCap,         \* defaultLogsChanCap
    SafeLogsRequest,     \* use FilterLogsSafe instead of FilterLogs
    BatchAtOneHeight,    \* a node answers a batch of requests from one state
    NoRow,               \* "the logs_cursors row does not exist"
    InitialChainHead,    \* height of the chain when the monitor is installed
    MaxChainHead,        \* bound: height at which the chain stops growing
    MaxNodeLag,          \* how many blocks an RPC node may be behind
    MaxStops             \* bound: number of crashes and cancellations

Cursor == [fetched: Nat, processed: Nat]

ASSUME QueryAssumption == Logs \subseteq [block: Nat, index: Nat, query: Queries]
ASSUME LogsFinite == IsFiniteSet(Logs)
ASSUME BlockAssumption ==
    /\ StartBlock \in Nat \ {0}
    /\ \A l \in Logs : l.block >= StartBlock
ASSUME SizeAssumption ==
    /\ MaxBlockRangeSize \in Nat \ {0}
    /\ BlockRangesChanCap \in Nat \ {0}
    /\ LogsChanCap \in Nat \ {0}
ASSUME ChainAssumption ==
    /\ BlockConfirmations \in Nat
    /\ InitialChainHead \in Nat
    /\ MaxChainHead \in Nat
    /\ MaxNodeLag \in Nat
    /\ MaxStops \in Nat
    /\ BlockConfirmations + MaxNodeLag <= InitialChainHead
    /\ InitialChainHead <= MaxChainHead
ASSUME FlagAssumption == SafeLogsRequest \in BOOLEAN /\ BatchAtOneHeight \in BOOLEAN
ASSUME NoRowAssumption == NoRow \notin Cursor

VARIABLES
    chainHead,        \* height of the chain
    \* the database
    dbLogs,           \* table logs
    dbCursor,         \* row of the contract in table logs_cursors, or NoRow
    blockTimestamps,  \* table block_timestamps
    handled,          \* the logs whose handler has stored its records
    \* memory shared by the goroutines
    logsCursor,
    blocksRangeChan,
    logsChan,
    ctxDone,          \* the context is cancelled
    \* StartBlockFetcher: next block of the ranges to schedule, polled head
    fromBlock,
    head,
    \* Start (LoadUnprocessedLogs), then StartLogsFetcher
    fetcherPc,
    blocksRange,
    logs,
    \* StartLogsProcessor and the two goroutines of processLogsBatch
    processorPc,
    batch,
    todo,             \* logs left in the current attempt to handle the batch
    stamped,          \* the timestamp goroutine has returned
    \* the cursor a goroutine has sent to the database, or NoRow
    cursorWrite,
    stops             \* bound counter

dbVars == <<dbLogs, dbCursor, blockTimestamps, handled>>
blockFetcherVars == <<fromBlock, head>>
fetcherVars == <<fetcherPc, blocksRange, logs>>
processorVars == <<processorPc, batch, todo, stamped>>
vars == <<chainHead, dbVars, logsCursor, blocksRangeChan, logsChan, ctxDone,
          blockFetcherVars, fetcherVars, processorVars, cursorWrite, stops>>

-----------------------------------------------------------------------------

Range == [from: Nat, to: Nat]
Batch == [block: Nat, logs: SUBSET Logs]
Writers == {"fetcher", "processor"}

FetcherPcs == {"load", "take", "fetch", "save", "record", "cursor", "submit"}
ProcessorPcs == {"take", "work", "cursor"}

NoRange == [from |-> 1, to |-> 0]
NoBatch == [block |-> 0, logs |-> {}]
NoWrites == [g \in Writers |-> NoRow]

\* A send on a Go channel blocks while its buffer is full.
HasRoomAtCap(chan, cap) == Len(chan) <= cap

HasRoom(chan, cap) == Len(chan) < cap

LogsBefore(r) == {l \in Logs : r.from <= l.block /\ l.block < r.to}

\* The logs of a block range, both ends included.
LogsIn(r) == {l \in Logs : r.from <= l.block /\ l.block <= r.to}

\* The heights the node that answers a request may have.
NodeHeights == {h \in 0..chainHead : chainHead <= h + MaxNodeLag}

\* The cursor NewContractMonitor starts from.
BootCursor(row) ==
    IF row = NoRow
    THEN [fetched |-> StartBlock - 1, processed |-> StartBlock - 1]
    ELSE row

NothingUnprocessed(cursor) == [from |-> cursor.fetched + 1, to |-> cursor.fetched]

\* The blocks LoadUnprocessedLogs reads back: fetched but not processed.
Unprocessed(cursor) == [from |-> cursor.processed + 1, to |-> cursor.fetched]

Init ==
    /\ chainHead = InitialChainHead
    /\ dbLogs = {} /\ dbCursor = NoRow /\ blockTimestamps = {} /\ handled = {}
    /\ logsCursor = BootCursor(NoRow)
    /\ blocksRangeChan = <<>> /\ logsChan = <<>> /\ ctxDone = FALSE
    /\ head = logsCursor.fetched /\ fromBlock = head + 1
    /\ fetcherPc = "load" /\ blocksRange = Unprocessed(logsCursor) /\ logs = {}
    /\ processorPc = "take" /\ batch = NoBatch /\ todo = {} /\ stamped = FALSE
    /\ cursorWrite = NoWrites
    /\ stops = 0

-----------------------------------------------------------------------------
(* StartBlockFetcher *)

ReportedHead(n) == n

ConfirmedHead(n) == n - BlockConfirmations

UncutRange(from, to) == [from |-> from, to |-> from + MaxBlockRangeSize - 1]

\* The first batch of SplitBlockRange(from, to).
NextRange(from, to) ==
    LET last == from + MaxBlockRangeSize - 1
    IN  [from |-> from, to |-> IF last > to THEN to ELSE last]

\* client.BlockNumber: the answer of a node that may be behind.  The next
\* range starts after the previously polled head, even if that was higher.
PollHead ==
    /\ ~ctxDone
    /\ fromBlock > head
    /\ \E n \in NodeHeights : head' = ConfirmedHead(n)
    /\ fromBlock' = head + 1
    /\ UNCHANGED <<chainHead, dbVars, logsCursor, blocksRangeChan, logsChan,
                   ctxDone, fetcherVars, processorVars, cursorWrite, stops>>

\* One iteration over the batches of SplitBlockRange(start, head).
ScheduleRange ==
    /\ fromBlock <= head
    /\ HasRoom(blocksRangeChan, BlockRangesChanCap)
    /\ blocksRangeChan' = Append(blocksRangeChan, NextRange(fromBlock, head))
    /\ fromBlock' = fromBlock + MaxBlockRangeSize
    /\ UNCHANGED <<chainHead, dbVars, logsCursor, logsChan, ctxDone, head,
                   fetcherVars, processorVars, cursorWrite, stops>>

-----------------------------------------------------------------------------
(* Start: LoadUnprocessedLogs, then StartLogsFetcher *)

LoadUnprocessedLogs ==
    /\ ~ctxDone
    /\ fetcherPc = "load"
    /\ logs' = dbLogs \cap LogsIn(blocksRange)
    /\ fetcherPc' = "submit"
    /\ UNCHANGED <<chainHead, dbVars, logsCursor, blocksRangeChan, logsChan,
                   ctxDone, blockFetcherVars, blocksRange, processorVars,
                   cursorWrite, stops>>

TakeRange ==
    /\ fetcherPc = "take"
    /\ blocksRangeChan # <<>>
    /\ blocksRange' = Head(blocksRangeChan)
    /\ blocksRangeChan' = Tail(blocksRangeChan)
    /\ fetcherPc' = "fetch"
    /\ UNCHANGED <<chainHead, dbVars, logsCursor, logsChan, ctxDone, logs,
                   blockFetcherVars, processorVars, cursorWrite, stops>>

\* The heights at which a node may have read the logs of an answer that is
\* accepted.  FilterLogsSafe asks the same node for its height in the same
\* batch, after the logs, and refuses a height below the end of the range.
AcceptedHeights(to) ==
    {h \in NodeHeights :
       SafeLogsRequest => \E reported \in NodeHeights :
                            /\ h <= reported /\ to <= reported
                            /\ BatchAtOneHeight => h = reported}

\* The queries of tryToFetchLogs.  Each may be answered by another node; a
\* node returns the matching logs of the blocks it has.
FetchLogs ==
    /\ ~ctxDone
    /\ fetcherPc = "fetch"
    /\ \E height \in [Queries -> AcceptedHeights(blocksRange.to)] :
         logs' = {l \in LogsIn(blocksRange) : l.block <= height[l.query]}
    /\ fetcherPc' = IF logs' = {} THEN "record" ELSE "save"
    /\ UNCHANGED <<chainHead, dbVars, logsCursor, blocksRangeChan, logsChan,
                   ctxDone, blockFetcherVars, blocksRange, processorVars,
                   cursorWrite, stops>>

\* repo.Logs.Ensure, one statement for all logs.
SaveLogs ==
    /\ ~ctxDone
    /\ fetcherPc = "save"
    /\ dbLogs' = dbLogs \cup logs
    /\ fetcherPc' = "record"
    /\ UNCHANGED <<chainHead, dbCursor, blockTimestamps, handled, logsCursor,
                   blocksRangeChan, logsChan, ctxDone, blockFetcherVars,
                   blocksRange, logs, processorVars, cursorWrite, stops>>

\* The statement fails, or its answer is lost: the range is fetched again.
SaveLogsFails ==
    /\ fetcherPc = "save"
    /\ dbLogs' \in {dbLogs, dbLogs \cup logs}
    /\ fetcherPc' = "fetch"
    /\ logs' = {}
    /\ UNCHANGED <<chainHead, dbCursor, blockTimestamps, handled, logsCursor,
                   blocksRangeChan, logsChan, ctxDone, blockFetcherVars,
                   blocksRange, processorVars, cursorWrite, stops>>

RecordNothing ==
    /\ fetcherPc = "record"
    /\ fetcherPc' = "cursor"
    /\ UNCHANGED <<chainHead, dbVars, logsCursor, blocksRangeChan, logsChan,
                   ctxDone, blockFetcherVars, blocksRange, logs,
                   processorVars, cursorWrite, stops>>

\* recordFetchedBlockNumber, the update in memory.
RecordFetchedBlockNumber ==
    /\ fetcherPc = "record"
    /\ IF blocksRange.to < logsCursor.fetched
       THEN fetcherPc' = "submit" /\ logsCursor' = logsCursor
       ELSE /\ logsCursor' = [logsCursor EXCEPT !.fetched = blocksRange.to]
            /\ fetcherPc' = "cursor"
    /\ UNCHANGED <<chainHead, dbVars, blocksRangeChan, logsChan, ctxDone,
                   blockFetcherVars, blocksRange, logs, processorVars,
                   cursorWrite, stops>>

\* submitLogs: a batch for every block that has logs, in block order, then
\* an empty one for the end of the range unless that block had logs.
SubmitBatch ==
    /\ fetcherPc = "submit"
    /\ HasRoom(logsChan, LogsChanCap)
    /\ \E b \in {l.block : l \in logs} \cup {blocksRange.to} :
         LET now == {l \in logs : l.block = b} IN
         /\ \A l \in logs : b <= l.block
         /\ logsChan' = Append(logsChan, [block |-> b, logs |-> now])
         /\ logs' = logs \ now
         /\ IF b = blocksRange.to
            THEN fetcherPc' = "take" /\ blocksRange' = NoRange
            ELSE fetcherPc' = "submit" /\ blocksRange' = blocksRange
    /\ UNCHANGED <<chainHead, dbVars, logsCursor, blocksRangeChan, ctxDone,
                   blockFetcherVars, processorVars, cursorWrite, stops>>

-----------------------------------------------------------------------------
(* StartLogsProcessor *)

TakeBatch ==
    /\ processorPc = "take"
    /\ logsChan # <<>>
    /\ batch' = Head(logsChan)
    /\ logsChan' = Tail(logsChan)
    /\ todo' = batch'.logs
    /\ stamped' = FALSE
    /\ processorPc' = "work"
    /\ UNCHANGED <<chainHead, dbVars, logsCursor, blocksRangeChan, ctxDone,
                   blockFetcherVars, fetcherVars, cursorWrite, stops>>

\* tryToGetBlockTimestamp: the row exists or is stored.  The answer of the
\* database may be lost, in which case the attempt is repeated.
GetBlockTimestamp ==
    /\ ~ctxDone
    /\ processorPc = "work"
    /\ ~stamped
    /\ blockTimestamps' = blockTimestamps \cup {batch.block}
    /\ stamped' \in BOOLEAN
    /\ UNCHANGED <<chainHead, dbLogs, dbCursor, handled, logsCursor,
                   blocksRangeChan, logsChan, ctxDone, blockFetcherVars,
                   fetcherVars, processorPc, batch, todo, cursorWrite, stops>>

AnyLog(l) == l \in todo

\* The logs of a batch are sorted by their index.
NextLog(l) == l \in todo /\ \A k \in todo : l.index <= k.index

\* One iteration of tryToProcessLogsBatch: the handler of the next log.
HandleLog(l) ==
    /\ ~ctxDone
    /\ processorPc = "work"
    /\ NextLog(l)
    /\ handled' = handled \cup {l}
    /\ todo' = todo \ {l}
    /\ UNCHANGED <<chainHead, dbLogs, dbCursor, blockTimestamps, logsCursor,
                   blocksRangeChan, logsChan, ctxDone, blockFetcherVars,
                   fetcherVars, processorPc, batch, stamped, cursorWrite, stops>>

\* A handler fails: the whole batch is attempted again from its first log.
HandleLogFails ==
    /\ processorPc = "work"
    /\ todo # {}
    /\ todo' = batch.logs
    /\ UNCHANGED <<chainHead, dbVars, logsCursor, blocksRangeChan, logsChan,
                   ctxDone, blockFetcherVars, fetcherVars, processorPc, batch,
                   stamped, cursorWrite, stops>>

\* After a cancellation an attempt fails and its goroutine returns.
AbandonBatch ==
    /\ ctxDone
    /\ processorPc = "work"
    /\ \/ ~stamped /\ stamped' = TRUE /\ todo' = todo
       \/ todo # {} /\ todo' = {} /\ stamped' = stamped
    /\ UNCHANGED <<chainHead, dbVars, logsCursor, blocksRangeChan, logsChan,
                   ctxDone, blockFetcherVars, fetcherVars, processorPc, batch,
                   cursorWrite, stops>>

LogsDone == todo = {}

\* wg.Wait: both goroutines of processLogsBatch have returned.
BothReturned == todo = {} /\ stamped

\* wg.Wait, then recordProcessedBlockNumber, the update in memory.  Nothing
\* checks whether the two goroutines succeeded or were cancelled.
RecordProcessedBlockNumber ==
    /\ processorPc = "work"
    /\ BothReturned
    /\ stamped' = FALSE
    /\ IF batch.block < logsCursor.processed
       THEN /\ processorPc' = "take"
            /\ batch' = NoBatch
            /\ logsCursor' = logsCursor
       ELSE /\ processorPc' = "cursor"
            /\ batch' = batch
            /\ logsCursor' = [logsCursor EXCEPT !.processed = batch.block]
    /\ UNCHANGED <<chainHead, dbVars, blocksRangeChan, logsChan, ctxDone,
                   blockFetcherVars, fetcherVars, todo, cursorWrite, stops>>

-----------------------------------------------------------------------------
(* repo.LogsCursors.Ensure, called by both goroutines.  It reads both      *)
(* fields of the shared cursor, and the row is overwritten some time later.*)

AtCursor(g) ==
    IF g = "fetcher" THEN fetcherPc = "cursor" ELSE processorPc = "cursor"

SendCursor(g) ==
    /\ ~ctxDone
    /\ AtCursor(g)
    /\ cursorWrite[g] = NoRow
    /\ cursorWrite' = [cursorWrite EXCEPT ![g] = logsCursor]
    /\ UNCHANGED <<chainHead, dbVars, logsCursor, blocksRangeChan, logsChan,
                   ctxDone, blockFetcherVars, fetcherVars, processorVars, stops>>

FetcherGivesUp(ok) ==
    /\ fetcherPc' = IF ok THEN "submit" ELSE "take"
    /\ logs' = IF ok THEN logs ELSE {}
    /\ UNCHANGED <<blocksRange, processorVars>>

\* What the goroutine does when Ensure has returned.
FetcherWrote(ok) ==
    /\ fetcherPc' = IF ok THEN "submit" ELSE "fetch"
    /\ logs' = IF ok THEN logs ELSE {}
    /\ UNCHANGED <<blocksRange, processorVars>>

ProcessorGivesUp(ok) ==
    /\ processorPc' = "take" /\ batch' = NoBatch
    /\ UNCHANGED <<fetcherVars, todo, stamped>>

ProcessorWrote(ok) ==
    /\ IF ok \/ ctxDone
       THEN processorPc' = "take" /\ batch' = NoBatch
       ELSE processorPc' = "cursor" /\ batch' = batch
    /\ UNCHANGED <<fetcherVars, todo, stamped>>

Wrote(g, ok) == IF g = "fetcher" THEN FetcherWrote(ok) ELSE ProcessorWrote(ok)

\* The row is stored; the table's constraint is last_processed <= last_fetched.
CursorStored(g) ==
    /\ cursorWrite[g] # NoRow
    /\ cursorWrite[g].processed <= cursorWrite[g].fetched
    /\ dbCursor' = cursorWrite[g]
    /\ cursorWrite' = [cursorWrite EXCEPT ![g] = NoRow]
    /\ Wrote(g, TRUE)
    /\ UNCHANGED <<chainHead, dbLogs, blockTimestamps, handled, logsCursor,
                   blocksRangeChan, logsChan, ctxDone, blockFetcherVars, stops>>

\* The statement fails, or it succeeds and its answer is lost.
CursorFails(g) ==
    /\ cursorWrite[g] # NoRow
    /\ \/ dbCursor' = dbCursor
       \/ /\ cursorWrite[g].processed <= cursorWrite[g].fetched
          /\ dbCursor' = cursorWrite[g]
    /\ cursorWrite' = [cursorWrite EXCEPT ![g] = NoRow]
    /\ Wrote(g, FALSE)
    /\ UNCHANGED <<chainHead, dbLogs, blockTimestamps, handled, logsCursor,
                   blocksRangeChan, logsChan, ctxDone, blockFetcherVars, stops>>

\* With a cancelled context Ensure returns before it sends anything.
CursorCancelled(g) ==
    /\ ctxDone
    /\ AtCursor(g)
    /\ cursorWrite[g] = NoRow
    /\ Wrote(g, FALSE)
    /\ UNCHANGED <<chainHead, dbVars, logsCursor, blocksRangeChan, logsChan,
                   ctxDone, blockFetcherVars, cursorWrite, stops>>

-----------------------------------------------------------------------------
(* The environment *)

GrowChain ==
    /\ chainHead < MaxChainHead
    /\ chainHead' = chainHead + 1
    /\ UNCHANGED <<dbVars, logsCursor, blocksRangeChan, logsChan, ctxDone,
                   blockFetcherVars, fetcherVars, processorVars, cursorWrite, stops>>

\* main cancels the context on an interrupt and returns soon after.
Cancel ==
    /\ ~ctxDone
    /\ stops < MaxStops
    /\ ctxDone' = TRUE
    /\ stops' = stops + 1
    /\ UNCHANGED <<chainHead, dbVars, logsCursor, blocksRangeChan, logsChan,
                   blockFetcherVars, fetcherVars, processorVars, cursorWrite>>

\* The process ends and is started again: NewContractMonitor and Start.
Boot ==
    /\ logsCursor' = BootCursor(dbCursor)
    /\ blocksRangeChan' = <<>> /\ logsChan' = <<>> /\ ctxDone' = FALSE
    /\ head' = logsCursor'.fetched /\ fromBlock' = head' + 1
    /\ fetcherPc' = "load" /\ blocksRange' = Unprocessed(logsCursor') /\ logs' = {}
    /\ processorPc' = "take" /\ batch' = NoBatch /\ todo' = {} /\ stamped' = FALSE
    /\ cursorWrite' = NoWrites
    /\ UNCHANGED <<chainHead, dbVars>>

Crash == ~ctxDone /\ stops < MaxStops /\ stops' = stops + 1 /\ Boot

Exit == ctxDone /\ stops' = stops /\ Boot

-----------------------------------------------------------------------------

BlockFetcher == PollHead \/ ScheduleRange

LogsFetcher ==
    \/ LoadUnprocessedLogs \/ TakeRange \/ FetchLogs \/ SaveLogs \/ SaveLogsFails
    \/ RecordFetchedBlockNumber \/ SubmitBatch

LogsProcessor ==
    \/ TakeBatch \/ GetBlockTimestamp \/ HandleLogFails \/ AbandonBatch
    \/ RecordProcessedBlockNumber
    \/ \E l \in Logs : HandleLog(l)

CursorWriter ==
    \E g \in Writers :
      SendCursor(g) \/ CursorStored(g) \/ CursorFails(g) \/ CursorCancelled(g)

Environment == GrowChain \/ Cancel \/ Crash \/ Exit

Next == BlockFetcher \/ LogsFetcher \/ LogsProcessor \/ CursorWriter \/ Environment

Spec == Init /\ [][Next]_vars

\* The head has to be polled again only if every node reports another one:
\* nothing says that a poll ever reaches the highest node.
HeadMoved == \A n \in NodeHeights : ConfirmedHead(n) # head

\* Every goroutine keeps running, and an operation that is attempted again
\* and again does not fail every time; a process that ended is started again
\* (docker-compose.prod.yml: restart: unless-stopped).
Fairness ==
    /\ WF_vars(HeadMoved /\ PollHead) /\ WF_vars(ScheduleRange)
    /\ WF_vars(LoadUnprocessedLogs) /\ WF_vars(TakeRange)
    /\ WF_vars(FetchLogs) /\ SF_vars(SaveLogs)
    /\ WF_vars(RecordFetchedBlockNumber) /\ WF_vars(SubmitBatch)
    /\ WF_vars(TakeBatch) /\ WF_vars(GetBlockTimestamp /\ stamped')
    /\ \A l \in Logs : SF_vars(HandleLog(l))
    /\ WF_vars(RecordProcessedBlockNumber)
    /\ \A g \in Writers : WF_vars(SendCursor(g)) /\ SF_vars(CursorStored(g))
    /\ WF_vars(Exit)

FairSpec == Spec /\ Fairness

-----------------------------------------------------------------------------
(* Properties *)

\* Why the fetched logs are complete: the node that answers had the range.
CompleteFetch ==
    (SafeLogsRequest /\ BatchAtOneHeight) \/ MaxNodeLag <= BlockConfirmations

\* The types of the variables; todo is part of the batch being processed, and
\* a goroutine with a write in flight waits for it.
TypeOK ==
    /\ chainHead \in InitialChainHead..MaxChainHead
    /\ dbLogs \subseteq Logs /\ handled \subseteq Logs
    /\ dbCursor \in Cursor \cup {NoRow} /\ blockTimestamps \subseteq Nat
    /\ logsCursor \in Cursor
    /\ blocksRangeChan \in Seq(Range) /\ Len(blocksRangeChan) <= BlockRangesChanCap
    /\ logsChan \in Seq(Batch) /\ Len(logsChan) <= LogsChanCap
    /\ ctxDone \in BOOLEAN
    /\ fromBlock \in Nat /\ head \in Nat
    /\ fetcherPc \in FetcherPcs /\ blocksRange \in Range /\ logs \subseteq Logs
    /\ processorPc \in ProcessorPcs /\ batch \in Batch
    /\ todo \subseteq batch.logs /\ stamped \in BOOLEAN
    /\ processorPc # "work" => todo = {}
    /\ cursorWrite \in [Writers -> Cursor \cup {NoRow}]
    /\ \A g \in Writers : AtCursor(g) \/ cursorWrite[g] = NoRow
    /\ stops \in 0..MaxStops

Rows == {dbCursor} \ {NoRow}
SentRows == {cursorWrite[g] : g \in Writers} \ {NoRow}

\* Logs up to the fetched block are saved to the database, for the cursor in
\* memory (metric latest_fetched_block) and for the stored row a restart
\* continues from: recordFetchedBlockNumber runs only after Logs.Ensure, and
\* neither a lagging node, a retry, a lost update of the row nor a restart
\* leaves a gap.
FetchedAreStored ==
    \A c \in {logsCursor} \cup Rows : \A l \in Logs :
        l.block <= c.fetched => l \in dbLogs

\* Logs up to the processed block have been handled: for the stored row
\* always, for the cursor in memory until the context is cancelled (then
\* processLogsBatch records a batch whose handlers gave up).
ProcessedAreHandled ==
    \A c \in Rows \cup (IF ctxDone THEN {} ELSE {logsCursor}) : \A l \in Logs :
        l.block <= c.processed => l \in handled

\* No write of the row is ever refused by processed_before_fetched, although
\* each goroutine stores the other one's half of the cursor: a refused write
\* would be retried with the same result.
ConstraintNeverRefuses ==
    \A row \in SentRows : row.processed <= row.fetched

\* The stored processed block has a timestamp, unless nothing was processed
\* yet: findMinProcessedTime of the alerts joins the two tables.
ProcessedHasTimestamp ==
    \A row \in Rows :
        row.processed \in blockTimestamps \/ row.processed = StartBlock - 1

\* A log that was fetched is never forgotten while the process runs: it is
\* handled, or still on its way through the range being fetched, the batches
\* being submitted, the logs channel and the batch being processed.
FetchedInPipeline ==
    ctxDone \/ \A l \in Logs : l.block <= logsCursor.fetched =>
        \/ l \in handled
        \/ l \in batch.logs
        \/ \E i \in 1..Len(logsChan) : l \in logsChan[i].logs
        \/ fetcherPc = "submit" /\ l \in logs
        \/ fetcherPc # "submit" /\ l \in LogsIn(blocksRange)

\* The pipeline handles logs in chain order and stores only marks that are
\* covered by what was handled, across restarts, replays and lost updates.
Idx == INSTANCE Indexer WITH mark <- BootCursor(dbCursor).processed
ImplementsIndexer == Idx!Spec

\* Every log that all nodes see with enough confirmations is handled, and
\* the stored cursor reaches every such block, whatever fails and restarts.
Confirmed(n) == n + BlockConfirmations + MaxNodeLag <= chainHead

ConfirmedAreHandled ==
    \A l \in Logs : Confirmed(l.block) ~> l \in handled

StoredCursorCatchesUp ==
    \A n \in StartBlock..MaxChainHead :
        Confirmed(n) ~> (dbCursor # NoRow /\ dbCursor.processed >= n)
=============================================================================
