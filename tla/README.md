# tokenbridge-monitor in TLA+

Formal models of [tokenbridge-monitor](../src/README.md), a Go program that
indexes the events of AMB and ERC_TO_NATIVE token bridges from two chains into
PostgreSQL, raises alerts about them and presents them over HTTP. The models
are TLA+ modules translated from the code under `src/`; TLC checks them on small
instances, and TLAPS checks proofs that hold for every value of the constants.

* [The system](#the-system)
* [The modules](#the-modules)
* [The runs](#the-runs)
* [Fairness](#fairness)
* [The proofs](#the-proofs)
* [Disagreements between code and documentation](#disagreements-between-code-and-documentation)
* [What is not modelled](#what-is-not-modelled)
* [Plan](#plan)

## The system

| component | state | operations | interacts with |
|---|---|---|---|
| indexing pipeline (`monitor/contract_monitor.go`, `monitor/types.go`), one per bridge side | cursor (`LastFetchedBlock`, `LastProcessedBlock`), `blocksRangeChan`, `logsChan`, `headBlock`, `isSynced` | `StartBlockFetcher`, `LoadUnprocessedLogs`, `StartLogsFetcher`, `StartLogsProcessor`, `ProcessBlockRange` | RPC client (polls, queries), repositories (rows), event handlers (calls), alerts (`IsSynced`) |
| RPC client (`ethclient`) | none; behind it several nodes at different heights | `BlockNumber`, `FilterLogs`, `FilterLogsSafe`, `HeaderByNumber` | pipeline, handlers |
| event handlers (`monitor/handlers.go`, `decoders.go`, `utils.go`) | none of their own | one handler per event of the bridge contracts | called by the logs processor; write bridge tables |
| repositories and schema (`repository`, `db/migrations`) | the tables, with their unique indices, foreign keys and the check `processed_before_fetched` | `Ensure` (an upsert) and the finders of every table | everything |
| alerts (`monitor/alerts`) | Prometheus gauges | one job per alert: SQL over the tables, under a timeout, while both sides are synced | repositories, pipeline |
| bridge monitor (`monitor/monitor.go`, `cmd/monitor`) | the two pipelines and the alert manager | start, cancellation on an interrupt | all of the above |
| reprocessing (`cmd/reprocess_block_range`) | as the pipeline | `ProcessBlockRange` once, then exit | the same tables as a running monitor |
| timestamp repair (`cmd/fix_block_timestamps`) | none | deletes and refetches `block_timestamps` rows | the same tables |
| presenter (`presenter`) | none | read-only HTTP handlers | repositories |
| configuration (`config`) | the parsed file | read once | everything |

What is hard here:

* **Three goroutines and two bounded channels per contract.** Every send blocks
  on a full channel; most do not watch the context. `cmd/reprocess_block_range`
  adds a caller that decides from channel *lengths* whether the work is done.
* **One database row, two writers.** The fetcher and the processor each store
  both halves of the shared cursor; an old value may be stored last, and the
  row carries a check constraint.
* **Crashes.** The progress of a process is its cursor row; whatever was in a
  channel is gone. The logs between the two halves of the cursor are read back.
* **Unreliable nodes.** An RPC endpoint may stand for several nodes. The head
  may be polled from a node that is ahead of the one that answers `eth_getLogs`.
* **Retries.** Every operation is repeated until it succeeds, also when only its
  answer was lost; handlers run again for logs that were already handled.
* **Machine arithmetic.** Block numbers are `uint`; heads have confirmations
  subtracted from them.

What makes the components correct:

* pipeline: no log of a recorded block is ever missing (fetched ⇒ saved,
  processed ⇒ handled), logs are handled in chain order, progress resumes after
  any failure;
* sync status: the flag settles on the truth, because it switches the alerts;
* reprocessing: it returns, not before the work is done, and never puts the cursor of
  a monitor ahead of what that has indexed;
* ranges and batches: each block and each log exactly once;
* queries: the logs of a range are those the configuration says belong to the
  side, each once, also after a restart and for tokens with blocks of their own;
* alerts: once both sides are being indexed, no job takes a sent message for an unknown one
  because the side that sent it is behind, and what a job publishes settles on what the history
  of the two chains calls for;
* presenter: what it answers is right for the tables as they were when the request
  began or are since, although its queries see them at different times;
* bridge tables: a payment is one message with its sender, what was handled is
  stored, the active validators are those of the chain, and handling a log again
  never fails for ever.

`PROJECT.json` lists the hazards one by one, at the line where they bite, with
the properties that cover them.

## The modules

| module | models | correspondence |
|---|---|---|
| `Indexer` | the promise of the pipeline to the rest of the monitor | `handled`: logs whose handler has completed; `mark`: the stored `last_processed_block`. `Handle` may take a log only after all earlier ones, `SetMark` may set any mark that is covered |
| `ContractMonitor` | the pipeline | one action per step between two effects another goroutine can see; the two channels are sequences with the capacities of the code, `dbLogs`, `dbCursor`, `blockTimestamps`, `handled` are tables, `logsCursor` is the memory shared by the goroutines |
| `ContractMonitorInv` | the inductive invariant `IInv` of `ContractMonitor` | |
| `MCContractMonitor` | instances: blocks without logs, with one log, with logs of two queries | |
| `ContractMonitorProofs` | theorems about `ContractMonitor` | |
| `SyncStatus`, `SyncStatusProofs` | `recordHeadBlockNumber`, `recordProcessedBlockNumber`, `recordIsSynced` | the read and the write of the flag are steps of their own |
| `ReprocessRange`, `ReprocessRangeProofs` | `ProcessBlockRange` and its four goroutines, and the cursor row of a monitor that runs beside it | a batch is its block number; for `Indexer` a batch is a log, and the mark, which is the monitor's, stays where it is |
| `BlockRanges` | `SplitBlockRange` with the computation of the head, modulo 2^w | one loop iteration per step |
| `FilterQueries`, `FilterQueriesProofs` (with the theorems about `BlockRanges`) | which logs belong to a side: the configuration, `buildFilterQueries`, `LoadUnprocessedLogs` | operators; see below |
| `LogBatches`, `MCLogBatches`, `LogBatchesProofs` | a range that `BlockRanges` split off, through the fetcher, `submitLogs` and `SplitLogsInBatches`; two ranges that are loaded after a restart | one loop iteration per step |
| `BridgeTables` | the tables of a bridge as their readers see them: filled in chain order by the handlers of two sides (`TablesSpec`) | see below |
| `Alerts`, `AlertsProofs` | the jobs of `monitor/alerts` over two indexed sides, and `fix_block_timestamps` | see below |
| `EventHandlers`, `EventHandlersProofs` | the event handlers of one side and the tables they write, run by the monitor and by `reprocess_block_range` | see below |
| `MCEventHandlers` | a history with a payment and its transfer, direct transfers, validators that come and go, one of them since before the start block | |
| `MCAlerts` | a history with a message in each direction, a forged one and an information request | |
| `Presenter`, `PresenterProofs` | the requests of the HTTP API that take several queries, over `BridgeTables` | see below |
| `MCReaders` | the alert jobs and the presenter over one `BridgeTables` | |

`FilterQueries` extends `BlockRanges` and is extended by `LogBatches`, as the
functions call each other; `Alerts` and `Presenter` extend `BridgeTables`, whose
variables they only read (the repair tool excepted, which deletes timestamps).

Two abstract specifications tie the modules together. `Indexer` is what a pipeline promises of the
handlers it calls; `ContractMonitor` and `ReprocessRange` implement it. `TablesSpec` of
`BridgeTables` is what the handlers promise of the tables they fill; `EventHandlers`
implements it, and the steps of the alert jobs and of the presenter are interleaved with its steps.
Both refinements of `Indexer` and that of `TablesSpec` are checked by TLC and proved.

### ContractMonitor

`StartBlockFetcher` is `PollHead` and `ScheduleRange`: a poll may be answered by
any node at most `MaxNodeLag` behind the chain, and the next range starts after
the *previously polled* head, whatever that was. `Start` and `StartLogsFetcher`
are `LoadUnprocessedLogs`, `TakeRange`, `FetchLogs` (one node height per query),
`SaveLogs`, `RecordFetchedBlockNumber`, `SubmitBatch`. `StartLogsProcessor` is
`TakeBatch`, then the two goroutines of `processLogsBatch`, `GetBlockTimestamp`
and `HandleLog` per log, then `RecordProcessedBlockNumber`. `LogsCursors.Ensure`
is shared by both: `SendCursor` copies both halves of the cursor, and some time
later the row is overwritten (`CursorStored`), or not (`CursorFails`, also with
a lost answer). `Cancel` is the interrupt; after it, operations that use the
context fail and their loops return (`AbandonBatch`, `CursorCancelled`). `Crash`
and `Exit` end the process and boot a new one from the row.

`FilterLogsSafe` asks for logs and for the height of the node in one JSON-RPC
batch, in that order. `BatchAtOneHeight` says whether a node answers such a
batch from one state; nothing in the JSON-RPC specification says so.

A goroutine that calls `Ensure` waits for its result, so at most one write per
goroutine is in flight; `cursorWrite` holds it. A statement whose client died is
taken not to be stored after the restart.

### FilterQueries

The same question is answered three times. `OfSide` is the answer of the
configuration file: a log of the bridge or validator contract, or a transfer to the
bridge of a token, in the blocks the file gives for it. `FilterQueries` are the
queries of `buildFilterQueries` after `BridgeSideConfig.init` has put in default
blocks (`Tokens`). `StoredLogs` is the query to the table after a restart, which is by
address only (`ContractAddresses`): it is right because of what has been stored, not
by itself. A log consists of what the queries look at. Assumed are tokens
that are not contracts of the bridge, and that a token that is listed twice has blocks
apart. Nothing in the code checks that; two queries would then find the same log, and
one statement cannot store it twice. A token that two bridges of one database share is left
out as well: after a restart `LoadUnprocessedLogs` would take the transfers to the
other bridge for its own, and `HandleErcToNativeTransfer` does not look at the receiver.

### BridgeTables and Alerts

`Logs` is the history of both chains: the events whose handler stores a row. Of
the pipeline of each side only what `Indexer` promises is used: `EnsureMessage`
and `EnsureRow` handle logs in chain order (a handler of a sent message stores
the message first, in a statement of its own), `RecordProcessed` stores a
processed block whose logs and timestamp are stored, and `StoreOldCursor` lets
the row fall back, as a crash, the fetcher's older copy or `reprocess_block_range` may. A side
that was never indexed has no row (`processed[s]` is empty) and no timestamps; block 0 stands for
`StartBlock - 1`, which the fetcher may store without a timestamp. Both sides
advance independently. The link to `ContractMonitor` is `ImplementsIndexer` and
`ProcessedHasTimestamp`, which the run `pipeline_safe` checks.

The jobs only read the tables and each has a gauge of its own, so one `job`
(chosen at the start, any of the configured ones) is followed through an
iteration: `FindMinProcessedTime` and `RunQuery` are two queries, between which
everything may happen; then `ResetMetric` and `SetMetric`, since the gauge is
empty in between when Prometheus scrapes. The SQL is modelled as sets: an inner
join is a membership condition, a left join with a null test its negation. The
two `erc_to_native` jobs for unknown messages run the queries of the AMB jobs on
another table of the same shape. A job may begin at any time: `isSynced` may be true before a side
has a row (`contract_monitor.go:505` compares `StartBlock - 1` with a head that may be 0 or less than
10 blocks ahead), and keeps it from beginning only sometimes. `early` is not part of the program: it
marks what comes from an iteration that began before both sides were `Indexed`, with a row at
`StartBlock` or later, and only the properties read it.

Assumptions about the chains, named in the module: the timestamps of the blocks of one
chain increase strictly, and a message is signed or executed at a time not
before the one it was sent at.

### Presenter

One request is followed at a time, as requests change nothing. A search
(`FilterLogs`) selects logs by parameters of the path and of the query. The middleware is
`Chain`, `Tx`, `FromBlock` and `ToBlock`, where a missing parameter is the empty set, and
`Refused`. For one of the logs, each query of `searchForMessagesInLogs` is a step:
the row of the log (`GetByLogID`; the six search tasks differ in the table, and a log has a
row in one of them), the message, the related events (`QueryEvents`, once per table),
then the log and the timestamp of each event (`EnrichEvent`). `before` is a copy of what was stored when
the search came to the log; it is not part of the program and only the properties read it. A
query that finds nothing or fails drops the log from the answer, as the code does
(`dropped`, `RequestFails`). A table may have several sent or executed rows of a
message, of which the query reads any one.

The page of messages without signatures is `GetRequiredSignatures` (a call to the node,
any answer), `FindValidators`, `FindPending`, `FindSignatures`; signatures uploaded with the request are a
constant. The page of validators follows one of the validators: `ListValidators`,
`ListMoreValidators` (the second query, which asks for the home side again),
`GetLatest`, `GetConfirmationTime`.

`RequestSpec` lets the handlers, and `fix_block_timestamps` at any time and any number of times,
interleave with the steps of a request.

### EventHandlers

`History` is the logs of one side. A handler is followed statement by statement:
`EnsureRequest`, `HandleTransfer` and `HandlePayment` (the query), then
`EnsureErcToNativeMessage`, then `EnsureSent`; `GetActiveValidator`, then
`EnsureRemoved`; the other handlers make one statement (`EnsureRow`,
`HandleValidatorAdded`). Queries to a node have no effect and are part of the
statement after them. Any statement may fail (`Fails`), and the batch of the block is
handled again from its first log. Two programs (`Workers`) run the handlers:
the monitor over all logs, with restarts at any earlier block, and
`reprocess_block_range` over any blocks the monitor has processed. A fetched range is
saved in one statement (`SaveLogs`), so the logs of a transaction, which are in
one block, are in the table together.

The upserts are modelled with what they do on a conflict: a row of `messages` or
`information_requests` keeps its values, one of `erc_to_native_messages` takes the new
sender, one of `bridge_validators` the new `removed_log_id`. Tables that have a
unique index besides the one of the conflict clause refuse a row
(`KeyConflict`): `signed_messages` and the two of information requests.
The index on `sent_messages` is not unique since migration 4. Events that have
handlers of one form are one event of the model: `executed` stands for relayed and
completed messages, collected signatures and signatures for information.
Histories may mix AMB and ERC_TO_NATIVE events, which one bridge does not.

### Faulty variants

Some modules contain definitions that no action uses (`HasRoomAtCap`,
`LogsBefore`, `NothingAfterRanges`, …), each directly before the definition it is a
variant of. They are mistakes one could make in that code — an off-by-one at a
range end, a missing nil element, an update without a retry. `PROJECT.json`
(`mutants`) names for every property the variant that breaks it: with the variant in
place of the original, TLC reports the property violated in the run that
otherwise passes.

## The runs

Each run is `tlc -config <run>.cfg <module>` with the names of `PROJECT.json`.

| run | shows | bounds, and why they are enough |
|---|---|---|
| `pipeline_safe` | no log is lost, no row is refused, batches follow the chain, `ContractMonitor` implements `Indexer`, `IInv` holds | 2 queries, 3 logs in blocks 2–3, chain height 3–5, node lag 1 with 1 confirmation, both channels of capacity 1 (every send can block), ranges of one block, 2 crashes or cancellations: a restart from a row that was itself stored by a restarted process |
| `pipeline_liveness` | every confirmed log is handled and the stored cursor catches up | fixed chain, 1 query, 1 stop, every call may fail any finite number of times |
| `pipeline_safe_race` | (violation) logs lost without confirmations | ranges of 2 blocks, 1 stop |
| `sync_flag` | a value under way is wrong in one direction only; the flag settles on the truth | threshold 2, chain 4–5, 1 restart |
| `sync_at_startup` | (violation) synced before a head is known | |
| `reprocess` | the row of a monitor beside the program is never put ahead of what that has reached, and is set back only by a request that ends at the cursor, to the copy read at the start; the last nil means what it should, `ReprocessRange` implements `Indexer`, the program ends | blocks 2–5 in ranges of 2, all cursors up to 6, so that requests end before, at and after it; the monitor may store a copy that is one block old (`MaxLate`); channels of capacity 2 and 1; a cancelled program may hang, so deadlock is not checked |
| `reprocess_early_return` | (violation) the program returns before its work is done | |
| `splitting` | `SplitBlockRange` partitions the blocks; all ranges together ask for every log of the side, once; a range has its logs in chain order, after a restart the same ones, in whatever order `sort.Slice` leaves equal ones; every log is in one batch, the range is ended | all starts and heads up to 9, modulus 32, ranges of 3; a token that was replaced by another one, with blocks in which both are in use, and comes back for two blocks: the ends of their blocks fall before, in and after a range; any up to 4 of the possible logs in a range, or in two of them after a restart, with transfers to others and logs of other contracts |
| `handlers` | one message per payment, the right senders and validators, nothing handled is lost or blocks the monitor, `EventHandlers` implements `BridgeTables` | 15 logs in 4 blocks of 9 transactions; 2 failures, restarts or runs of `reprocess_block_range`, so that one of them may hit the repetition another caused; the history ends, so deadlock is not checked |
| `alerts` | no iteration that began when both sides were indexed reports a sent message as unknown; what a job publishes settles on what the history calls for; the answers of the presenter are right | Jobs: 8 logs in 2 blocks per side, four jobs: one with the time limit, one that alerts must leave, one with a failed execution, one that compares signatures; 1 setback or 1 run of the repair tool; a side may have no row, or one at the block before the start; that block gets no timestamp here, as an iteration that reads it begins before its side is indexed (`CursorsMatter`; in `Alerts`, and so in the proofs, it may get one). Blocks of the same number have the same time, so that the message from the foreign side is sent in a block after the first one that is indexed and signed at home in a block that may be indexed before. Requests: 3 more logs: a validator of each side and a signature; 8 searches, of which 3 select logs by transaction, 3 by blocks, 2 are refused; blocks may not differ (`MaxDifference` 0), one log is followed, one signature is required, one is uploaded. Both readers together: a request is followed only in states in which no job has begun, since neither changes what the other reads; the cursors of the jobs that do not read them go to the last block at once; within a request the repair tool is run only while events are enriched, where it could matter (in `RequestSpec`, and so in the proofs, at any time) |
| `alerts_after_repair` | (violation) a false alarm after the repair tool has run, although both sides were indexed when the job began (`IndexedSpec`) | one job, 3 blocks per side of which the first foreign one has no logs (`QuietLogs`), no setback |
| `alerts_frozen_cursor` | (violation) an alarm that never comes, for a cursor of another contract that stays | the history of `alerts`, one job, no setback and no repair |

Bounds that are not in the code: `MaxChainHead` (the chain stops growing),
`MaxStops` (crashes and cancellations), `MaxNodeLag`, `MaxCursor`, `MaxLate`, `MaxLogs`,
`MaxBlock`, `MaxSetbacks` and `MaxRepairs` of `Alerts`, `MaxReplays` of
`EventHandlers`, `Followed` (the logs a search may come to) of `Presenter`. `MaxDifference` is the
10000 of `GetBlockNumberMiddleware`. The
capacities of the channels (10 and 200 in the code), the range size and the
confirmations are constants of the models. The theorems hold for all of their
values.

## Fairness

`FairSpec` of `ContractMonitor` gives every goroutine weak fairness (the Go
scheduler runs each runnable goroutine) and strong fairness to the steps that are
retried in a loop, `SaveLogs`, `HandleLog`, `CursorStored`: a statement
that is repeated forever does not fail forever. `GetBlockTimestamp` has weak
fairness with a received answer. `Exit` is fair because the process is restarted
(`docker-compose.prod.yml:96`, `restart: unless-stopped`). `Crash`, `Cancel`
and the growth of the chain have none. `FetchLogs` is enabled only while an accepted height exists;
a poll is
forced only while every node reports another head than the last one
(`HeadMoved`), because nothing says that a poll ever reaches the highest node; the
liveness properties are therefore about blocks that *all* nodes have with
enough confirmations (`Confirmed`).

`SyncStatus` assumes strong fairness of a poll that returns the true head (a
node is not behind forever) and of a cursor write that succeeds, but none of
batches arriving. `ReprocessRange` assumes weak fairness of its four goroutines,
that the statement which stores the row is answered some time, and that a cancelled `ContextSleep`
does not choose the timer each time; of the monitor beside it nothing.
`EventHandlers` assumes weak fairness of the monitor's handlers and of the fetcher;
failures are finitely many, as `Fails` is bounded, and a conflict that a row
itself causes is not one of them: it would stop the handler. `reprocess_block_range`
has no fairness. `Alerts` assumes what `StoredCursorCatchesUp` states of both sides, a ticker
that begins the job again, and strong fairness of its query: it does not run
into its timeout each time. One fairness condition stands for the handlers of both sides:
each side is a process of its own, so this is weaker than the code justifies and enough, as
the history ends. `RepairTimestamps`, `StoreOldCursor` and `Restart` have no fairness,
nor has a request: a client may go away at any time.

## The proofs

`ContractMonitorProofs`: `TypeCorrect`, `Spec => []TypeOK`. `Invariance` proves that `IInv` is inductive,
relative to `TypeOK`, under the assumption `CompleteFetch`, which says why an
answer is complete: either `FilterLogsSafe` is used and a node answers a batch from
one state, or the nodes lag behind by at most `BlockConfirmations`. From it follow
`FetchedStored`, `FetchedNotForgotten`, `ProcessedHandled`, `ConstraintRespected` and `Refinement`
(`Spec => Idx!Spec`). `ProcessedStamped` needs no such assumption: a block is recorded as
processed after its timestamp was stored, whatever the nodes answered. They hold for every chain of logs, start block, range size,
channel capacity, lag, number of stops and number of queries. Except `CompleteFetch`, the assumptions on the constants are
those at the head of `ContractMonitor`; `BlockConfirmations + MaxNodeLag <=
InitialChainHead` keeps the subtraction of the head in the natural numbers
(`BlockRanges` is about the case when it does not).

The safety properties are not inductive: that a recorded block has its logs
saved depends on the range being fetched starting no later than the block after
the fetched one, which depends on the ranges in the channel before it, and so on
back to the polled head. `IInv` follows a block on that way. `RangesContiguous`:
each range in the channel starts no later than one block after what is fetched,
being fetched or before it in the channel (ranges may overlap: a poll answered by
a lagging node steps back). `RangesConfirmed`: all of them are confirmed. `FetchedRange`: what the
fetcher holds is all of its range, and saved before the range is recorded.
`RowsCovered`: any row that is stored *or on its way* may be the start of a new
process, which is what makes two unsynchronized writers harmless; `MarksStamped` says of
the same rows that their processed block has a timestamp. `BatchesOrdered`, `FetchedInPipeline`,
`BatchHandled`: no batch overtakes an unhandled log. A cancelled process may drop what it holds; these
three parts are then void, and `RowsCovered` alone carries over to the restart.

`FilterQueriesProofs`, about the ranges: `SplitPartitions`, that `Partition` is an invariant for every
start, head, size and modulus as long as nothing wraps (`NoWrap`).

About the queries: for any tokens and any range, the queries select exactly the logs of
the side (`FetchedAreOfSide`), no two of them the same one (`FetchedOnce`), and what is loaded
after a restart is what was fetched (`LoadedAreOfSide`, for a range that begins at the start
block of the side or later, `RangeOfSide`). `RoundFetchesAllLogs` puts that together with the loop of
`SplitBlockRange`: `AllLogsFetched` is an invariant of `BlockRanges`, whatever the contents
of the chain. Its inductive invariant is the partition of the blocks as far as the loop
has come; the queries then split the logs of the union.

`LogBatchesProofs`: a range goes on from there, under `NoWrap` too. `LogsSorted`: what is sorted are
the logs of the side, one by one in chain order, for a range that was fetched and for two that were
loaded after a restart. That a sorted sequence of the answers has all of them is counting: it is an
injection between finite sets of the same size; that none is twice is `FetchedOnce` and the
positions of the logs, which differ. A chain has finitely many logs (`LogBatchesAssumption`). `BatchesPartition` and
`BatchesEnd` are about the loop of `SplitLogsInBatches`. Its invariant is that the batches have the logs
before `batchStart` and that those from there on are of one block (`LoopVariables`, `BatchesSoFar`).
As blocks do not decrease, the comparison of a log with the *first* one of the batch is
enough, and as the fake log is later than any block, the last batch with logs is closed when the loop
ends. Whether the range then needs an empty batch follows from the last block alone.

`ReprocessRangeProofs`: `LastNil`, `WithinReach` and `SetBack`, for every range, size, capacity and
cursor, whatever a monitor stores meanwhile and wherever the program is interrupted. The copy of the
row that was read at the start never changes, because no batch is later than it; and as a
monitor does not go back behind what it has reached, writing it again puts the row back at most. A block of the request is in a range still to be
scheduled, in one in the channel, being fetched, or submitted (`NoneLost`); the scheduler, the fetcher and
the channel agree on where the last nil is (`EndsWithNil`). So if the scheduler has
ended and the channel is empty, the fetcher has taken the nil after it had submitted everything.
`AtRange` and `Scheduled` carry the numbers: ranges start at multiples of the range size, and a
batch is no later than `toBlock`, which is no later than the cursor (`BehindCursor`). The
nil element is no number and no range (`NilAssumption`). `Refinement`, `Spec => Idx!Spec`: the batches
are handled in chain order and none is left out. Its invariant `InOrder` reads the pipeline
from its end: what is done, then the batch in hand, `logsChan`, what the fetcher holds, the channel of
ranges, what the scheduler has left; each is later than all before it (`OnTheWay`,
`LogsInOrder`, `RangesInOrder`), and `NoneLost` leaves no gap. After an interrupt the
processor takes no further batch, so what the others then drop is not missed.

`SyncStatusProofs`: `TypeCorrect`, and `StaleValues`, that a value which one goroutine has computed and not
stored can have become wrong in one direction only: the recorded head and the processed
block do not go back while the process runs. That the flag therefore settles is liveness.

`AlertsProofs`: `TypeCorrect` and `NoFalseAlarm`, the latter for every history of logs
under the assumptions at the head of `Alerts`, and from the empty database on. The argument is the one
`findMinProcessedTime` was written for. A cursor covers handled logs only
(`CursorsCoverHandled`), and keeps its timestamp unless the repair tool is run
(`CursorsHaveTime`; a block before the start block, which need not have one, is excepted). So, if both
sides are indexed when the job begins, neither drops out of the join, and every log up to the time found is handled, on either
side (`HandledUpToMinTime`, which later steps cannot undo: rows are never
deleted). A log that a query selects is not later than that time, the message
it belongs to was sent no later, hence is stored (`SentAreKnown`), and the query
does not select the log. What began earlier is marked by `early` until it is gone from the gauge
(`EarlyOfPhase`). `NoFalseUnknownOnceIndexed` alone is not inductive: nothing in it
speaks of the time a job holds between its two queries.

`EventHandlersProofs`: `TypeCorrect`, `PaymentsOnce`, `SendersTold` and `HandledStored`
for every history, blacklist and number of repetitions. The invariant `Inv` adds what
a handler knows when it comes to its next statement (`HandlersKnow`): the sender is that
of the last transfer of the same value, *and stays so*, because the logs of a
transaction are in one block and a block is saved as a whole (`FindIsComplete`);
without that, a payment whose transfer is saved later would be a message of
another sender, and the transfer a message of its own. The upserts keep the hash of
every message (`MessagesStay`), so a `sent` row always refers to one, whichever
program stored it. `HandledAreStored` then needs no assumption on failures.

`ValidatorsOfChain` in the same module: `ActiveAreValidators` for every history. Its invariant
`ValidatorsInv` has two parts for its two cases: at every log while nothing was repeated, and at the end of the logs
whatever was. `FirstTime`: as long as nothing was repeated, the active
row of a validator is that of the latest event the monitor has handled (`FollowsEvents`), as
the contract adds nobody who is a validator. `OnlyAddition`: a validator with one addition is
active after it, and inactive after a removal the monitor has handled, however often the monitor
goes back. When it does, it will handle the removal again as well, so only
`reprocess_block_range` has to be kept away from the addition; it takes whole blocks (`RecordsReplay`).
A removal that has looked up its row overwrites it in a statement of its own;
`HoldsAddition` says the row is still that of an addition of the same validator.

`Refinement` in the same module: `EventHandlers` implements `TablesSpec`, for every history and any
number of failures, repetitions and runs of the second program. A step of a handler adds at most one
message, or one row to the tables a reader joins, or none, and an upsert of what is there
is a stutter. That the row comes when all earlier ones have theirs is not a matter of one program:
the one that reprocesses is never ahead, as it is run over logs the monitor has
handled, and a monitor that went back handles logs that have their rows. The invariant
`OrderInv` says so: before the place of either program everything is handled (`EarlierHandled`) and
what is handled, if a reader can see it, has its row (`HandlersStoreNeeded`).
The mapping is to one of the two sides of `BridgeTables`; the other is empty. Left out of it are the
validators, whose rows may be changed back by a repetition (`ValidatorsOfChain` is about them), and the
timestamps, which the pipeline stores, not the handlers (`ProcessedStamped`). `TablesSizes`, `TablesLogs`,
`TablesTime` and `BlocksOfHistory` prove that the assumptions of `BridgeTables` hold of what its constants are mapped to, so that the
refinement is of a specification the readers' theorems are about.

`PresenterProofs`: `PresenterInvariant` and from it the six properties of requests, for
every history, any parameters, and any interleaving with handlers and with repairs. What
carries the argument is `Keeps`: rows and messages are never deleted, nor is the timestamp of a
block with logs. So what was stored before is there for every later query (`BeforeOK`), an
event without a timestamp is newer than the search (`EnrichKeeps`), a message that is missing
from the pending ones stays executed (`PendingOK`), and more rows mean more signers
(`MoreSigners`). A result covers what was stored because each query covers its kind of events and the
queries cover all kinds of a message (`CoveredOK`, `KindQueried`).

Only model-checked:

* Liveness (`ConfirmedAreHandled`, `StoredCursorCatchesUp`, `FlagTurnsOn`, `FlagTurnsOff`,
  `Terminates`, `AllAreHandled`, `MetricSettles`): it rests on fairness and on when actions are
  enabled, which TLAPS does not handle.
* That finitely many answers can be sorted, so that `SortedLogs` is not empty, is an induction
  over the answers and is not proved; the theorems about `LogBatches` hold for every sorted sequence there is.

## Disagreements between code and documentation

Each is a violation run; its trace is the scenario.

* `pipeline_safe_race`: `FilterLogsSafe` asks for the logs before it asks for
  the height. A node that imports the last block between the two answers passes
  the check without its logs; the range is recorded as fetched and they are
  never indexed. `required_block_confirmations` of at least the lag of the nodes
  avoids it (`pipeline_safe`, and the theorem `FetchedStored`).
* `sync_at_startup`: unprocessed logs that are processed before the first poll
  of the head make `isSynced` true, however far the contract is behind.
* `reprocess_early_return`: `ProcessBlockRange` may return before the range was
  processed: it takes an empty `blocksRangeChan` for the end, but the channel is
  also empty while the next range is about to be sent.
* `alerts_after_repair`: `fix_block_timestamps` deletes the timestamp of a processed
  block without logs. The inner join of `findMinProcessedTime` then loses that side.
  Until its cursor moves on, messages it has yet to handle are reported as unknown.
* `alerts_frozen_cursor`: `findMinProcessedTime` selects addresses `>=` that of the
  bridge, so cursors of other bridges on the same chain take part in the minimum.
  One of them that is no longer monitored silences the alert.

Observations without a run of their own:

* For a head below the confirmations (a node that starts to sync) the unsigned difference
  wraps around, and `SplitBlockRange` lists ranges up to the largest uint.
  `Partition` is proved for heads above them (`NoWrap`).
* Unknown messages are reported falsely for a short time when a bridge is indexed for the first time.
  `findMinProcessedTime` loses a side that has no cursor row yet, or one that the fetcher
  stored at `StartBlock - 1` before that block has its timestamp, as it loses the side after a repair. The
  job is meant to wait until the monitor is synced, but `recordIsSynced` (`contract_monitor.go:505`)
  compares `StartBlock - 1 + 10` with the head: for a start block near the head the
  flag is true before anything is stored, and `recordProcessedBlockNumber` sets it (line 534) before it stores
  the row (line 535). If the nodes of that side fail after the first poll, messages it has yet to handle
  are reported, until the first iteration that begins with both sides indexed. `Alerts` has these
  behaviours (without `early`, `NoFalseUnknown` is violated in six steps, with no repair);
  `NoFalseUnknownOnceIndexed` is about what comes after.
* `reprocess_block_range` with a `toBlock` equal to the stored processed block stores the whole row
  (`contract_monitor.go:520` and `535`: the early returns are for smaller blocks only), as it was when
  the program started. A monitor that runs beside it has its row set back, until its next
  store; if it is restarted before, it repeats that work. No block is left out
  (`SetBackOnlyAtCursor`).
* An interrupted `reprocess_block_range` may hang: `m.logsChan <- nil`
  (`contract_monitor.go:174`) does not watch the context, and a full channel may
  have no reader any more.
* `bridge_validators.go:24`: an addition that is handled again sets `removed_log_id` to
  null. The monitor repeats the removal too, but `reprocess_block_range` over
  the block of the addition alone leaves a removed validator active. A validator who was
  added twice and whose first addition is handled again has two active rows, and
  the next removal ends one of them; one who was removed, then added, and whose removal is reprocessed, is
  inactive, as `GetActiveValidator` finds the later addition. `ActiveAreValidators` excludes all three: after a repetition it is about
  validators with one addition that, like what is before it, is not reprocessed.
* `presenter.go:192` asks for the validators of the home side where those of the foreign side
  are meant (`ListMoreValidators`): a validator of the foreign side alone is not listed.
* `filter.go:123` accepts ranges of 10001 blocks, the message says 10000. A `fromBlock` without a
  `toBlock`, or the other way round, is ignored, also if the search is by transaction.
* A message disappears from the searches as long as one of its events has a row but its block has no timestamp yet;
  `FoundUnlessNew` says it is the only reason. Of a message with two sent or executed events, a result
  shows one, which need not be the one that was searched for.
* `TotalPendingMessages` of the page of messages without signatures counts those of both
  directions.
* `contract_monitor.go:195`: see `FilterQueries` for tokens that two bridges share.

## What is not modelled

* Contents: ABI decoding, message decoding, hashes, gauge labels and ages, and with the
  ages the job `last_validator_activity`.
* Reading and checking the configuration file, HTTP routing beyond the parameters of
  searches, rendering, logging, metrics: input and output. Of the presenter also the pages of a
  single query (`/logs`, `/pending`, `/config`), `/info`, which shows cursors and times side by
  side and relates nothing, and the links to transactions of the unsigned messages.
* Configurations in which a token is also a contract of the bridge, is listed twice for the same
  blocks, or is shared by two bridges.
* `HandleErcToNativeUserRequestForAffirmation` with no token configured for the block:
  `Logs.Find` then does not restrict the addresses.
* Reorganizations: the code has no notion of them; a block below the
  confirmations is final in the models.
* The foreign keys of the tables: no code path deletes logs.

## Plan

Done: `Indexer`, `ContractMonitor`, `SyncStatus`, `ReprocessRange`, `BlockRanges`,
`LogBatches`, `Alerts`, `EventHandlers`, `FilterQueries`, `BridgeTables`, `Presenter`, in this
order, with the theorems above: every safety property and every refinement of a passing run is
proved. Next:

1. Validators who are added several times, after repetitions: what the table then is, given the
   repeated logs (`ActiveAreValidators` leaves it open, see the observations above).
2. `EventHandlers` driven by `Indexer` instead of by a position in the history, which would make the two
   refinements one theorem about the whole monitor; and both sides for `IsSynced` with the start of the
   jobs.
