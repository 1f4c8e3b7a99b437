----------------------------- MODULE LogBatches -----------------------------
(***************************************************************************)
(* The way of a fetched range: a range that SplitBlockRange has split off  *)
(* (BlockRanges) is taken from the channel, its logs are fetched           *)
(* (FilterQueries) and sorted, and submitLogs (monitor/contract_monitor.go)*)
(* with the loop of SplitLogsInBatches (monitor/types.go) makes one batch  *)
(* per block.  The loop closes a batch when it meets a log of a later      *)
(* block; a fake last log closes the last batch.  The SubmitBatch action   *)
(* of ContractMonitor is one batch of the result.  After a restart the     *)
(* logs of several ranges are loaded from the table and go the same way.   *)
(***************************************************************************)
EXTENDS FilterQueries, SequencesExt

CONSTANT MaxLogs   \* bound: number of logs in the blocks of a range

ASSUME LogBatchesAssumption == MaxLogs \in Nat /\ IsFiniteSet(ChainLogs)

VARIABLES
    logs,              \* the logs, then the fake log
    present,           \* what the chain has in the blocks of the range
    range,
    i, batchStart,     \* loop variables, counted from 1
    logsBatches,       \* for every batch its block and its first and last log
    pc

logsVars == <<logs, present, range, i, batchStart, logsBatches, pc>>

InChainOrder(k, l) == k.block < l.block \/ (k.block = l.block /\ k.index < l.index)

FakeLog == [block |-> MaxUint32, index |-> 0, address |-> "", topic2 |-> ""]

NoFakeLog(s) == s

WithFakeLog(s) == Append(s, FakeLog)

RangeInit ==
    /\ Init
    /\ logs = <<>> /\ present = {} /\ range = [from |-> 0, to |-> 0]
    /\ i = 1 /\ batchStart = 1 /\ logsBatches = <<>>
    /\ pc = "range"

SplitRanges == pc = "range" /\ SplitOff /\ UNCHANGED logsVars

\* What the chain may have in some blocks.
ChainIn(from, to) ==
    LET possible == {l \in ChainLogs : l.block \in from..to}
    IN  UNION {kSubset(n, possible) : n \in 0..MaxLogs}

Unsorted(answers) == SetToSeqs(answers)

\* sort.Slice may leave logs at equal positions in any order.
SortedLogs(answers) ==
    {s \in SetToSeqs(answers) :
       \A n \in 1..(Len(s) - 1) : ~InChainOrder(s[n + 1].log, s[n].log)}

Submit(r, chain, answers) ==
    /\ range' = r /\ present' = chain
    /\ \E s \in SortedLogs(answers) : logs' = WithFakeLog([n \in DOMAIN s |-> s[n].log])
    /\ pc' = "split"
    /\ UNCHANGED <<vars, i, batchStart, logsBatches>>

\* tryToFetchLogs: any of the ranges.
FetchRange ==
    /\ pc = "range" /\ fromBlock > toBlock
    /\ \E r \in ToSet(batches) : \E chain \in ChainIn(r.from, r.to) :
         Submit(r, chain, FetchedLogs(chain, r))

\* LoadUnprocessedLogs: two ranges that were fetched before a restart.  The
\* table also has logs of contracts that this bridge does not use; that two
\* bridges of one database pay with the same token is left out.
LoadUnprocessedLogs ==
    /\ pc = "range" /\ fromBlock > toBlock
    /\ \E n \in 1..(Len(batches) - 1) :
         LET r == [from |-> batches[n].from, to |-> batches[n + 1].to]
         IN  \E chain \in ChainIn(r.from, r.to) :
               LET fetched == {a.log : a \in FetchedLogs(chain, batches[n])
                                               \cup FetchedLogs(chain, batches[n + 1])}
                   others == {l \in chain : l.address \notin ContractAddresses(r)}
               IN  Submit(r, chain, {[log |-> l] : l \in StoredLogs(fetched \cup others, r)})

\* The condition that closes a batch.
LaterBlock(log, first) == log.block > first.block

SplitLog ==
    /\ pc = "split"
    /\ i <= Len(logs)
    /\ IF LaterBlock(logs[i], logs[batchStart])
       THEN /\ logsBatches' = Append(logsBatches, [block |-> logs[batchStart].block,
                                                   first |-> batchStart, last |-> i - 1])
            /\ batchStart' = i
       ELSE UNCHANGED <<logsBatches, batchStart>>
    /\ i' = i + 1
    /\ UNCHANGED <<vars, logs, present, range, pc>>

NeverMissing(bs) == bs = <<>>

\* No batch ends the range.
EndMissing(bs) == bs = <<>> \/ bs[Len(bs)].block < range.to

\* After the loop: the range ends with an empty batch, unless it ends with logs.
EndRange ==
    /\ pc = "split"
    /\ i > Len(logs)
    /\ logsBatches' = IF EndMissing(logsBatches)
                  THEN Append(logsBatches, [block |-> range.to, first |-> 1, last |-> 0])
                  ELSE logsBatches
    /\ pc' = "submitted"
    /\ UNCHANGED <<vars, logs, present, range, i, batchStart>>

SubmitReturns ==
    /\ pc = "submitted" \/ (fromBlock > toBlock /\ batches = <<>>)
    /\ UNCHANGED <<vars, logsVars>>

RangeNext ==
    \/ SplitRanges \/ FetchRange \/ LoadUnprocessedLogs
    \/ SplitLog \/ EndRange \/ SubmitReturns

RangeSpec == RangeInit /\ [][RangeNext]_<<vars, logsVars>>

-----------------------------------------------------------------------------
(* Properties *)

\* Whether they are fetched, query by query, or loaded after a restart, the logs
\* of the blocks are those of this side, as the configuration says, in chain
\* order, and none is there twice: Logs.Ensure stores all of them in one
\* statement, which PostgreSQL refuses if it meets a row twice.
LogsOfSideOnce ==
    (pc # "range" /\ StartBlock <= start) =>
      /\ ToSet(logs) \ {FakeLog} = LogsOfSide(present, range)
      /\ \A n \in 1..(Len(logs) - 1) : InChainOrder(logs[n], logs[n + 1])

LogsIn(batch) == batch.first..batch.last

\* Every log is in a batch, which is that of its block; the fake log is in none;
\* and the batches follow each other as the logs do, so that no log is in two of
\* them: the processor records a block as processed after exactly its logs were
\* handled.
EveryLogOnce ==
    pc = "submitted" =>
      /\ \A n \in 1..(Len(logs) - 1) :
           \E k \in 1..Len(logsBatches) : n \in LogsIn(logsBatches[k])
      /\ \A k \in 1..Len(logsBatches) : \A n \in LogsIn(logsBatches[k]) :
           n \in 1..(Len(logs) - 1) /\ logs[n].block = logsBatches[k].block
      /\ \A k, l \in 1..Len(logsBatches) : k < l =>
           \A m \in LogsIn(logsBatches[k]), n \in LogsIn(logsBatches[l]) : m < n

\* The batches are in the order of their blocks, and the last one is that of
\* the end of the range: the processed block follows the fetched block, also
\* over blocks without logs.
EndsWithRange ==
    pc = "submitted" =>
      /\ logsBatches # <<>> /\ logsBatches[Len(logsBatches)].block = range.to
      /\ \A k \in 1..(Len(logsBatches) - 1) : logsBatches[k].block < logsBatches[k + 1].block
=============================================================================
