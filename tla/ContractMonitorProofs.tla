----------------------- MODULE ContractMonitorProofs -----------------------
(***************************************************************************)
(* Proofs about ContractMonitor: its types, for every value of the         *)
(* constants; the inductive invariant of ContractMonitorInv and what       *)
(* follows from it, for every value under which a fetch is complete.       *)
(***************************************************************************)
EXTENDS ContractMonitorInv, TLAPS

-----------------------------------------------------------------------------
(* Type correctness *)

\* What receiving from a channel yields.
LEMMA Receive ==
    ASSUME NEW S, NEW s \in Seq(S), s # <<>>
    PROVE  /\ Head(s) \in S
           /\ Tail(s) \in Seq(S)
           /\ Len(Tail(s)) = Len(s) - 1
           /\ Len(s) \in Nat \ {0}
OBVIOUS

\* The cursor a process starts from is a cursor.
LEMMA BootCursorType ==
    ASSUME NEW row \in Cursor \cup {NoRow}
    PROVE  BootCursor(row) \in Cursor
BY BlockAssumption DEF BootCursor, Cursor

\* A restarted process has well-typed memory, whatever row it finds.
LEMMA BootType == TypeOK /\ Boot /\ stops' \in 0..MaxStops => TypeOK'
<1> SUFFICES ASSUME TypeOK, Boot, stops' \in 0..MaxStops PROVE TypeOK'
    OBVIOUS
<1>1. logsCursor' \in Cursor
    BY BootCursorType DEF Boot, TypeOK
<1>2. UNCHANGED <<chainHead, dbVars>>
    BY DEF Boot
<1>3. head' \in Nat /\ fromBlock' \in Nat /\ blocksRange' \in Range
    BY <1>1 DEF Boot, Unprocessed, Cursor, Range
<1>4. /\ blocksRangeChan' \in Seq(Range) /\ Len(blocksRangeChan') <= BlockRangesChanCap
      /\ logsChan' \in Seq(Batch) /\ Len(logsChan') <= LogsChanCap
    BY SizeAssumption DEF Boot
<1>5. /\ fetcherPc' \in FetcherPcs /\ logs' \subseteq Logs /\ ctxDone' \in BOOLEAN
      /\ processorPc' \in ProcessorPcs /\ batch' \in Batch
      /\ todo' \subseteq batch'.logs /\ stamped' \in BOOLEAN
    BY DEF Boot, FetcherPcs, ProcessorPcs, NoBatch, Batch
<1>6. /\ cursorWrite' \in [Writers -> Cursor \cup {NoRow}]
      /\ \A g \in Writers : cursorWrite'[g] = NoRow
      /\ todo' = {}
    BY DEF Boot, NoWrites
<1> QED
    BY <1>1, <1>2, <1>3, <1>4, <1>5, <1>6 DEF TypeOK, dbVars

\* A node is never so far behind that subtracting the confirmations from its
\* height would wrap around.
LEMMA NodeHeightsType ==
    ASSUME TypeOK, NEW n \in NodeHeights
    PROVE  n \in Nat /\ BlockConfirmations <= n /\ n <= chainHead
BY ChainAssumption DEF TypeOK, NodeHeights

\* The steps of StartBlockFetcher keep every variable in its type.
LEMMA BlockFetcherType == TypeOK /\ BlockFetcher => TypeOK'
<1> SUFFICES ASSUME TypeOK, BlockFetcher PROVE TypeOK'
    OBVIOUS
<1>1. CASE PollHead
    <2>1. PICK n \in NodeHeights : head' = n - BlockConfirmations
        BY <1>1 DEF PollHead, ConfirmedHead
    <2>2. head' \in Nat /\ fromBlock' \in Nat
        BY <1>1, <2>1, NodeHeightsType, ChainAssumption DEF PollHead, TypeOK
    <2> QED
        BY <1>1, <2>2 DEF PollHead, TypeOK, AtCursor, dbVars, fetcherVars, processorVars
<1>2. CASE ScheduleRange
    <2>1. fromBlock' \in Nat
        BY <1>2, SizeAssumption DEF ScheduleRange, TypeOK
    <2>2. /\ blocksRangeChan' \in Seq(Range)
          /\ Len(blocksRangeChan') <= BlockRangesChanCap
        BY <1>2, SizeAssumption DEF ScheduleRange, HasRoom, NextRange, TypeOK, Range
    <2> QED
        BY <1>2, <2>1, <2>2 DEF ScheduleRange, TypeOK, AtCursor, dbVars, fetcherVars, processorVars
<1> QED
    BY <1>1, <1>2 DEF BlockFetcher

\* So do the steps of Start and StartLogsFetcher.
LEMMA LogsFetcherType == TypeOK /\ LogsFetcher => TypeOK'
<1> SUFFICES ASSUME TypeOK, LogsFetcher PROVE TypeOK'
    OBVIOUS
<1> USE DEF TypeOK, FetcherPcs, AtCursor, dbVars, blockFetcherVars, processorVars
<1>1. CASE LoadUnprocessedLogs
    BY <1>1 DEF LoadUnprocessedLogs, LogsIn
<1>2. CASE TakeRange
    <2>1. /\ blocksRange' \in Range /\ blocksRangeChan' \in Seq(Range)
          /\ Len(blocksRangeChan') <= BlockRangesChanCap
        BY <1>2, Receive, SizeAssumption DEF TakeRange
    <2> QED
        BY <1>2, <2>1 DEF TakeRange
<1>3. CASE FetchLogs
    BY <1>3 DEF FetchLogs, LogsIn
<1>4. CASE SaveLogs
    BY <1>4 DEF SaveLogs
<1>5. CASE SaveLogsFails
    BY <1>5 DEF SaveLogsFails
<1>6. CASE RecordFetchedBlockNumber
    BY <1>6 DEF RecordFetchedBlockNumber, Cursor, Range
<1>7. CASE SubmitBatch
    <2>1. PICK b \in {l.block : l \in logs} \cup {blocksRange.to} :
            /\ logsChan' = Append(logsChan,
                                  [block |-> b, logs |-> {l \in logs : l.block = b}])
            /\ logs' = logs \ {l \in logs : l.block = b}
            /\ IF b = blocksRange.to
               THEN fetcherPc' = "take" /\ blocksRange' = NoRange
               ELSE fetcherPc' = "submit" /\ blocksRange' = blocksRange
        BY <1>7 DEF SubmitBatch
    <2>2. b \in Nat
        BY QueryAssumption DEF Range
    <2>3. [block |-> b, logs |-> {l \in logs : l.block = b}] \in Batch
        BY <2>2 DEF Batch
    <2>4. logsChan' \in Seq(Batch) /\ Len(logsChan') <= LogsChanCap
        BY <1>7, <2>1, <2>3, SizeAssumption DEF SubmitBatch, HasRoom
    <2>5. fetcherPc' \in FetcherPcs /\ blocksRange' \in Range /\ logs' \subseteq Logs
        BY <2>1 DEF NoRange, Range
    <2> QED
        BY <1>7, <2>4, <2>5 DEF SubmitBatch
<1> QED
    BY <1>1, <1>2, <1>3, <1>4, <1>5, <1>6, <1>7 DEF LogsFetcher

\* So do the steps of StartLogsProcessor.
LEMMA LogsProcessorType == TypeOK /\ LogsProcessor => TypeOK'
<1> SUFFICES ASSUME TypeOK, LogsProcessor PROVE TypeOK'
    OBVIOUS
<1> USE DEF TypeOK, ProcessorPcs, AtCursor, dbVars, blockFetcherVars, fetcherVars
<1>1. CASE TakeBatch
    <2>1. batch' \in Batch /\ logsChan' \in Seq(Batch) /\ Len(logsChan') <= LogsChanCap
        BY <1>1, Receive, SizeAssumption DEF TakeBatch
    <2> QED
        BY <1>1, <2>1 DEF TakeBatch
<1>2. CASE GetBlockTimestamp
    BY <1>2 DEF GetBlockTimestamp, Batch
<1>3. CASE HandleLogFails
    BY <1>3 DEF HandleLogFails
<1>4. CASE AbandonBatch
    BY <1>4 DEF AbandonBatch
<1>5. CASE RecordProcessedBlockNumber
    <2>1. logsCursor' \in Cursor /\ batch' \in Batch
        BY <1>5 DEF RecordProcessedBlockNumber, Cursor, Batch, NoBatch
    <2>2. /\ processorPc' \in ProcessorPcs /\ stamped' \in BOOLEAN
          /\ todo' \subseteq batch'.logs
        BY <1>5 DEF RecordProcessedBlockNumber, BothReturned
    <2> QED
        BY <1>5, <2>1, <2>2 DEF RecordProcessedBlockNumber, BothReturned
<1>6. ASSUME NEW l \in Logs, HandleLog(l) PROVE TypeOK'
    BY <1>6 DEF HandleLog
<1> QED
    BY <1>1, <1>2, <1>3, <1>4, <1>5, <1>6 DEF LogsProcessor

\* So do the writes of the cursor row.
LEMMA CursorWriterType == TypeOK /\ CursorWriter => TypeOK'
<1> SUFFICES ASSUME TypeOK, NEW g \in Writers,
                    \/ SendCursor(g) \/ CursorStored(g)
                    \/ CursorFails(g) \/ CursorCancelled(g)
             PROVE  TypeOK'
    BY DEF CursorWriter
<1> USE DEF TypeOK, dbVars, blockFetcherVars
<1>1. CASE SendCursor(g)
    <2>1. /\ cursorWrite' \in [Writers -> Cursor \cup {NoRow}]
          /\ \A h \in Writers : AtCursor(h) \/ cursorWrite'[h] = NoRow
        BY <1>1 DEF SendCursor
    <2> QED
        BY <1>1, <2>1 DEF SendCursor, AtCursor, fetcherVars, processorVars
<1>2. ASSUME NEW ok \in BOOLEAN, Wrote(g, ok), AtCursor(g),
             cursorWrite' = [cursorWrite EXCEPT ![g] = NoRow],
             dbCursor' \in {dbCursor, cursorWrite[g]},
             UNCHANGED <<chainHead, dbLogs, blockTimestamps, handled, logsCursor,
                         blocksRangeChan, logsChan, ctxDone, blockFetcherVars, stops>>
      PROVE  TypeOK'
    <2>1. /\ cursorWrite' \in [Writers -> Cursor \cup {NoRow}]
          /\ dbCursor' \in Cursor \cup {NoRow}
        BY <1>2
    <2>2. /\ fetcherPc' \in FetcherPcs /\ logs' \subseteq Logs /\ blocksRange' \in Range
          /\ processorPc' \in ProcessorPcs /\ batch' \in Batch
          /\ todo' \subseteq batch'.logs /\ stamped' \in BOOLEAN
          /\ processorPc' # "work" => todo' = {}
        BY <1>2 DEF Wrote, AtCursor, FetcherWrote, ProcessorWrote, FetcherPcs,
                    ProcessorPcs, NoBatch, Batch, fetcherVars, processorVars
    <2>3. \A h \in Writers : AtCursor(h)' \/ cursorWrite'[h] = NoRow
        <3> SUFFICES ASSUME NEW h \in Writers, h # g PROVE AtCursor(h)' \/ cursorWrite'[h] = NoRow
            BY <1>2
        <3>1. cursorWrite'[h] = cursorWrite[h]
            BY <1>2
        <3>2. AtCursor(h)' = AtCursor(h)
            BY <1>2 DEF Wrote, AtCursor, FetcherWrote, ProcessorWrote, Writers,
                        fetcherVars, processorVars
        <3> QED
            BY <3>1, <3>2
    <2> QED
        BY <1>2, <2>1, <2>2, <2>3
<1>3. CASE CursorStored(g)
    BY <1>2, <1>3 DEF CursorStored
<1>4. CASE CursorFails(g)
    BY <1>2, <1>4 DEF CursorFails
<1>5. CASE CursorCancelled(g)
    <2>1. cursorWrite' = [cursorWrite EXCEPT ![g] = NoRow]
        BY <1>5 DEF CursorCancelled
    <2> QED
        BY <1>2, <1>5, <2>1 DEF CursorCancelled
<1> QED
    BY <1>1, <1>3, <1>4, <1>5

\* So do the steps of the environment.
LEMMA EnvironmentType == TypeOK /\ Environment => TypeOK'
<1> SUFFICES ASSUME TypeOK, Environment PROVE TypeOK'
    OBVIOUS
<1>1. CASE GrowChain
    BY <1>1, ChainAssumption
       DEF GrowChain, TypeOK, AtCursor, dbVars, blockFetcherVars, fetcherVars, processorVars
<1>2. CASE Cancel
    BY <1>2, ChainAssumption
       DEF Cancel, TypeOK, AtCursor, dbVars, blockFetcherVars, fetcherVars, processorVars
<1>3. CASE Crash
    BY <1>3, BootType, ChainAssumption DEF Crash, TypeOK
<1>4. CASE Exit
    BY <1>4, BootType DEF Exit, TypeOK
<1> QED
    BY <1>1, <1>2, <1>3, <1>4 DEF Environment

\* Type correctness: every variable of the pipeline keeps its type, the
\* channels keep within their capacities, and no subtraction of
\* BlockConfirmations from a polled height wraps around.
THEOREM TypeCorrect == Spec => []TypeOK
<1>1. Init => TypeOK
    <2> SUFFICES ASSUME Init PROVE TypeOK
        OBVIOUS
    <2>1. logsCursor \in Cursor
        BY BootCursorType DEF Init
    <2>2. head \in Nat /\ fromBlock \in Nat /\ blocksRange \in Range
        BY <2>1 DEF Init, Unprocessed, Cursor, Range
    <2>3. /\ blocksRangeChan \in Seq(Range) /\ Len(blocksRangeChan) <= BlockRangesChanCap
          /\ logsChan \in Seq(Batch) /\ Len(logsChan) <= LogsChanCap
        BY SizeAssumption DEF Init
    <2>4. /\ cursorWrite \in [Writers -> Cursor \cup {NoRow}]
          /\ \A g \in Writers : cursorWrite[g] = NoRow
        BY DEF Init, NoWrites
    <2>5. batch \in Batch /\ todo \subseteq batch.logs /\ todo = {}
        BY DEF Init, NoBatch, Batch
    <2>6. chainHead \in InitialChainHead..MaxChainHead /\ stops \in 0..MaxStops
        BY ChainAssumption DEF Init
    <2> QED
        BY <2>1, <2>2, <2>3, <2>4, <2>5, <2>6
           DEF Init, TypeOK, FetcherPcs, ProcessorPcs
<1>2. TypeOK /\ [Next]_vars => TypeOK'
    <2> SUFFICES ASSUME TypeOK, [Next]_vars PROVE TypeOK'
        OBVIOUS
    <2>1. CASE UNCHANGED vars
        BY <2>1 DEF vars, TypeOK, AtCursor, dbVars, blockFetcherVars, fetcherVars, processorVars
    <2> QED
        BY <2>1, BlockFetcherType, LogsFetcherType, LogsProcessorType,
           CursorWriterType, EnvironmentType DEF Next
<1> QED
    BY <1>1, <1>2, PTL DEF Spec

-----------------------------------------------------------------------------
(* Channels *)

\* Sending appends one element and moves no other.
LEMMA Send ==
    ASSUME NEW S, NEW s \in Seq(S), NEW e \in S
    PROVE  /\ Len(Append(s, e)) = Len(s) + 1
           /\ Append(s, e)[Len(s) + 1] = e
           /\ \A i \in 1..Len(s) : Append(s, e)[i] = s[i]
OBVIOUS

\* Receiving moves every other element one place forward.
LEMMA Shift ==
    ASSUME NEW S, NEW s \in Seq(S), s # <<>>
    PROVE  /\ Head(s) = s[1]
           /\ \A i \in 1..Len(Tail(s)) : i + 1 \in 1..Len(s) /\ Tail(s)[i] = s[i + 1]
OBVIOUS

\* The elements of the channels have the types of the channels.
LEMMA ChannelTypes ==
    ASSUME TypeOK
    PROVE  /\ Len(blocksRangeChan) \in Nat /\ Len(logsChan) \in Nat
           /\ \A i \in 1..Len(blocksRangeChan) :
                blocksRangeChan[i].from \in Nat /\ blocksRangeChan[i].to \in Nat
           /\ \A i \in 1..Len(logsChan) :
                logsChan[i].block \in Nat /\ logsChan[i].logs \subseteq Logs
<1>1. blocksRangeChan \in Seq(Range) /\ logsChan \in Seq(Batch)
    BY DEF TypeOK
<1>2. \A i \in 1..Len(blocksRangeChan) : blocksRangeChan[i] \in Range
    BY <1>1
<1>3. \A i \in 1..Len(logsChan) : logsChan[i] \in Batch
    BY <1>1
<1> QED
    BY <1>1, <1>2, <1>3 DEF Range, Batch

\* The numbers of the pipeline.
LEMMA NumberTypes ==
    ASSUME TypeOK
    PROVE  /\ logsCursor.fetched \in Nat /\ logsCursor.processed \in Nat
           /\ blocksRange.from \in Nat /\ blocksRange.to \in Nat
           /\ fromBlock \in Nat /\ head \in Nat /\ chainHead \in Nat
           /\ batch.block \in Nat /\ batch.logs \subseteq Logs
BY ChainAssumption DEF TypeOK, Cursor, Range, Batch

-----------------------------------------------------------------------------
(* The ranges keep the distance to the chain head *)

\* StartBlockFetcher schedules only blocks that have enough confirmations at
\* the node that was asked, and the chain does not shrink.
LEMMA RangesConfirmedStep ==
    TypeOK /\ RangesConfirmed /\ [Next]_vars => RangesConfirmed'
<1> SUFFICES ASSUME TypeOK, RangesConfirmed, [Next]_vars PROVE RangesConfirmed'
    OBVIOUS
<1> USE DEF RangesConfirmed
<1>1. ASSUME UNCHANGED <<chainHead, fromBlock, head, blocksRangeChan, blocksRange>>,
             fetcherPc' \in {fetcherPc, "load", "submit", "take"}
             \/ fetcherPc \in {"fetch", "save", "record", "cursor"}
      PROVE  RangesConfirmed'
    BY <1>1
<1>2. CASE PollHead
    <2>1. PICK n \in NodeHeights : head' = n - BlockConfirmations
        BY <1>2 DEF PollHead, ConfirmedHead
    <2>2. head' + BlockConfirmations <= chainHead
        BY <2>1, NodeHeightsType, ChainAssumption DEF TypeOK
    <2> QED
        BY <1>2, <2>2 DEF PollHead, fetcherVars
<1>3. CASE ScheduleRange
    <2> DEFINE r == [from |-> fromBlock,
                     to |-> IF fromBlock + MaxBlockRangeSize - 1 > head
                            THEN head ELSE fromBlock + MaxBlockRangeSize - 1]
    <2>1. blocksRangeChan' = Append(blocksRangeChan, r)
        BY <1>3 DEF ScheduleRange, NextRange
    <2>2. r \in Range /\ r.to + BlockConfirmations <= chainHead
        BY <1>3, SizeAssumption, ChainAssumption DEF ScheduleRange, TypeOK, Range
    <2> HIDE DEF r
    <2>3. \A i \in 1..Len(blocksRangeChan') :
             blocksRangeChan'[i].to + BlockConfirmations <= chainHead
        BY <2>1, <2>2, Send DEF TypeOK
    <2> QED
        BY <1>3, <2>3 DEF ScheduleRange, fetcherVars
<1>4. CASE TakeRange
    <2>1. /\ blocksRange'.to + BlockConfirmations <= chainHead
          /\ \A i \in 1..Len(blocksRangeChan') :
               blocksRangeChan'[i].to + BlockConfirmations <= chainHead
        BY <1>4, Receive, Shift DEF TakeRange, TypeOK
    <2> QED
        BY <1>4, <2>1 DEF TakeRange, blockFetcherVars
<1>5. CASE SubmitBatch
    <2>1. fetcherPc' \in {"take", "submit"}
        BY <1>5 DEF SubmitBatch
    <2> QED
        BY <1>5, <2>1 DEF SubmitBatch, blockFetcherVars
<1>6. CASE Boot
    <2>1. logsCursor' \in Cursor
        BY <1>6, BootCursorType DEF Boot, TypeOK
    <2>2. fromBlock' = head' + 1 /\ head' \in Nat
        BY <1>6, <2>1 DEF Boot, Cursor
    <2> QED
        BY <1>6, <2>2 DEF Boot
<1>7. CASE GrowChain
    <2>1. \A n \in Nat : n + BlockConfirmations <= chainHead
                           => n + BlockConfirmations <= chainHead'
        BY <1>7, ChainAssumption DEF GrowChain, TypeOK
    <2> QED
        BY <1>7, <2>1, ChannelTypes, NumberTypes DEF GrowChain, blockFetcherVars, fetcherVars
<1>8. CASE LoadUnprocessedLogs \/ FetchLogs \/ SaveLogs \/ SaveLogsFails
            \/ RecordFetchedBlockNumber
    BY <1>1, <1>8 DEF LoadUnprocessedLogs, FetchLogs, SaveLogs, SaveLogsFails,
                      RecordFetchedBlockNumber, blockFetcherVars
<1>9. CASE LogsProcessor \/ Cancel
    BY <1>1, <1>9 DEF LogsProcessor, TakeBatch, GetBlockTimestamp, HandleLogFails,
          AbandonBatch, RecordProcessedBlockNumber, HandleLog, Cancel,
          blockFetcherVars, fetcherVars
<1>10. CASE CursorWriter
    BY <1>1, <1>10 DEF CursorWriter, SendCursor, CursorStored, CursorFails, CursorCancelled,
          Wrote, FetcherWrote, ProcessorWrote, TypeOK, AtCursor, blockFetcherVars, fetcherVars
<1>11. CASE UNCHANGED vars
    BY <1>1, <1>11 DEF vars, blockFetcherVars, fetcherVars
<1> QED
    BY <1>2, <1>3, <1>4, <1>5, <1>6, <1>7, <1>8, <1>9, <1>10, <1>11
       DEF Next, BlockFetcher, LogsFetcher, Environment, Crash, Exit

-----------------------------------------------------------------------------
(* No range leaves a gap *)

\* Reached survives progress of the fetched block and ranges that are added
\* at the end of the channel.
LEMMA ReachedGrows ==
    ASSUME NEW n \in Nat, NEW f \in Nat, NEW f2 \in Nat, f <= f2,
           NEW r \in Range, NEW ch, NEW ch2, NEW k \in Nat,
           \A j \in 1..k : ch2[j] = ch[j],
           Reached(n, f, r, ch, k)
    PROVE  Reached(n, f2, r, ch2, k)
BY DEF Reached

\* The first range of the channel becomes the current one: nothing that it
\* or a later range reached is lost when the previous one was recorded.
LEMMA ReachedShift ==
    ASSUME NEW n \in Nat, NEW f \in Nat, NEW r \in Range, r.to <= f,
           NEW ch \in Seq(Range), ch # <<>>, NEW k \in 1..Len(ch),
           Reached(n, f, r, ch, k)
    PROVE  Reached(n, f, ch[1], Tail(ch), k - 1)
<1>1. CASE n <= f + 1 \/ n <= r.to + 1
    BY <1>1 DEF Reached, Range
<1>2. CASE \E j \in 1..k : n <= ch[j].to + 1
    <2>1. PICK j \in 1..k : n <= ch[j].to + 1
        BY <1>2
    <2>2. CASE j = 1
        BY <2>1, <2>2 DEF Reached
    <2>3. CASE j # 1
        <3>1. j - 1 \in 1..(k - 1) /\ j - 1 \in 1..Len(Tail(ch))
            BY <2>3
        <3>2. Tail(ch)[j - 1] = ch[(j - 1) + 1]
            BY <3>1, Shift
        <3>3. (j - 1) + 1 = j
            OBVIOUS
        <3> QED
            BY <2>1, <3>1, <3>2, <3>3 DEF Reached
    <2> QED
        BY <2>2, <2>3
<1> QED
    BY <1>1, <1>2 DEF Reached

\* The next block to schedule is not beyond the one after the head polled
\* before, even if the head that is polled now is lower.
LEMMA NextStart ==
    ASSUME NEW a \in Nat, NEW b \in Nat
    PROVE  /\ (IF a + 1 <= b THEN a + 1 ELSE b + 1) \in Nat
           /\ (IF a + 1 <= b THEN a + 1 ELSE b + 1) <= a + 1
OBVIOUS

\* The next block to schedule directly follows the range that was cut off.
LEMMA StartAfterRange ==
    ASSUME NEW a \in Nat, NEW h \in Nat, NEW size \in Nat \ {0}, a <= h
    PROVE  (IF a + size <= h THEN a + size ELSE h + 1)
             = [from |-> a, to |-> IF a + size - 1 > h THEN h ELSE a + size - 1].to + 1
OBVIOUS

\* StartBlockFetcher schedules the blocks between two polled heads without a
\* gap, whichever head it polled before; the fetcher takes the ranges in
\* order and gives one up only after recording it.
LEMMA RangesContiguousStep ==
    ASSUME TypeOK, RangesContiguous, FetchedRange, RowsCovered, [Next]_vars
    PROVE  RangesContiguous'
<1> USE ChannelTypes, NumberTypes DEF RangesContiguous
<1>1. ASSUME UNCHANGED <<logsCursor, fromBlock, head, blocksRangeChan, blocksRange>>
      PROVE  RangesContiguous'
    BY <1>1
<1>2. CASE PollHead
    <2>1. head' \in Nat
        BY <1>2, BlockFetcherType DEF BlockFetcher, TypeOK
    <2>2. fromBlock' = head + 1 /\ fromBlock > head
        BY <1>2 DEF PollHead
    <2> DEFINE n == IF fromBlock' <= head' THEN fromBlock' ELSE head' + 1
    <2>3. n \in Nat /\ n <= head + 1 /\ ~(fromBlock <= head)
        <3>1. head \in Nat /\ fromBlock \in Nat
            BY NumberTypes
        <3>2. n \in Nat /\ n <= head + 1
            BY ONLY <2>1, <2>2, <3>1, NextStart
        <3> QED
            BY ONLY <2>2, <3>1, <3>2
    <2>4. Reached(head + 1, logsCursor.fetched, blocksRange, blocksRangeChan,
                  Len(blocksRangeChan))
        BY <2>3
    <2>5. Reached(n, logsCursor.fetched, blocksRange, blocksRangeChan, Len(blocksRangeChan))
        <3> HIDE DEF n
        <3>1. /\ head + 1 <= logsCursor.fetched + 1 => n <= logsCursor.fetched + 1
              /\ head + 1 <= blocksRange.to + 1 => n <= blocksRange.to + 1
            BY <2>3 DEF Range
        <3>2. ASSUME NEW j \in 1..Len(blocksRangeChan), head + 1 <= blocksRangeChan[j].to + 1
              PROVE  n <= blocksRangeChan[j].to + 1
            BY <2>3, <3>2 DEF Range
        <3> QED
            BY <2>4, <3>1, <3>2 DEF Reached
    <2> QED
        BY <1>2, <2>5 DEF PollHead, fetcherVars
<1>3. CASE ScheduleRange
    <2> DEFINE r == [from |-> fromBlock,
                     to |-> IF fromBlock + MaxBlockRangeSize - 1 > head
                            THEN head ELSE fromBlock + MaxBlockRangeSize - 1]
               n == Len(blocksRangeChan)
    <2>1. /\ blocksRangeChan' = Append(blocksRangeChan, r)
          /\ fromBlock' = fromBlock + MaxBlockRangeSize /\ fromBlock <= head
          /\ UNCHANGED <<logsCursor, blocksRange, head>>
        BY <1>3 DEF ScheduleRange, NextRange, fetcherVars
    <2>2. r \in Range /\ r.from = fromBlock
        BY <2>1, SizeAssumption DEF Range
    <2>3. (IF fromBlock' <= head' THEN fromBlock' ELSE head' + 1) = r.to + 1
        <3>1. head \in Nat /\ fromBlock \in Nat /\ MaxBlockRangeSize \in Nat \ {0}
            BY NumberTypes, SizeAssumption
        <3> QED
            BY ONLY <2>1, <3>1, StartAfterRange
    <2> HIDE DEF r
    <2>4. /\ Len(blocksRangeChan') = n + 1 /\ blocksRangeChan'[n + 1] = r
          /\ \A i \in 1..n : blocksRangeChan'[i] = blocksRangeChan[i]
        BY <2>1, <2>2, Send DEF TypeOK
    <2>5. ASSUME NEW x \in Nat, NEW k \in 0..n,
                 Reached(x, logsCursor.fetched, blocksRange, blocksRangeChan, k)
          PROVE  Reached(x, logsCursor.fetched, blocksRange, blocksRangeChan', k)
        <3>1. blocksRange \in Range /\ logsCursor.fetched <= logsCursor.fetched
            BY DEF TypeOK
        <3>2. k \in Nat /\ \A j \in 1..k : blocksRangeChan'[j] = blocksRangeChan[j]
            BY <2>4
        <3> QED
            BY <3>1, <3>2, <2>5, ReachedGrows
    <2>6. ASSUME NEW i \in 1..(n + 1)
          PROVE  Reached(blocksRangeChan'[i].from, logsCursor.fetched, blocksRange,
                         blocksRangeChan', i - 1)
        <3>1. CASE i \in 1..n
            BY <3>1, <2>4, <2>5
        <3>2. CASE i = n + 1
            BY <3>2, <2>1, <2>2, <2>4, <2>5
        <3> QED
            BY <3>1, <3>2
    <2>7. Reached(r.to + 1, logsCursor.fetched, blocksRange, blocksRangeChan', n + 1)
        <3>1. r.to \in Nat /\ n + 1 \in 1..(n + 1)
            BY <2>2 DEF Range
        <3>2. r.to + 1 <= blocksRangeChan'[n + 1].to + 1
            BY ONLY <2>4, <3>1
        <3> QED
            BY ONLY <3>1, <3>2 DEF Reached
    <2>8. blocksRange'.from <= logsCursor'.fetched + 1
        BY <2>1
    <2>9. \A i \in 1..Len(blocksRangeChan') :
             Reached(blocksRangeChan'[i].from, logsCursor'.fetched, blocksRange',
                     blocksRangeChan', i - 1)
        BY ONLY <2>1, <2>4, <2>6
    <2>10. Reached(IF fromBlock' <= head' THEN fromBlock' ELSE head' + 1,
                   logsCursor'.fetched, blocksRange', blocksRangeChan', Len(blocksRangeChan'))
        BY ONLY <2>1, <2>3, <2>4, <2>7
    <2> QED
        BY ONLY <2>8, <2>9, <2>10 DEF RangesContiguous
<1>4. CASE TakeRange
    <2>1. /\ blocksRange = NoRange /\ blocksRangeChan # <<>>
          /\ blocksRange' = Head(blocksRangeChan) /\ blocksRangeChan' = Tail(blocksRangeChan)
          /\ UNCHANGED <<logsCursor, head, fromBlock>>
        BY <1>4 DEF TakeRange, FetchedRange, blockFetcherVars
    <2>2. /\ Len(blocksRangeChan') = Len(blocksRangeChan) - 1 /\ Len(blocksRangeChan) >= 1
          /\ blocksRange' = blocksRangeChan[1]
          /\ \A i \in 1..Len(blocksRangeChan') :
               i + 1 \in 1..Len(blocksRangeChan) /\ blocksRangeChan'[i] = blocksRangeChan[i + 1]
        BY <2>1, Receive, Shift DEF TypeOK
    <2>3. ASSUME NEW x \in Nat, NEW k \in 1..Len(blocksRangeChan),
                 Reached(x, logsCursor.fetched, blocksRange, blocksRangeChan, k)
          PROVE  Reached(x, logsCursor.fetched, blocksRange', blocksRangeChan', k - 1)
        <3>1. blocksRange \in Range /\ blocksRange.to <= logsCursor.fetched
            BY <2>1 DEF TypeOK, NoRange
        <3>2. blocksRangeChan \in Seq(Range)
            BY DEF TypeOK
        <3>3. Reached(x, logsCursor.fetched, blocksRangeChan[1], Tail(blocksRangeChan), k - 1)
            BY <3>1, <3>2, <2>1, <2>3, ReachedShift
        <3> QED
            BY <3>3, <2>1, <2>2
    <2>4. blocksRange'.from <= logsCursor.fetched + 1
        <3>1. Reached(blocksRangeChan[1].from, logsCursor.fetched, NoRange, blocksRangeChan, 0)
            BY <2>1, <2>2
        <3>2. blocksRangeChan[1].from <= logsCursor.fetched + 1
              \/ blocksRangeChan[1].from <= 1
            BY <3>1, <2>2 DEF Reached, NoRange
        <3>3. 1 <= logsCursor.fetched + 1
            OBVIOUS
        <3>4. blocksRangeChan[1].from \in Nat
            BY <2>2
        <3>5. blocksRangeChan[1].from <= logsCursor.fetched + 1
            BY <3>2, <3>3, <3>4
        <3> QED
            BY <2>2, <3>5
    <2>5. ASSUME NEW i \in 1..Len(blocksRangeChan')
          PROVE  Reached(blocksRangeChan'[i].from, logsCursor.fetched, blocksRange',
                         blocksRangeChan', i - 1)
        <3>1. i + 1 \in 1..Len(blocksRangeChan) /\ i \in 1..Len(blocksRangeChan)
              /\ blocksRangeChan'[i] = blocksRangeChan[i + 1] /\ (i + 1) - 1 = i
            BY <2>2
        <3>2. Reached(blocksRangeChan[i + 1].from, logsCursor.fetched, blocksRange,
                      blocksRangeChan, (i + 1) - 1)
            BY <3>1
        <3>3. blocksRangeChan[i + 1].from \in Nat
            BY <3>1
        <3>4. Reached(blocksRangeChan[i + 1].from, logsCursor.fetched, blocksRange',
                      blocksRangeChan', i - 1)
            BY ONLY <3>1, <3>2, <3>3, <2>3
        <3> QED
            BY ONLY <3>1, <3>4
    <2>6. Reached(IF fromBlock <= head THEN fromBlock ELSE head + 1,
                  logsCursor.fetched, blocksRange', blocksRangeChan', Len(blocksRangeChan) - 1)
        BY <2>2, <2>3
    <2> QED
        BY <2>1, <2>2, <2>4, <2>5, <2>6
<1>5. CASE RecordFetchedBlockNumber
    <2>1. /\ logsCursor'.fetched \in Nat /\ logsCursor.fetched <= logsCursor'.fetched
          /\ UNCHANGED <<fromBlock, head, blocksRangeChan, blocksRange>>
        BY <1>5 DEF RecordFetchedBlockNumber, TypeOK, Cursor, blockFetcherVars
    <2>2. ASSUME NEW x \in Nat, NEW k \in Nat,
                 Reached(x, logsCursor.fetched, blocksRange, blocksRangeChan, k)
          PROVE  Reached(x, logsCursor'.fetched, blocksRange, blocksRangeChan, k)
        BY <2>1, <2>2 DEF Reached
    <2>3. blocksRange.from <= logsCursor'.fetched + 1
        BY <2>1
    <2>4. \A i \in 1..Len(blocksRangeChan) :
             Reached(blocksRangeChan[i].from, logsCursor'.fetched, blocksRange,
                     blocksRangeChan, i - 1)
        BY <2>2
    <2>5. Reached(IF fromBlock <= head THEN fromBlock ELSE head + 1, logsCursor'.fetched,
                  blocksRange, blocksRangeChan, Len(blocksRangeChan))
        BY <2>2
    <2> QED
        BY <2>1, <2>3, <2>4, <2>5
<1>6. CASE SubmitBatch
    <2>1. /\ blocksRange' \in {blocksRange, NoRange} /\ blocksRange.to <= logsCursor.fetched
          /\ UNCHANGED <<logsCursor, fromBlock, head, blocksRangeChan>>
        BY <1>6 DEF SubmitBatch, FetchedRange, blockFetcherVars
    <2>2. blocksRange'.from <= logsCursor.fetched + 1
        BY <2>1 DEF NoRange
    <2>3. ASSUME NEW x \in Nat, NEW k \in Nat,
                 Reached(x, logsCursor.fetched, blocksRange, blocksRangeChan, k)
          PROVE  Reached(x, logsCursor.fetched, blocksRange', blocksRangeChan, k)
        BY <2>1, <2>3 DEF Reached, NoRange
    <2> QED
        BY <2>1, <2>2, <2>3
<1>7. CASE Boot
    <2>1. logsCursor' \in Cursor /\ logsCursor'.processed <= logsCursor'.fetched
        <3>1. logsCursor' = BootCursor(dbCursor) /\ dbCursor \in Cursor \cup {NoRow}
            BY <1>7 DEF Boot, TypeOK
        <3>2. CASE dbCursor = NoRow
            BY <3>1, <3>2, BlockAssumption DEF BootCursor, Cursor
        <3>3. CASE dbCursor # NoRow
            BY <3>1, <3>3 DEF BootCursor, RowsCovered, Covered, Rows
        <3> QED
            BY <3>2, <3>3
    <2>2. /\ blocksRange' = [from |-> logsCursor'.processed + 1, to |-> logsCursor'.fetched]
          /\ blocksRangeChan' = <<>> /\ fromBlock' = head' + 1 /\ head' = logsCursor'.fetched
        BY <1>7 DEF Boot, Unprocessed
    <2>3. /\ logsCursor'.processed \in Nat /\ logsCursor'.fetched \in Nat
          /\ logsCursor'.processed + 1 <= logsCursor'.fetched + 1
        BY ONLY <2>1 DEF Cursor
    <2>4. Len(blocksRangeChan') = 0 /\ blocksRange'.from = logsCursor'.processed + 1
          /\ ~(fromBlock' <= head')
        BY ONLY <2>2, <2>3
    <2>5. Reached(head' + 1, logsCursor'.fetched, blocksRange', blocksRangeChan', 0)
        BY ONLY <2>2, <2>3 DEF Reached
    <2> QED
        BY ONLY <2>3, <2>4, <2>5 DEF RangesContiguous
<1>8. CASE LoadUnprocessedLogs \/ FetchLogs \/ SaveLogs \/ SaveLogsFails
    BY <1>1, <1>8 DEF LoadUnprocessedLogs, FetchLogs, SaveLogs, SaveLogsFails, blockFetcherVars
<1>9. CASE RecordProcessedBlockNumber
    <2>1. /\ logsCursor'.fetched = logsCursor.fetched
          /\ UNCHANGED <<fromBlock, head, blocksRangeChan, blocksRange>>
        BY <1>9 DEF RecordProcessedBlockNumber, TypeOK, Cursor, blockFetcherVars, fetcherVars
    <2> QED
        BY <2>1
<1>10. CASE TakeBatch \/ GetBlockTimestamp \/ HandleLogFails \/ AbandonBatch
             \/ GrowChain \/ Cancel \/ \E l \in Logs : HandleLog(l)
    BY <1>1, <1>10 DEF TakeBatch, GetBlockTimestamp, HandleLogFails, AbandonBatch, HandleLog,
          GrowChain, Cancel, blockFetcherVars, fetcherVars
<1>11. CASE CursorWriter
    BY <1>1, <1>11 DEF CursorWriter, SendCursor, CursorStored, CursorFails, CursorCancelled,
          Wrote, FetcherWrote, ProcessorWrote, blockFetcherVars, fetcherVars
<1>12. CASE UNCHANGED vars
    BY <1>1, <1>12 DEF vars, blockFetcherVars, fetcherVars
<1> QED
    BY <1>2, <1>3, <1>4, <1>5, <1>6, <1>7, <1>8, <1>9, <1>10, <1>11, <1>12
       DEF Next, BlockFetcher, LogsFetcher, LogsProcessor, Environment, Crash, Exit

-----------------------------------------------------------------------------
(* Everything up to the fetched block is saved *)

\* The answer to the queries is complete: FilterLogsSafe refuses a node that
\* does not have the range, or no node is further behind than the distance
\* kept from the head.
LEMMA FetchComplete ==
    ASSUME CompleteFetch, TypeOK, RangesConfirmed, FetchLogs
    PROVE  logs' = LogsIn(blocksRange)
<1>1. PICK height \in [Queries -> AcceptedHeights(blocksRange.to)] :
         logs' = {l \in LogsIn(blocksRange) : l.block <= height[l.query]}
    BY DEF FetchLogs
<1>2. blocksRange.to + BlockConfirmations <= chainHead
    BY DEF FetchLogs, RangesConfirmed
<1>3. ASSUME NEW q \in Queries PROVE height[q] \in Nat /\ blocksRange.to <= height[q]
    <2>1. height[q] \in NodeHeights /\ height[q] \in AcceptedHeights(blocksRange.to)
        BY <1>1 DEF AcceptedHeights
    <2>2. height[q] \in Nat /\ chainHead <= height[q] + MaxNodeLag
        BY <2>1, NumberTypes DEF NodeHeights
    <2>3. CASE SafeLogsRequest /\ BatchAtOneHeight
        BY <2>1, <2>2, <2>3 DEF AcceptedHeights
    <2>4. CASE MaxNodeLag <= BlockConfirmations
        BY <1>2, <2>2, <2>4, NumberTypes, ChainAssumption
    <2> QED
        BY <2>2, <2>3, <2>4 DEF CompleteFetch
<1>4. ASSUME NEW l \in LogsIn(blocksRange) PROVE l.block <= height[l.query]
    <2>1. l.block \in Nat /\ l.query \in Queries /\ l.block <= blocksRange.to
        BY QueryAssumption DEF LogsIn
    <2> QED
        BY <1>3, <2>1, NumberTypes
<1> QED
    BY <1>1, <1>4

\* The logs of a range are saved before its end is recorded as fetched, and
\* the range begins right after what was fetched before.
LEMMA FetchedRangeStep ==
    ASSUME CompleteFetch, TypeOK, RangesConfirmed, RangesContiguous, FetchedRange,
           RowsCovered, [Next]_vars
    PROVE  FetchedRange'
<1> USE NumberTypes DEF FetchedRange
<1>1. ASSUME UNCHANGED <<fetcherPc, blocksRange, logs>>, dbLogs \subseteq dbLogs',
             logsCursor'.fetched = logsCursor.fetched
      PROVE  FetchedRange'
    BY <1>1 DEF StoredUpTo, LogsIn
<1>2. CASE LoadUnprocessedLogs
    BY <1>2 DEF LoadUnprocessedLogs, StoredUpTo, dbVars
<1>3. CASE TakeRange
    BY <1>3 DEF TakeRange, StoredUpTo, dbVars
<1>4. CASE FetchLogs
    <2>1. logs' = LogsIn(blocksRange)
        BY <1>4, FetchComplete
    <2> QED
        BY <1>4, <2>1 DEF FetchLogs, StoredUpTo, LogsIn, dbVars
<1>5. CASE SaveLogs
    BY <1>5 DEF SaveLogs, StoredUpTo, LogsIn
<1>6. CASE SaveLogsFails
    BY <1>6 DEF SaveLogsFails, StoredUpTo
<1>7. CASE RecordFetchedBlockNumber
    <2>1. /\ logs = LogsIn(blocksRange) /\ logs \subseteq dbLogs
          /\ UNCHANGED <<dbLogs, blocksRange, logs>>
        BY <1>7 DEF RecordFetchedBlockNumber, dbVars
    <2>2. CASE blocksRange.to < logsCursor.fetched
        BY <1>7, <2>1, <2>2 DEF RecordFetchedBlockNumber, StoredUpTo
    <2>3. CASE ~(blocksRange.to < logsCursor.fetched)
        <3>1. logsCursor'.fetched = blocksRange.to /\ fetcherPc' = "cursor"
            BY <1>7, <2>3 DEF RecordFetchedBlockNumber, TypeOK, Cursor
        <3>2. ASSUME NEW l \in Logs, l.block <= blocksRange.to PROVE l \in dbLogs
            <4>1. l.block \in Nat /\ blocksRange.from <= logsCursor.fetched + 1
                BY QueryAssumption DEF RangesContiguous
            <4>2. CASE l.block <= logsCursor.fetched
                BY <4>2 DEF StoredUpTo
            <4>3. CASE blocksRange.from <= l.block
                BY <2>1, <3>2, <4>3 DEF LogsIn
            <4> QED
                BY <4>1, <4>2, <4>3
        <3>3. StartBlock <= logsCursor'.fetched + 1
            BY <2>3, <3>1, BlockAssumption
        <3> QED
            BY <2>1, <3>1, <3>2, <3>3 DEF StoredUpTo, LogsIn
    <2> QED
        BY <2>2, <2>3
<1>8. CASE SubmitBatch
    <2>1. PICK b \in {l.block : l \in logs} \cup {blocksRange.to} :
            /\ \A l \in logs : b <= l.block
            /\ logs' = logs \ {l \in logs : l.block = b}
            /\ IF b = blocksRange.to
               THEN fetcherPc' = "take" /\ blocksRange' = NoRange
               ELSE fetcherPc' = "submit" /\ blocksRange' = blocksRange
        BY <1>8 DEF SubmitBatch
    <2>2. \A l \in logs : l.block \in Nat /\ l.block <= blocksRange.to
        BY <1>8, QueryAssumption DEF SubmitBatch, LogsIn
    <2>3. b = blocksRange.to => logs' = {}
        BY <2>1, <2>2
    <2>4. UNCHANGED <<dbLogs, logsCursor>>
        BY <1>8 DEF SubmitBatch, dbVars
    <2> QED
        BY <1>8, <2>1, <2>3, <2>4 DEF SubmitBatch, StoredUpTo, LogsIn, NoRange
<1>9. CASE Boot
    <2>1. /\ logsCursor' = BootCursor(dbCursor) /\ dbLogs' = dbLogs
          /\ fetcherPc' = "load" /\ logs' = {}
          /\ blocksRange'.to = logsCursor'.fetched
        BY <1>9 DEF Boot, Unprocessed, dbVars
    <2>2. logsCursor' \in Cursor
        BY <2>1, BootCursorType DEF TypeOK
    <2>3. StartBlock <= logsCursor'.fetched + 1 /\ StoredUpTo(logsCursor'.fetched)
        <3>1. CASE dbCursor = NoRow
            BY <2>1, <3>1, BlockAssumption, QueryAssumption DEF BootCursor, StoredUpTo
        <3>2. CASE dbCursor # NoRow
            BY <2>1, <2>2, <3>2, BlockAssumption DEF BootCursor, RowsCovered, Covered, Rows, Cursor
        <3> QED
            BY <3>1, <3>2
    <2> QED
        BY <2>1, <2>2, <2>3 DEF StoredUpTo, Cursor
<1>10. CASE LogsProcessor
    <2>1. UNCHANGED <<fetcherPc, blocksRange, logs, dbLogs>>
        BY <1>10 DEF LogsProcessor, TakeBatch, GetBlockTimestamp, HandleLogFails,
              AbandonBatch, RecordProcessedBlockNumber, HandleLog, fetcherVars, dbVars
    <2>2. logsCursor'.fetched = logsCursor.fetched
        BY <1>10 DEF LogsProcessor, TakeBatch, GetBlockTimestamp, HandleLogFails,
              AbandonBatch, RecordProcessedBlockNumber, HandleLog, TypeOK, Cursor
    <2> QED
        BY <1>1, <2>1, <2>2
<1>11. ASSUME NEW g \in Writers,
              \/ SendCursor(g) \/ CursorStored(g)
              \/ CursorFails(g) \/ CursorCancelled(g)
       PROVE  FetchedRange'
    <2>1. dbLogs' = dbLogs /\ logsCursor' = logsCursor
        BY <1>11 DEF SendCursor, CursorStored, CursorFails, CursorCancelled, dbVars
    <2>2. \/ UNCHANGED <<fetcherPc, blocksRange, logs>>
          \/ /\ fetcherPc = "cursor" /\ blocksRange' = blocksRange
             /\ \/ fetcherPc' = "submit" /\ logs' = logs
                \/ fetcherPc' = "fetch" /\ logs' = {}
        BY <1>11 DEF SendCursor, CursorStored, CursorFails, CursorCancelled, Wrote,
              FetcherWrote, ProcessorWrote, AtCursor, TypeOK, fetcherVars
    <2>3. CASE UNCHANGED <<fetcherPc, blocksRange, logs>>
        BY <1>1, <2>1, <2>3
    <2>4. CASE /\ fetcherPc = "cursor" /\ blocksRange' = blocksRange
               /\ \/ fetcherPc' = "submit" /\ logs' = logs
                  \/ fetcherPc' = "fetch" /\ logs' = {}
        BY <2>1, <2>4 DEF StoredUpTo, LogsIn
    <2> QED
        BY <2>2, <2>3, <2>4
<1>12. CASE BlockFetcher \/ GrowChain \/ Cancel
    BY <1>1, <1>12 DEF BlockFetcher, PollHead, ScheduleRange, GrowChain, Cancel,
          fetcherVars, dbVars
<1>13. CASE UNCHANGED vars
    BY <1>1, <1>13 DEF vars, fetcherVars, dbVars
<1> QED
    BY <1>2, <1>3, <1>4, <1>5, <1>6, <1>7, <1>8, <1>9, <1>10, <1>11, <1>12, <1>13
       DEF Next, LogsFetcher, CursorWriter, Environment, Crash, Exit

-----------------------------------------------------------------------------
(* The batches *)

\* What a new process starts from is covered by the database.
LEMMA BootCovered ==
    ASSUME TypeOK, RowsCovered, Boot
    PROVE  /\ logsCursor' \in Cursor
           /\ StartBlock <= logsCursor'.processed + 1
           /\ logsCursor'.processed <= logsCursor'.fetched
           /\ HandledUpTo(logsCursor'.processed)
<1>1. logsCursor' = BootCursor(dbCursor) /\ dbCursor \in Cursor \cup {NoRow}
    BY DEF Boot, TypeOK
<1>2. CASE dbCursor = NoRow
    BY <1>1, <1>2, BlockAssumption, QueryAssumption DEF BootCursor, Cursor, HandledUpTo
<1>3. CASE dbCursor # NoRow
    BY <1>1, <1>3 DEF BootCursor, RowsCovered, Covered, Rows
<1> QED
    BY <1>2, <1>3

\* A submitted batch holds the logs of one block of a range that was recorded
\* as fetched, so the processed block never passes the fetched one.
LEMMA BatchesFormedStep ==
    ASSUME TypeOK, FetchedRange, RowsCovered, BatchesFormed, [Next]_vars
    PROVE  BatchesFormed'
<1> USE NumberTypes, ChannelTypes DEF BatchesFormed
<1>1. ASSUME UNCHANGED <<batch, logsChan, logsCursor>>
      PROVE  BatchesFormed'
    BY <1>1
<1>2. CASE SubmitBatch
    <2>1. PICK b \in {l.block : l \in logs} \cup {blocksRange.to} :
             logsChan' = Append(logsChan,
                                [block |-> b, logs |-> {l \in logs : l.block = b}])
        BY <1>2 DEF SubmitBatch
    <2> DEFINE e == [block |-> b, logs |-> {l \in logs : l.block = b}]
    <2>2. b \in Nat /\ b <= logsCursor.fetched
        <3>1. \A l \in logs : l.block \in Nat /\ l.block <= blocksRange.to
            BY <1>2, QueryAssumption DEF SubmitBatch, FetchedRange, LogsIn
        <3> QED
            BY <1>2, <3>1 DEF SubmitBatch, FetchedRange
    <2>3. e \in Batch /\ WellFormed(e, logsCursor.fetched)
        BY <2>2 DEF TypeOK, Batch, WellFormed
    <2> HIDE DEF e
    <2>4. \A i \in 1..Len(logsChan') : WellFormed(logsChan'[i], logsCursor.fetched)
        BY <2>1, <2>3, Send DEF TypeOK, e
    <2> QED
        BY <1>2, <2>4 DEF SubmitBatch, processorVars
<1>3. CASE TakeBatch
    <2>1. /\ WellFormed(batch', logsCursor.fetched)
          /\ \A i \in 1..Len(logsChan') : WellFormed(logsChan'[i], logsCursor.fetched)
        BY <1>3, Receive, Shift DEF TakeBatch, TypeOK
    <2> QED
        BY <1>3, <2>1 DEF TakeBatch
<1>4. CASE RecordFetchedBlockNumber
    <2>1. /\ logsCursor'.fetched \in Nat /\ logsCursor.fetched <= logsCursor'.fetched
          /\ logsCursor'.processed = logsCursor.processed
          /\ UNCHANGED <<batch, logsChan>>
        BY <1>4 DEF RecordFetchedBlockNumber, TypeOK, Cursor, processorVars
    <2> QED
        BY <2>1 DEF WellFormed
<1>5. CASE RecordProcessedBlockNumber
    <2>1. /\ logsCursor'.fetched = logsCursor.fetched
          /\ \/ logsCursor'.processed = logsCursor.processed /\ batch' = NoBatch
             \/ /\ logsCursor'.processed = batch.block /\ batch' = batch
                /\ logsCursor.processed <= batch.block
          /\ logsChan' = logsChan
        BY <1>5 DEF RecordProcessedBlockNumber, TypeOK, Cursor
    <2> QED
        BY <2>1, BlockAssumption DEF WellFormed, NoBatch
<1>6. CASE Boot
    <2>1. batch' = NoBatch /\ logsChan' = <<>>
        BY <1>6 DEF Boot
    <2> QED
        BY <1>6, <2>1, BootCovered DEF WellFormed, NoBatch, Cursor
<1>7. CASE CursorWriter
    <2>1. batch' \in {batch, NoBatch} /\ UNCHANGED <<logsChan, logsCursor>>
        BY <1>7 DEF CursorWriter, SendCursor, CursorStored, CursorFails, CursorCancelled,
              Wrote, FetcherWrote, ProcessorWrote, processorVars
    <2> QED
        BY <2>1 DEF WellFormed, NoBatch
<1>8. CASE BlockFetcher \/ LoadUnprocessedLogs \/ TakeRange \/ FetchLogs \/ SaveLogs
            \/ SaveLogsFails \/ GetBlockTimestamp \/ HandleLogFails \/ AbandonBatch
            \/ GrowChain \/ Cancel \/ \E l \in Logs : HandleLog(l)
    BY <1>1, <1>8 DEF BlockFetcher, PollHead, ScheduleRange, LoadUnprocessedLogs, TakeRange,
          FetchLogs, SaveLogs, SaveLogsFails, GetBlockTimestamp, HandleLogFails, AbandonBatch,
          GrowChain, Cancel, HandleLog, processorVars
<1>9. CASE UNCHANGED vars
    BY <1>1, <1>9 DEF vars, processorVars
<1> QED
    BY <1>2, <1>3, <1>4, <1>5, <1>6, <1>7, <1>8, <1>9
       DEF Next, LogsFetcher, LogsProcessor, Environment, Crash, Exit

-----------------------------------------------------------------------------
(* The cursor rows *)

\* Saved logs and handled logs are never lost.
LEMMA TablesGrow ==
    ASSUME [Next]_vars
    PROVE  dbLogs \subseteq dbLogs' /\ handled \subseteq handled'
<1>1. CASE UNCHANGED vars
    BY <1>1 DEF vars, dbVars
<1>2. CASE BlockFetcher \/ LogsFetcher
    BY <1>2 DEF BlockFetcher, PollHead, ScheduleRange, LogsFetcher, LoadUnprocessedLogs,
          TakeRange, FetchLogs, SaveLogs, SaveLogsFails, RecordFetchedBlockNumber,
          SubmitBatch, dbVars
<1>3. CASE LogsProcessor
    BY <1>3 DEF LogsProcessor, TakeBatch, GetBlockTimestamp, HandleLog, HandleLogFails,
          AbandonBatch, RecordProcessedBlockNumber, dbVars
<1>4. CASE CursorWriter
    BY <1>4 DEF CursorWriter, SendCursor, CursorStored, CursorFails, CursorCancelled, dbVars
<1>5. CASE Environment
    BY <1>5 DEF Environment, GrowChain, Cancel, Crash, Exit, Boot, dbVars
<1> QED
    BY <1>1, <1>2, <1>3, <1>4, <1>5 DEF Next

\* A row that is stored was sent before, and a row that is sent is the
\* cursor in memory of a process that is not cancelled.
LEMMA RowsComeFromMemory ==
    ASSUME TypeOK, [Next]_vars, NEW row \in (Rows \cup SentRows)'
    PROVE  row \in Rows \cup SentRows \/ (row = logsCursor /\ ~ctxDone)
<1>1. CASE UNCHANGED <<dbCursor, cursorWrite>>
    BY <1>1 DEF Rows, SentRows
<1>2. ASSUME NEW g \in Writers, SendCursor(g)
      PROVE  row \in Rows \cup SentRows \/ (row = logsCursor /\ ~ctxDone)
    BY <1>2 DEF SendCursor, Rows, SentRows, TypeOK, dbVars
<1>3. ASSUME NEW g \in Writers, CursorStored(g) \/ CursorFails(g)
      PROVE  row \in Rows \cup SentRows
    <2>1. /\ dbCursor' \in {dbCursor, cursorWrite[g]}
          /\ cursorWrite' = [cursorWrite EXCEPT ![g] = NoRow]
          /\ cursorWrite[g] # NoRow
        BY <1>3 DEF CursorStored, CursorFails
    <2> QED
        BY <2>1 DEF Rows, SentRows, TypeOK
<1>4. CASE Boot
    <2>1. \A g \in Writers : cursorWrite'[g] = NoRow
        BY <1>4 DEF Boot, NoWrites
    <2>2. dbCursor' = dbCursor
        BY <1>4 DEF Boot, dbVars
    <2> QED
        BY <2>1, <2>2 DEF Rows, SentRows
<1>5. CASE BlockFetcher \/ LogsFetcher
    BY <1>1, <1>5 DEF BlockFetcher, PollHead, ScheduleRange, LogsFetcher, LoadUnprocessedLogs,
          TakeRange, FetchLogs, SaveLogs, SaveLogsFails, RecordFetchedBlockNumber,
          SubmitBatch, dbVars
<1>6. CASE LogsProcessor \/ GrowChain \/ Cancel
    BY <1>1, <1>6 DEF LogsProcessor, TakeBatch, GetBlockTimestamp, HandleLog, HandleLogFails,
          AbandonBatch, RecordProcessedBlockNumber, GrowChain, Cancel, dbVars
<1>7. ASSUME NEW g \in Writers, CursorCancelled(g)
      PROVE  row \in Rows \cup SentRows
    BY <1>1, <1>7 DEF CursorCancelled, dbVars, Rows, SentRows
<1>8. CASE UNCHANGED vars
    BY <1>1, <1>8 DEF vars, dbVars
<1> QED
    BY <1>2, <1>3, <1>4, <1>5, <1>6, <1>7, <1>8
       DEF Next, CursorWriter, Environment, Crash, Exit

\* Whatever the order in which the two goroutines send and store the row, the
\* stored one is covered by the saved and the handled logs.
LEMMA RowsCoveredStep ==
    ASSUME TypeOK, FetchedRange, RowsCovered, BatchesFormed, ctxDone \/ Pipeline, [Next]_vars
    PROVE  RowsCovered'
<1> SUFFICES ASSUME NEW row \in (Rows \cup SentRows)' PROVE Covered(row)'
    BY DEF RowsCovered
<1>1. Covered(row)
    <2>1. CASE row \in Rows \cup SentRows
        BY <2>1 DEF RowsCovered
    <2>2. CASE row = logsCursor /\ ~ctxDone
        BY <2>2 DEF Covered, FetchedRange, BatchesFormed, Pipeline, BatchHandled
    <2> QED
        BY <2>1, <2>2, RowsComeFromMemory
<1> QED
    BY <1>1, TablesGrow DEF Covered, StoredUpTo, HandledUpTo

-----------------------------------------------------------------------------
(* No log is left behind in the pipeline *)

\* Held survives more logs that are done and batches added at the end.
LEMMA HeldGrows ==
    ASSUME NEW l, NEW done, NEW done2, done \subseteq done2,
           NEW ch, NEW ch2, NEW k \in Nat, NEW k2 \in Nat, k <= k2,
           \A j \in 1..k : ch2[j] = ch[j],
           Held(l, done, ch, k)
    PROVE  Held(l, done2, ch2, k2)
BY DEF Held

\* The first batch of the channel becomes the one being processed.
LEMMA HeldShift ==
    ASSUME NEW l, NEW done, NEW ch \in Seq(Batch), ch # <<>>, NEW k \in 1..Len(ch),
           Held(l, done, ch, k)
    PROVE  Held(l, done \cup ch[1].logs, Tail(ch), k - 1)
<1>1. CASE l \in done
    BY <1>1 DEF Held
<1>2. CASE \E j \in 1..k : l \in ch[j].logs
    <2>1. PICK j \in 1..k : l \in ch[j].logs
        BY <1>2
    <2>2. CASE j = 1
        BY <2>1, <2>2 DEF Held
    <2>3. CASE j # 1
        <3>1. j - 1 \in 1..(k - 1) /\ j - 1 \in 1..Len(Tail(ch)) /\ (j - 1) + 1 = j
            BY <2>3
        <3>2. Tail(ch)[j - 1] = ch[j]
            BY <3>1, Shift
        <3> QED
            BY <2>1, <3>1, <3>2 DEF Held
    <2> QED
        BY <2>2, <2>3
<1> QED
    BY <1>1, <1>2 DEF Held

\* Where a fetched log is when it is in no batch yet.
Fetching(l) ==
    \/ fetcherPc = "submit" /\ l \in logs
    \/ fetcherPc # "submit" /\ l \in LogsIn(blocksRange)

\* FetchedInPipeline, in the terms of the proof.
LEMMA FetchedInPipelineDef ==
    FetchedInPipeline <=>
      (ctxDone \/ \A l \in Logs : l.block <= logsCursor.fetched =>
                    Held(l, handled \cup batch.logs, logsChan, Len(logsChan)) \/ Fetching(l))
BY DEF FetchedInPipeline, Held, Fetching

\* The steps of the fetcher that move no batch keep hold of the logs of the
\* range until they are submitted.
LEMMA FetcherKeepsLogs ==
    ASSUME TypeOK, FetchedRange, RangesContiguous, ~ctxDone, Pipeline,
           UNCHANGED <<handled, batch, logsChan, processorPc, todo, ctxDone>>,
           logsCursor'.processed = logsCursor.processed,
           \A l \in Logs : l.block <= logsCursor'.fetched =>
               l.block <= logsCursor.fetched \/ Fetching(l)',
           \A l \in Logs : Fetching(l) => Fetching(l)'
    PROVE  Pipeline'
<1>1. BatchesOrdered'
    BY DEF Pipeline, BatchesOrdered
<1>2. FetchedInPipeline'
    <2>1. \A l \in Logs : l.block <= logsCursor'.fetched =>
             Held(l, handled \cup batch.logs, logsChan, Len(logsChan)) \/ Fetching(l)'
        BY FetchedInPipelineDef DEF Pipeline
    <2> QED
        BY <2>1 DEF FetchedInPipeline, Held, Fetching
<1>3. BatchHandled'
    BY DEF Pipeline, BatchHandled, HandledUpTo
<1> QED
    BY <1>1, <1>2, <1>3 DEF Pipeline

\* A step of the fetcher that moves no batch.
LEMMA FetcherPipelineStep ==
    ASSUME CompleteFetch, TypeOK, FetchedRange, RangesConfirmed, RangesContiguous,
           ~ctxDone, Pipeline,
           \/ LoadUnprocessedLogs \/ TakeRange \/ FetchLogs \/ SaveLogs \/ SaveLogsFails
           \/ RecordFetchedBlockNumber
    PROVE  Pipeline'
<1> USE NumberTypes
<1>0. /\ UNCHANGED <<handled, batch, logsChan, processorPc, todo, ctxDone>>
      /\ logsCursor'.processed = logsCursor.processed
    BY DEF LoadUnprocessedLogs, TakeRange, FetchLogs, SaveLogs, SaveLogsFails,
           RecordFetchedBlockNumber, TypeOK, Cursor, dbVars, processorVars
<1>1. CASE LoadUnprocessedLogs
    <2>1. \A l \in LogsIn(blocksRange) : l \in dbLogs
        BY <1>1, QueryAssumption DEF LoadUnprocessedLogs, FetchedRange, LogsIn, StoredUpTo
    <2>2. logs' = LogsIn(blocksRange) /\ fetcherPc' = "submit" /\ fetcherPc = "load"
          /\ logsCursor' = logsCursor
        BY <1>1, <2>1 DEF LoadUnprocessedLogs
    <2>3. \A l \in Logs : Fetching(l) => Fetching(l)'
        BY <2>2 DEF Fetching
    <2> QED
        BY <1>0, <2>2, <2>3, FetcherKeepsLogs
<1>2. CASE TakeRange
    <2>1. \A l \in Logs : ~Fetching(l)
        BY <1>2, QueryAssumption DEF TakeRange, FetchedRange, Fetching, LogsIn, NoRange
    <2>2. logsCursor' = logsCursor
        BY <1>2 DEF TakeRange
    <2> QED
        BY <1>0, <2>1, <2>2, FetcherKeepsLogs
<1>3. CASE FetchLogs \/ SaveLogs \/ SaveLogsFails
    <2>1. fetcherPc # "submit" /\ fetcherPc' # "submit"
          /\ UNCHANGED <<blocksRange, logsCursor>>
        BY <1>3 DEF FetchLogs, SaveLogs, SaveLogsFails
    <2>2. \A l \in Logs : Fetching(l) => Fetching(l)'
        BY <2>1 DEF Fetching, LogsIn
    <2> QED
        BY <1>0, <2>1, <2>2, FetcherKeepsLogs
<1>4. CASE RecordFetchedBlockNumber
    <2>1. /\ fetcherPc = "record" /\ logs = LogsIn(blocksRange)
          /\ UNCHANGED <<blocksRange, logs>>
          /\ fetcherPc' \in {"submit", "cursor"}
        BY <1>4 DEF RecordFetchedBlockNumber, FetchedRange
    <2>2. \A l \in Logs : Fetching(l) => Fetching(l)'
        BY <2>1 DEF Fetching, LogsIn
    <2>3. ASSUME NEW l \in Logs, l.block <= logsCursor'.fetched
          PROVE  l.block <= logsCursor.fetched \/ Fetching(l)'
        <3>1. logsCursor'.fetched \in {logsCursor.fetched, blocksRange.to}
            BY <1>4 DEF RecordFetchedBlockNumber, TypeOK, Cursor
        <3>2. l.block \in Nat
            BY QueryAssumption
        <3>3. l.block <= logsCursor.fetched \/ l \in LogsIn(blocksRange)
            BY <2>3, <3>1, <3>2 DEF RangesContiguous, LogsIn
        <3> QED
            BY <2>1, <3>3 DEF Fetching, LogsIn
    <2> QED
        BY <1>0, <2>2, <2>3, FetcherKeepsLogs
<1> QED
    BY <1>1, <1>2, <1>3, <1>4

\* Submitting: the batches of a range follow each other in block order, so
\* all earlier logs are handled or in batches that are already in the channel.
LEMMA SubmitPipelineStep ==
    ASSUME TypeOK, FetchedRange, ~ctxDone, Pipeline, SubmitBatch
    PROVE  Pipeline'
<1> USE NumberTypes, ChannelTypes
<1>1. PICK b \in {l.block : l \in logs} \cup {blocksRange.to} :
        /\ \A l \in logs : b <= l.block
        /\ logsChan' = Append(logsChan, [block |-> b, logs |-> {l \in logs : l.block = b}])
        /\ logs' = logs \ {l \in logs : l.block = b}
        /\ IF b = blocksRange.to
           THEN fetcherPc' = "take" /\ blocksRange' = NoRange
           ELSE fetcherPc' = "submit" /\ blocksRange' = blocksRange
    BY DEF SubmitBatch
<1> DEFINE now == {l \in logs : l.block = b}
           e == [block |-> b, logs |-> now]
           n == Len(logsChan)
           done == handled \cup batch.logs
<1>2. /\ UNCHANGED <<handled, batch, processorPc, todo, logsCursor, ctxDone>>
      /\ fetcherPc = "submit"
    BY DEF SubmitBatch, dbVars, processorVars
<1>3. \A l \in logs : l.block \in Nat /\ l.block <= blocksRange.to
    BY <1>2, QueryAssumption DEF FetchedRange, LogsIn
<1>4. b \in Nat /\ b <= logsCursor.fetched
    BY <1>1, <1>2, <1>3 DEF FetchedRange
<1>5. e \in Batch
    BY <1>4 DEF Batch, TypeOK
<1>6. /\ Len(logsChan') = n + 1 /\ logsChan'[n + 1] = e
      /\ \A i \in 1..n : logsChan'[i] = logsChan[i]
    BY <1>1, <1>5, Send DEF TypeOK
<1>7. \A l \in Logs : l.block <= logsCursor.fetched => Held(l, done, logsChan, n) \/ l \in logs
    BY <1>2, FetchedInPipelineDef DEF Pipeline, Fetching
<1>8. \A l \in Logs : \A k \in 0..n :
         Held(l, done, logsChan, k) => Held(l, done, logsChan', k)
    <2> SUFFICES ASSUME NEW l \in Logs, NEW k \in 0..n, Held(l, done, logsChan, k)
                 PROVE  Held(l, done, logsChan', k)
        OBVIOUS
    <2>1. k \in Nat /\ k <= k /\ \A j \in 1..k : logsChan'[j] = logsChan[j]
        BY <1>6
    <2> QED
        BY <2>1, HeldGrows
<1>9. \A l \in now : Held(l, done, logsChan', n + 1)
    BY <1>6 DEF Held
<1>10. \A l \in Logs : Held(l, done, logsChan', n) => Held(l, done, logsChan', n + 1)
    BY HeldGrows
<1>11. ASSUME NEW i \in 1..(n + 1), NEW l \in Logs, l.block <= logsChan'[i].block
       PROVE  Held(l, done, logsChan', i)
    <2>1. CASE i \in 1..n
        <3>1. Held(l, done, logsChan, i)
            BY <1>6, <1>11, <2>1 DEF Pipeline, BatchesOrdered
        <3>2. i \in 0..n
            BY <2>1
        <3> QED
            BY <1>8, <3>1, <3>2
    <2>2. CASE i = n + 1
        <3>1. l.block <= b
            BY <1>6, <1>11, <2>2
        <3>2. l.block \in Nat /\ l.block <= logsCursor.fetched
            BY <1>4, <3>1, QueryAssumption
        <3>3. CASE l \in logs
            <4>1. l.block = b
                BY <1>1, <1>4, <3>1, <3>2, <3>3
            <4> QED
                BY <1>9, <2>2, <3>3, <4>1
        <3>4. CASE Held(l, done, logsChan, n)
            <4>1. n \in 0..n
                OBVIOUS
            <4>2. Held(l, done, logsChan', n + 1)
                BY <1>8, <1>10, <3>4, <4>1
            <4> QED
                BY <2>2, <4>2
        <3> QED
            BY <1>7, <3>2, <3>3, <3>4
    <2> QED
        BY <2>1, <2>2
<1>12. BatchesOrdered'
    BY <1>2, <1>6, <1>11 DEF Pipeline, BatchesOrdered
<1>13. ASSUME NEW l \in Logs, l.block <= logsCursor.fetched
       PROVE  Held(l, done, logsChan', n + 1) \/ Fetching(l)'
    <2>1. CASE l \in logs /\ l \notin now
        <3>1. b # blocksRange.to
            BY <1>1, <1>3, <1>4, <2>1
        <3> QED
            BY <1>1, <2>1, <3>1 DEF Fetching
    <2>2. CASE l \in now
        BY <1>9, <2>2
    <2>3. CASE Held(l, done, logsChan, n)
        <3>1. n \in 0..n
            OBVIOUS
        <3> QED
            BY <1>8, <1>10, <2>3, <3>1
    <2> QED
        BY <1>7, <1>13, <2>1, <2>2, <2>3
<1>14. FetchedInPipeline'
    <2>1. \A l \in Logs : l.block <= logsCursor.fetched =>
             Held(l, done, logsChan', Len(logsChan')) \/ Fetching(l)'
        BY <1>6, <1>13
    <2> QED
        BY <1>2, <2>1 DEF FetchedInPipeline, Held, Fetching
<1>15. BatchHandled'
    BY <1>2 DEF Pipeline, BatchHandled, HandledUpTo
<1> QED
    BY <1>12, <1>14, <1>15 DEF Pipeline

\* Taking a batch, when the previous one has been handled.
LEMMA TakePipelineStep ==
    ASSUME TypeOK, FetchedRange, ~ctxDone, Pipeline, TakeBatch
    PROVE  Pipeline'
<1> USE NumberTypes, ChannelTypes
<1> DEFINE n == Len(logsChan)
<1>1. /\ batch = NoBatch /\ logsChan # <<>>
      /\ batch' = Head(logsChan) /\ logsChan' = Tail(logsChan)
      /\ todo' = batch'.logs /\ processorPc' = "work"
      /\ UNCHANGED <<handled, logsCursor, ctxDone, fetcherPc, logs, blocksRange>>
    BY DEF TakeBatch, Pipeline, BatchHandled, dbVars, fetcherVars
<1>2. /\ n >= 1 /\ Len(logsChan') = n - 1 /\ batch' = logsChan[1]
      /\ \A i \in 1..Len(logsChan') : i + 1 \in 1..n /\ logsChan'[i] = logsChan[i + 1]
    BY <1>1, Receive, Shift DEF TypeOK
<1>3. handled \cup batch.logs = handled
    BY <1>1 DEF NoBatch
<1>4. \A l \in Logs : \A k \in 1..n :
         Held(l, handled, logsChan, k) => Held(l, handled \cup batch'.logs, logsChan', k - 1)
    BY <1>1, <1>2, HeldShift DEF TypeOK
<1>5. ASSUME NEW l \in Logs, l.block <= batch'.block
      PROVE  l \in handled \cup batch'.logs
    <2>1. 1 \in 1..n /\ l.block <= logsChan[1].block
        BY <1>2, <1>5
    <2>2. Held(l, handled, logsChan, 1)
        BY <1>3, <2>1 DEF Pipeline, BatchesOrdered
    <2> QED
        BY <1>2, <2>2 DEF Held
<1>6. ASSUME NEW i \in 1..Len(logsChan'), NEW l \in Logs, l.block <= logsChan'[i].block
      PROVE  Held(l, handled \cup batch'.logs, logsChan', i)
    <2>1. i + 1 \in 1..n /\ l.block <= logsChan[i + 1].block /\ (i + 1) - 1 = i
        BY <1>2, <1>6
    <2>2. Held(l, handled, logsChan, i + 1)
        BY <1>3, <2>1 DEF Pipeline, BatchesOrdered
    <2> QED
        BY <1>4, <2>1, <2>2
<1>7. BatchesOrdered'
    BY <1>1, <1>5, <1>6 DEF BatchesOrdered
<1>8. ASSUME NEW l \in Logs, l.block <= logsCursor.fetched
      PROVE  Held(l, handled \cup batch'.logs, logsChan', Len(logsChan')) \/ Fetching(l)
    <2>1. Held(l, handled, logsChan, n) \/ Fetching(l)
        BY <1>3, <1>8, FetchedInPipelineDef DEF Pipeline
    <2>2. n \in 1..n
        BY <1>2
    <2> QED
        BY <1>2, <1>4, <2>1, <2>2
<1>9. FetchedInPipeline'
    BY <1>1, <1>8 DEF FetchedInPipeline, Held, Fetching
<1>10. BatchHandled'
    BY <1>1 DEF Pipeline, BatchHandled, HandledUpTo
<1> QED
    BY <1>7, <1>9, <1>10 DEF Pipeline

\* The steps of the processor on the batch it holds: it drops the batch only
\* after every log of it was handled.
LEMMA ProcessorPipelineStep ==
    ASSUME TypeOK, BatchesFormed, ~ctxDone, Pipeline,
           UNCHANGED <<logsChan, fetcherPc, logs, blocksRange, ctxDone>>,
           logsCursor'.fetched = logsCursor.fetched,
           handled \subseteq handled',
           \/ batch' = batch
           \/ batch' = NoBatch /\ batch.logs \subseteq handled',
           BatchHandled'
    PROVE  Pipeline'
<1> USE NumberTypes, ChannelTypes
<1> DEFINE done == handled \cup batch.logs
           done2 == handled' \cup batch'.logs
<1>1. done \subseteq done2
    BY DEF NoBatch
<1>2. \A l \in Logs : \A k \in 0..Len(logsChan) :
         Held(l, done, logsChan, k) => Held(l, done2, logsChan, k)
    BY <1>1 DEF Held
<1>3. \A l \in Logs : l.block <= batch'.block => l \in done2
    <2>1. CASE batch' = batch
        BY <1>1, <2>1 DEF Pipeline, BatchesOrdered
    <2>2. CASE batch' = NoBatch
        BY <2>2, BlockAssumption, QueryAssumption DEF NoBatch
    <2> QED
        BY <2>1, <2>2
<1>4. \A i \in 1..Len(logsChan) : \A l \in Logs :
         l.block <= logsChan[i].block => Held(l, done2, logsChan, i)
    <2> SUFFICES ASSUME NEW i \in 1..Len(logsChan), NEW l \in Logs,
                        l.block <= logsChan[i].block
                 PROVE  Held(l, done2, logsChan, i)
        OBVIOUS
    <2>1. Held(l, done, logsChan, i)
        BY DEF Pipeline, BatchesOrdered
    <2>2. i \in 0..Len(logsChan)
        OBVIOUS
    <2> QED
        BY <1>2, <2>1, <2>2
<1>5. BatchesOrdered'
    BY <1>3, <1>4 DEF BatchesOrdered
<1>6. \A l \in Logs : l.block <= logsCursor.fetched =>
         Held(l, done2, logsChan, Len(logsChan)) \/ Fetching(l)
    <2> SUFFICES ASSUME NEW l \in Logs, l.block <= logsCursor.fetched
                 PROVE  Held(l, done2, logsChan, Len(logsChan)) \/ Fetching(l)
        OBVIOUS
    <2>1. Held(l, done, logsChan, Len(logsChan)) \/ Fetching(l)
        BY FetchedInPipelineDef DEF Pipeline
    <2>2. Len(logsChan) \in 0..Len(logsChan)
        OBVIOUS
    <2> QED
        BY <1>2, <2>1, <2>2
<1>7. FetchedInPipeline'
    BY <1>6 DEF FetchedInPipeline, Held, Fetching
<1> QED
    BY <1>5, <1>7 DEF Pipeline

\* No step of a process that is not cancelled leaves a log behind, and a new
\* process starts with everything that was saved and not handled in the range
\* it loads.
LEMMA PipelineStep ==
    ASSUME CompleteFetch, TypeOK, FetchedRange, RangesConfirmed, RangesContiguous,
           RowsCovered, BatchesFormed, ctxDone \/ Pipeline, [Next]_vars
    PROVE  ctxDone' \/ Pipeline'
<1> SUFFICES ASSUME ~ctxDone' PROVE Pipeline'
    OBVIOUS
<1> USE NumberTypes
<1>1. CASE Boot
    <2>1. /\ batch' = NoBatch /\ logsChan' = <<>> /\ todo' = {} /\ processorPc' = "take"
          /\ fetcherPc' = "load" /\ handled' = handled
          /\ blocksRange' = [from |-> logsCursor'.processed + 1, to |-> logsCursor'.fetched]
        BY <1>1 DEF Boot, Unprocessed, dbVars
    <2>2. logsCursor' \in Cursor /\ HandledUpTo(logsCursor'.processed)
        BY <1>1, BootCovered
    <2>3. BatchesOrdered'
        BY <2>1, BlockAssumption, QueryAssumption DEF BatchesOrdered, NoBatch
    <2>4. FetchedInPipeline'
        <3>1. \A l \in Logs : l.block <= logsCursor'.fetched =>
                 l \in handled \/ l \in LogsIn(blocksRange)'
            BY <2>1, <2>2, QueryAssumption DEF HandledUpTo, LogsIn, Cursor
        <3> QED
            BY <2>1, <3>1 DEF FetchedInPipeline
    <2>5. BatchHandled'
        BY <2>1, <2>2 DEF BatchHandled, NoBatch, HandledUpTo
    <2> QED
        BY <2>3, <2>4, <2>5 DEF Pipeline
<1>2. CASE ~ctxDone
    <2>0. Pipeline
        BY <1>2
    <2>1. CASE SubmitBatch
        BY <1>2, <2>0, <2>1, SubmitPipelineStep
    <2>2. CASE TakeBatch
        BY <1>2, <2>0, <2>2, TakePipelineStep
    <2>3. CASE LoadUnprocessedLogs \/ TakeRange \/ FetchLogs \/ SaveLogs \/ SaveLogsFails
                \/ RecordFetchedBlockNumber
        BY <1>2, <2>0, <2>3, FetcherPipelineStep
    <2>4. ASSUME NEW l \in Logs, HandleLog(l) PROVE Pipeline'
        <3>1. BatchHandled'
            BY <2>0, <2>4 DEF HandleLog, Pipeline, BatchHandled, HandledUpTo
        <3> QED
            BY <1>2, <2>0, <2>4, <3>1, ProcessorPipelineStep DEF HandleLog, fetcherVars
    <2>5. CASE HandleLogFails
        <3>1. BatchHandled'
            BY <2>0, <2>5 DEF HandleLogFails, Pipeline, BatchHandled, HandledUpTo, dbVars
        <3> QED
            BY <1>2, <2>0, <2>5, <3>1, ProcessorPipelineStep
               DEF HandleLogFails, fetcherVars, dbVars
    <2>6. CASE RecordProcessedBlockNumber
        <3>1. batch.logs \subseteq handled
            BY <2>0, <2>6 DEF RecordProcessedBlockNumber, BothReturned, Pipeline, BatchHandled
        <3>2. HandledUpTo(batch.block) /\ HandledUpTo(logsCursor.processed)
            BY <2>0, <3>1 DEF Pipeline, BatchesOrdered, BatchHandled, HandledUpTo
        <3>3. /\ logsCursor'.processed \in {logsCursor.processed, batch.block}
              /\ logsCursor'.fetched = logsCursor.fetched
            BY <2>6 DEF RecordProcessedBlockNumber, TypeOK, Cursor
        <3>4. \/ batch' = NoBatch /\ processorPc' = "take"
              \/ batch' = batch /\ processorPc' = "cursor"
            BY <2>6 DEF RecordProcessedBlockNumber
        <3>5. UNCHANGED <<logsChan, fetcherPc, logs, blocksRange, ctxDone, handled, todo>>
            BY <2>6 DEF RecordProcessedBlockNumber, fetcherVars, dbVars
        <3>6. BatchHandled'
            BY <3>1, <3>2, <3>3, <3>4, <3>5 DEF BatchHandled, HandledUpTo, NoBatch
        <3> QED
            BY <1>2, <2>0, <3>1, <3>3, <3>4, <3>5, <3>6, ProcessorPipelineStep
    <2>7. ASSUME NEW g \in Writers,
                 \/ SendCursor(g) \/ CursorStored(g)
                 \/ CursorFails(g) \/ CursorCancelled(g)
          PROVE  Pipeline'
        <3>1. UNCHANGED <<logsChan, logsCursor, ctxDone, handled, todo>>
            BY <2>7 DEF SendCursor, CursorStored, CursorFails, CursorCancelled, Wrote,
                  FetcherWrote, ProcessorWrote, dbVars, processorVars
        <3>2. CASE UNCHANGED <<batch, processorPc, fetcherPc, logs, blocksRange>>
            <4>1. BatchHandled'
                BY <2>0, <3>1, <3>2 DEF Pipeline, BatchHandled, HandledUpTo
            <4> QED
                BY <1>2, <2>0, <3>1, <3>2, <4>1, ProcessorPipelineStep
        <3>3. CASE /\ g = "fetcher" /\ (FetcherWrote(TRUE) \/ FetcherWrote(FALSE))
                   /\ fetcherPc = "cursor"
            <4>1. /\ UNCHANGED <<batch, processorPc, blocksRange>>
                  /\ logs = LogsIn(blocksRange)
                  /\ \/ fetcherPc' = "submit" /\ logs' = logs
                     \/ fetcherPc' = "fetch"
                BY <3>3 DEF FetcherWrote, FetchedRange, processorVars
            <4>2. \A l \in Logs : Fetching(l) => Fetching(l)'
                BY <3>3, <4>1 DEF Fetching, LogsIn
            <4> QED
                BY <1>2, <2>0, <3>1, <4>1, <4>2, FetcherKeepsLogs
        <3>4. CASE /\ ProcessorWrote(TRUE) \/ ProcessorWrote(FALSE)
                   /\ processorPc = "cursor"
            <4>1. /\ \/ batch' = NoBatch
                     \/ batch' = batch /\ processorPc' = "cursor"
                  /\ UNCHANGED <<fetcherPc, logs, blocksRange>>
                BY <3>4 DEF ProcessorWrote, fetcherVars
            <4>2. batch.logs \subseteq handled
                BY <2>0, <3>4 DEF Pipeline, BatchHandled, TypeOK
            <4>3. BatchHandled'
                BY <2>0, <3>1, <4>1, <4>2 DEF Pipeline, BatchHandled, HandledUpTo, NoBatch
            <4> QED
                BY <1>2, <2>0, <3>1, <4>1, <4>2, <4>3, ProcessorPipelineStep
        <3>5. \/ UNCHANGED <<batch, processorPc, fetcherPc, logs, blocksRange>>
              \/ /\ g = "fetcher" /\ (FetcherWrote(TRUE) \/ FetcherWrote(FALSE))
                 /\ fetcherPc = "cursor"
              \/ /\ (ProcessorWrote(TRUE) \/ ProcessorWrote(FALSE))
                 /\ processorPc = "cursor"
            BY <2>7 DEF SendCursor, CursorStored, CursorFails, CursorCancelled, Wrote,
                  TypeOK, AtCursor, fetcherVars, processorVars
        <3> QED
            BY <3>2, <3>3, <3>4, <3>5
    <2>8. CASE BlockFetcher \/ GetBlockTimestamp \/ GrowChain
        <3>1. /\ UNCHANGED <<logsChan, logsCursor, fetcherPc, logs, blocksRange, ctxDone>>
              /\ UNCHANGED <<handled, batch, todo, processorPc>>
            BY <2>8 DEF BlockFetcher, PollHead, ScheduleRange, GetBlockTimestamp, GrowChain,
                        dbVars, fetcherVars, processorVars
        <3>2. BatchHandled'
            BY <2>0, <3>1 DEF Pipeline, BatchHandled, HandledUpTo
        <3> QED
            BY <1>2, <2>0, <3>1, <3>2, ProcessorPipelineStep
    <2>9. CASE AbandonBatch \/ Cancel
        BY <1>2, <2>9 DEF AbandonBatch, Cancel
    <2>10. CASE UNCHANGED vars
        <3>1. /\ UNCHANGED <<logsChan, logsCursor, fetcherPc, logs, blocksRange, ctxDone>>
              /\ UNCHANGED <<handled, batch, todo, processorPc>>
            BY <2>10 DEF vars, dbVars, fetcherVars, processorVars
        <3>2. BatchHandled'
            BY <2>0, <3>1 DEF Pipeline, BatchHandled, HandledUpTo
        <3> QED
            BY <1>2, <2>0, <3>1, <3>2, ProcessorPipelineStep
    <2> QED
        BY <1>1, <2>1, <2>2, <2>3, <2>4, <2>5, <2>6, <2>7, <2>8, <2>9, <2>10
           DEF Next, LogsFetcher, LogsProcessor, CursorWriter, Environment, Crash, Exit
<1>3. CASE ctxDone
    <2>1. ctxDone' # ctxDone
        BY <1>3
    <2>2. ~BlockFetcher /\ ~GrowChain /\ ~Cancel /\ ~Crash /\ vars' # vars
        BY <1>3, <2>1 DEF BlockFetcher, PollHead, ScheduleRange, GrowChain, Cancel, Crash, vars
    <2>3. ~LogsFetcher
        BY <2>1 DEF LogsFetcher, LoadUnprocessedLogs, TakeRange, FetchLogs, SaveLogs,
              SaveLogsFails, RecordFetchedBlockNumber, SubmitBatch
    <2>4. ~LogsProcessor
        BY <2>1 DEF LogsProcessor, TakeBatch, GetBlockTimestamp, HandleLog, HandleLogFails,
              AbandonBatch, RecordProcessedBlockNumber
    <2>5. ~CursorWriter
        BY <2>1 DEF CursorWriter, SendCursor, CursorStored, CursorFails, CursorCancelled
    <2> QED
        BY <1>1, <2>2, <2>3, <2>4, <2>5 DEF Next, Environment, Exit
<1> QED
    BY <1>2, <1>3

-----------------------------------------------------------------------------
(* The timestamps of the processed blocks *)

\* A batch is recorded as processed when its timestamp is stored, unless the
\* context was cancelled, and then nothing is stored any more.
LEMMA MarksStampedStep ==
    ASSUME TypeOK, MarksStamped, [Next]_vars
    PROVE  MarksStamped'
<1> USE DEF ProcessorPcs
<1>1. blockTimestamps \subseteq blockTimestamps'
    <2>1. CASE BlockFetcher \/ LogsFetcher
        BY <2>1 DEF BlockFetcher, PollHead, ScheduleRange, LogsFetcher, LoadUnprocessedLogs,
              TakeRange, FetchLogs, SaveLogs, SaveLogsFails, RecordFetchedBlockNumber,
              SubmitBatch, dbVars
    <2>2. CASE LogsProcessor
        BY <2>2 DEF LogsProcessor, TakeBatch, GetBlockTimestamp, HandleLog, HandleLogFails,
              AbandonBatch, RecordProcessedBlockNumber, dbVars
    <2>3. CASE CursorWriter \/ Environment \/ UNCHANGED vars
        BY <2>3 DEF CursorWriter, SendCursor, CursorStored, CursorFails, CursorCancelled,
              Environment, GrowChain, Cancel, Crash, Exit, Boot, vars, dbVars
    <2> QED
        BY <2>1, <2>2, <2>3 DEF Next
<1>2. \A n : Stamped(n) => Stamped(n)'
    BY <1>1 DEF Stamped
<1>3. ASSUME NEW row \in (Rows \cup SentRows)' PROVE Stamped(row.processed)'
    BY <1>2, <1>3, RowsComeFromMemory DEF MarksStamped
<1> DEFINE Kept == /\ logsCursor'.processed = logsCursor.processed
                   /\ ctxDone => ctxDone'
<1>4. ASSUME Kept PROVE ctxDone' \/ Stamped(logsCursor.processed)'
    BY <1>2, <1>4 DEF MarksStamped
<1>5. ASSUME Kept, UNCHANGED <<processorPc, batch, stamped>>
      PROVE  stamped' => processorPc' = "work" /\ (ctxDone' \/ batch'.block \in blockTimestamps')
    BY <1>1, <1>5 DEF MarksStamped
<1>6. CASE BlockFetcher \/ LogsFetcher
    <2>1. Kept /\ UNCHANGED <<processorPc, batch, stamped>>
        BY <1>6 DEF BlockFetcher, PollHead, ScheduleRange, LogsFetcher, LoadUnprocessedLogs,
              TakeRange, FetchLogs, SaveLogs, SaveLogsFails, RecordFetchedBlockNumber,
              SubmitBatch, processorVars, TypeOK, Cursor
    <2> QED
        BY <1>3, <1>4, <1>5, <2>1 DEF MarksStamped
<1>7. CASE HandleLogFails \/ (\E l \in Logs : HandleLog(l)) \/ GrowChain \/ Cancel
             \/ UNCHANGED vars
    <2>1. Kept /\ UNCHANGED <<processorPc, batch, stamped>>
        BY <1>7 DEF HandleLogFails, HandleLog, GrowChain, Cancel, processorVars, vars
    <2> QED
        BY <1>3, <1>4, <1>5, <2>1 DEF MarksStamped
<1>8. CASE TakeBatch
    <2>1. Kept /\ ~stamped'
        BY <1>8 DEF TakeBatch
    <2> QED
        BY <1>3, <1>4, <2>1 DEF MarksStamped
<1>9. CASE GetBlockTimestamp
    <2>1. /\ Kept /\ UNCHANGED <<processorPc, batch>> /\ processorPc = "work"
          /\ batch.block \in blockTimestamps'
        BY <1>9 DEF GetBlockTimestamp
    <2> QED
        BY <1>3, <1>4, <2>1 DEF MarksStamped
<1>10. CASE AbandonBatch
    <2>1. Kept /\ ctxDone' /\ processorPc' = "work"
        BY <1>10 DEF AbandonBatch
    <2> QED
        BY <1>3, <1>4, <2>1 DEF MarksStamped
<1>11. CASE RecordProcessedBlockNumber
    <2>1. /\ stamped /\ ~stamped' /\ ctxDone' = ctxDone
          /\ logsCursor'.processed \in {logsCursor.processed, batch.block}
        BY <1>11 DEF RecordProcessedBlockNumber, BothReturned, TypeOK, Cursor
    <2>2. ctxDone \/ Stamped(batch.block)
        BY <2>1 DEF MarksStamped, Stamped
    <2> QED
        BY <1>2, <1>3, <2>1, <2>2 DEF MarksStamped
<1>12. ASSUME NEW g \in Writers,
              SendCursor(g) \/ CursorStored(g) \/ CursorFails(g) \/ CursorCancelled(g)
       PROVE  MarksStamped'
    <2>1. Kept /\ stamped' = stamped
        BY <1>12 DEF SendCursor, CursorStored, CursorFails, CursorCancelled, Wrote,
              FetcherWrote, ProcessorWrote, processorVars
    <2>2. CASE UNCHANGED <<processorPc, batch>>
        BY <1>3, <1>4, <1>5, <2>1, <2>2 DEF MarksStamped
    <2>3. CASE processorPc = "cursor"
        <3>1. ~stamped
            BY <2>3 DEF MarksStamped
        <3> QED
            BY <1>3, <1>4, <2>1, <3>1 DEF MarksStamped
    <2>4. UNCHANGED <<processorPc, batch>> \/ processorPc = "cursor"
        <3>1. CASE g = "fetcher"
            BY <1>12, <3>1 DEF SendCursor, CursorStored, CursorFails, CursorCancelled,
                  Wrote, FetcherWrote, processorVars
        <3>2. CASE g # "fetcher"
            <4>1. AtCursor(g)
                BY <1>12 DEF SendCursor, CursorStored, CursorFails, CursorCancelled, TypeOK
            <4> QED
                BY <3>2, <4>1 DEF AtCursor
        <3> QED
            BY <3>1, <3>2
    <2> QED
        BY <2>2, <2>3, <2>4
<1>13. CASE Boot
    <2>1. /\ logsCursor' = BootCursor(dbCursor) /\ ~stamped'
        BY <1>13 DEF Boot
    <2>2. Stamped(logsCursor'.processed)
        <3>1. CASE dbCursor = NoRow
            BY <2>1, <3>1 DEF BootCursor, Stamped
        <3>2. CASE dbCursor # NoRow
            BY <2>1, <3>2 DEF BootCursor, MarksStamped, Rows
        <3> QED
            BY <3>1, <3>2
    <2> QED
        BY <1>2, <1>3, <2>1, <2>2 DEF MarksStamped
<1> QED
    BY <1>6, <1>7, <1>8, <1>9, <1>10, <1>11, <1>12, <1>13
       DEF Next, LogsProcessor, CursorWriter, Environment, Crash, Exit

-----------------------------------------------------------------------------
(* The theorems *)

\* A monitor that was just installed satisfies the invariant: its cursor is
\* before the first block that can hold a log.
LEMMA InitEstablishes == Init => IInv
<1> SUFFICES ASSUME Init PROVE IInv
    OBVIOUS
<1>1. StartBlock \in Nat \ {0} /\ \A l \in Logs : l.block \in Nat /\ l.block >= StartBlock
    BY BlockAssumption, QueryAssumption
<1>2. /\ logsCursor = [fetched |-> StartBlock - 1, processed |-> StartBlock - 1]
      /\ head = StartBlock - 1 /\ fromBlock = StartBlock
      /\ blocksRange = [from |-> StartBlock, to |-> StartBlock - 1]
    BY <1>1 DEF Init, BootCursor, Unprocessed
<1>3. Len(blocksRangeChan) = 0 /\ Len(logsChan) = 0
    BY DEF Init
<1>4. \A l \in Logs : ~(l.block <= StartBlock - 1) /\ ~(l.block <= 0)
    BY <1>1
<1>5. RangesContiguous
    BY <1>1, <1>2, <1>3 DEF RangesContiguous, Reached
<1>6. RangesConfirmed
    <2>1. fetcherPc = "load" /\ ~(fromBlock <= head)
        BY <1>1, <1>2 DEF Init
    <2> QED
        BY <2>1, <1>3 DEF RangesConfirmed
<1>7. FetchedRange
    <2>1. fetcherPc = "load" /\ logs = {}
        BY DEF Init
    <2> QED
        BY <2>1, <1>1, <1>2, <1>4 DEF FetchedRange, StoredUpTo
<1>8. RowsCovered
    BY DEF Init, RowsCovered, Rows, SentRows, NoWrites
<1>9. BatchesFormed
    BY <1>1, <1>2, <1>3 DEF Init, BatchesFormed, WellFormed, NoBatch
<1>10. Pipeline
    <2>1. batch.block = 0 /\ batch.logs = {} /\ batch = NoBatch
        BY DEF Init, NoBatch
    <2>2. BatchesOrdered
        BY <2>1, <1>3, <1>4 DEF BatchesOrdered
    <2>3. FetchedInPipeline
        BY <1>2, <1>4 DEF FetchedInPipeline
    <2>4. BatchHandled
        BY <2>1, <1>2, <1>4 DEF BatchHandled, HandledUpTo
    <2> QED
        BY <2>2, <2>3, <2>4 DEF Pipeline
<1>11. MarksStamped
    BY <1>2 DEF Init, MarksStamped, Stamped, Rows, SentRows, NoWrites
<1> QED
    BY <1>5, <1>6, <1>7, <1>8, <1>9, <1>10, <1>11 DEF IInv

\* The invariant holds whenever a fetch is complete: with FilterLogsSafe, or
\* when the confirmations cover the lag of the nodes.
THEOREM Invariance == ASSUME CompleteFetch PROVE Spec => [](TypeOK /\ IInv)
<1>1. Init => IInv
    BY InitEstablishes
<1>2. TypeOK /\ IInv /\ [Next]_vars => IInv'
    BY RangesContiguousStep, RangesConfirmedStep, FetchedRangeStep, RowsCoveredStep,
       BatchesFormedStep, PipelineStep, MarksStampedStep DEF IInv
<1> QED
    BY <1>1, <1>2, TypeCorrect, PTL DEF Spec

\* Every log up to the fetched block, in memory and in the stored row, is in
\* the database (recordFetchedBlockNumber after Logs.Ensure).
THEOREM FetchedStored == ASSUME CompleteFetch PROVE Spec => []FetchedAreStored
<1>1. IInv => FetchedAreStored
    BY DEF IInv, FetchedRange, RowsCovered, Covered, StoredUpTo, FetchedAreStored
<1> QED
    BY <1>1, Invariance, PTL

\* Every log up to the processed block, in the stored row and in the memory
\* of a process that is not cancelled, has been handled.
THEOREM ProcessedHandled == ASSUME CompleteFetch PROVE Spec => []ProcessedAreHandled
<1>1. IInv => ProcessedAreHandled
    BY DEF IInv, Pipeline, BatchHandled, RowsCovered, Covered, HandledUpTo, ProcessedAreHandled
<1> QED
    BY <1>1, Invariance, PTL

\* The database never refuses a cursor row for processed_before_fetched.
THEOREM ConstraintRespected == ASSUME CompleteFetch PROVE Spec => []ConstraintNeverRefuses
<1>1. IInv => ConstraintNeverRefuses
    BY DEF IInv, RowsCovered, Covered, ConstraintNeverRefuses
<1> QED
    BY <1>1, Invariance, PTL

\* A log that was fetched is handled, or on its way to its handler
\* (submitLogs, logsChan, processLogsBatch), until the context is cancelled.
THEOREM FetchedNotForgotten == ASSUME CompleteFetch PROVE Spec => []FetchedInPipeline
<1>1. IInv => FetchedInPipeline
    BY DEF IInv, Pipeline, FetchedInPipeline
<1> QED
    BY <1>1, Invariance, PTL

\* The stored processed block has a row in block_timestamps (wg.Wait for
\* tryToGetBlockTimestamp before recordProcessedBlockNumber), complete or not.
THEOREM ProcessedStamped == Spec => []ProcessedHasTimestamp
<1>1. Init => MarksStamped
    BY InitEstablishes DEF IInv
<1>2. TypeOK /\ MarksStamped /\ [Next]_vars => MarksStamped'
    BY MarksStampedStep
<1>3. MarksStamped => ProcessedHasTimestamp
    BY DEF MarksStamped, Stamped, ProcessedHasTimestamp
<1> QED
    BY <1>1, <1>2, <1>3, TypeCorrect, PTL DEF Spec

\* The log handled next is the first one of the contract that is not handled:
\* HandleLog follows the log index in the batch, the batches the block order.
LEMMA HandledInOrder ==
    ASSUME TypeOK, IInv, NEW l \in Logs, HandleLog(l)
    PROVE  \A k \in Logs : Idx!Precedes(k, l) => k \in handled
<1>1. ~ctxDone /\ l \in todo /\ l \in batch.logs
    BY DEF HandleLog, NextLog, TypeOK
<1>2. BatchesOrdered /\ batch.logs \subseteq handled \cup todo
    BY <1>1 DEF IInv, Pipeline, BatchHandled
<1>3. \A k \in batch.logs : k.block = batch.block
    BY DEF IInv, BatchesFormed, WellFormed
<1> SUFFICES ASSUME NEW k \in Logs, Idx!Precedes(k, l) PROVE k \in handled
    OBVIOUS
<1>4. /\ k.block \in Nat /\ k.index \in Nat
      /\ l.block \in Nat /\ l.index \in Nat
    BY QueryAssumption
<1>5. l.block = batch.block
    BY <1>1, <1>3
<1>6. k \in handled \cup batch.logs
    BY <1>2, <1>4, <1>5 DEF Idx!Precedes, BatchesOrdered
<1>7. CASE k \in batch.logs
    <2>1. k.index < l.index
        BY <1>3, <1>4, <1>5, <1>7 DEF Idx!Precedes
    <2>2. k \notin todo
        BY <1>4, <2>1 DEF HandleLog, NextLog
    <2> QED
        BY <1>2, <1>7, <2>2
<1> QED
    BY <1>6, <1>7

\* Whatever row a step leaves in logs_cursors, the mark a restart would
\* continue from covers only handled logs.
LEMMA MarkCovered ==
    ASSUME TypeOK', RowsCovered', handled' = handled
    PROVE  Idx!SetMark
<1> DEFINE mark == BootCursor(dbCursor).processed
<1>1. CASE dbCursor' = NoRow
    <2>1. mark' = StartBlock - 1
        BY <1>1 DEF BootCursor
    <2>2. \A l \in Logs : ~(l.block <= StartBlock - 1)
        BY BlockAssumption, QueryAssumption
    <2> QED
        BY <2>1, <2>2, BlockAssumption DEF Idx!SetMark
<1>2. CASE dbCursor' # NoRow
    <2>1. mark' = dbCursor'.processed /\ dbCursor' \in Cursor
        BY <1>2 DEF BootCursor, TypeOK
    <2>2. \A l \in Logs : l.block <= dbCursor'.processed => l \in handled'
        BY <1>2 DEF RowsCovered, Rows, Covered, HandledUpTo
    <2> QED
        BY <2>1, <2>2 DEF Idx!SetMark, Cursor
<1> QED
    BY <1>1, <1>2

\* The pipeline implements Indexer for every chain, block range size and
\* channel capacity: logs are handled in chain order and the stored
\* last_processed_block never covers a log that was not handled.
THEOREM Refinement == ASSUME CompleteFetch PROVE Spec => ImplementsIndexer
<1>1. Init => Idx!Init
    BY DEF Init, Idx!Init, BootCursor
<1>2. ASSUME TypeOK, IInv, TypeOK', IInv', [Next]_vars
      PROVE  [Idx!Next]_(Idx!vars)
    <2>1. CASE \E l \in Logs : HandleLog(l)
        <3>1. PICK l \in Logs : HandleLog(l)
            BY <2>1
        <3>2. handled' = handled \cup {l} /\ dbCursor' = dbCursor
            BY <3>1 DEF HandleLog
        <3>3. BootCursor(dbCursor).processed' = BootCursor(dbCursor).processed
            BY <3>2 DEF BootCursor
        <3>4. CASE l \in handled
            <4>1. handled' = handled
                BY <3>2, <3>4
            <4> QED
                BY <3>3, <4>1 DEF Idx!vars
        <3>5. CASE l \notin handled
            <4>1. Idx!Handle(l)
                BY <1>2, <3>1, <3>2, <3>3, <3>5, HandledInOrder DEF Idx!Handle
            <4> QED
                BY <4>1 DEF Idx!Next
        <3> QED
            BY <3>4, <3>5
    <2>2. CASE handled' = handled
        BY <1>2, <2>2, MarkCovered DEF IInv, Idx!Next
    <2>3. (\E l \in Logs : HandleLog(l)) \/ handled' = handled
        <3>1. BlockFetcher \/ LogsFetcher \/ CursorWriter \/ Environment \/ UNCHANGED vars
              => handled' = handled
            BY DEF BlockFetcher, PollHead, ScheduleRange, LogsFetcher, LoadUnprocessedLogs,
                   TakeRange, FetchLogs, SaveLogs, SaveLogsFails, RecordFetchedBlockNumber,
                   SubmitBatch, CursorWriter, SendCursor, CursorStored, CursorFails,
                   CursorCancelled, Environment, GrowChain, Cancel, Crash, Exit, Boot,
                   dbVars, vars
        <3>2. LogsProcessor => (\E l \in Logs : HandleLog(l)) \/ handled' = handled
            BY DEF LogsProcessor, TakeBatch, GetBlockTimestamp, HandleLogFails, AbandonBatch,
                   RecordProcessedBlockNumber, dbVars
        <3> QED
            BY <1>2, <3>1, <3>2 DEF Next
    <2> QED
        BY <2>1, <2>2, <2>3
<1> QED
    BY <1>1, <1>2, Invariance, PTL DEF Spec, ImplementsIndexer, Idx!Spec
=============================================================================
