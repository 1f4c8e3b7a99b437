-------------------------- MODULE LogBatchesProofs --------------------------
(***************************************************************************)
(* The logs of a fetched range are sorted and split into batches, one per  *)
(* block: none is left out or handled with another block, whatever a chain *)
(* has in the range and wherever the blocks of the tokens end.             *)
(***************************************************************************)
EXTENDS LogBatches, FilterQueriesProofs, FiniteSetTheorems

\* What submitLogs splits, and what it makes of it.
Entry == Log \cup {FakeLog}

Batch == [block: Nat, first: Nat, last: Nat]

\* The logs of the range, with the fake log at the end.
LogsFetched ==
    /\ range \in BatchType /\ range.to <= MaxHead /\ start <= range.from
    /\ present \subseteq {l \in ChainLogs : l.block \in range.from..range.to}
    /\ logs \in Seq(Entry) /\ logs # <<>> /\ logs[Len(logs)] = FakeLog
    /\ \A n \in 1..(Len(logs) - 1) :
         /\ logs[n].block \in range.from..range.to
         /\ logs[n].block <= logs[n + 1].block

\* The batches made so far have the logs before batchStart, and the logs from
\* there to i are of one block.
LoopVariables ==
    /\ i \in 1..(Len(logs) + 1) /\ batchStart \in 1..Len(logs)
    /\ (i = 1 /\ batchStart = 1) \/ batchStart < i
    /\ \A n \in batchStart..(i - 1) : logs[n].block = logs[batchStart].block

BatchesSoFar ==
    /\ logsBatches \in Seq(Batch)
    /\ \A n \in 1..(batchStart - 1) :
         \E k \in 1..Len(logsBatches) : n \in LogsIn(logsBatches[k])
    /\ \A k \in 1..Len(logsBatches) :
         /\ 1 <= logsBatches[k].first /\ logsBatches[k].first <= logsBatches[k].last
         /\ logsBatches[k].last < batchStart
         /\ logsBatches[k].block < logs[batchStart].block
         /\ \A n \in LogsIn(logsBatches[k]) : logs[n].block = logsBatches[k].block
    /\ \A k, l \in 1..Len(logsBatches) : k < l =>
         /\ logsBatches[k].last < logsBatches[l].first
         /\ logsBatches[k].block < logsBatches[l].block

BatchesInv ==
    /\ RangesInv
    /\ pc \in {"range", "split", "submitted"}
    /\ pc = "range" => i = 1 /\ batchStart = 1 /\ logsBatches = <<>>
    /\ pc # "range" => LogsFetched
    /\ pc = "split" => LoopVariables /\ BatchesSoFar
    /\ LogsOfSideOnce
    /\ EveryLogOnce
    /\ EndsWithRange

-----------------------------------------------------------------------------
(* What is fetched and sorted *)

\* The fake log is later than every block.
LEMMA FakeLogLast ==
    /\ FakeLog.block = MaxUint32 /\ FakeLog.block \in Nat /\ FakeLog.index \in Nat
    /\ MaxHead \in Nat /\ MaxHead < FakeLog.block
BY TokenConfigAssumption, BlockRangesAssumption DEF FakeLog

\* Every entry of logs has a position, the fake log as well.
LEMMA EntryTypes ==
    ASSUME NEW l \in Entry
    PROVE  l.block \in Nat /\ l.index \in Nat
BY FakeLogLast DEF Entry, Log

\* As many answers as logs are finitely many.
LEMMA FiniteAnswers ==
    ASSUME NEW chain \in SUBSET ChainLogs, NEW answers,
           \A a \in answers : a.log \in chain,
           \A a, b \in answers : a.log = b.log => a = b
    PROVE  IsFiniteSet(answers)
<1> DEFINE f == [a \in answers |-> a.log]
<1>1. IsFiniteSet(chain)
  BY LogBatchesAssumption, FS_Subset
<1>2. f \in Injection(answers, chain)
  BY DEF Injection, IsInjective
<1> QED
  BY <1>1, <1>2, FS_Injection

\* The logs of the answers, and the fake log.
AsLogs(s) == WithFakeLog([n \in DOMAIN s |-> s[n].log])

\* A sorted sequence of the answers has the log of every answer, no later log
\* directly before an earlier one, and no log more often than the answers.
LEMMA SortedAnswers ==
    ASSUME NEW answers, IsFiniteSet(answers), \A a \in answers : a.log \in Log,
           \A a, b \in answers : a.log = b.log => a = b,
           NEW s \in SortedLogs(answers), NEW ls, ls = AsLogs(s)
    PROVE  /\ ls \in Seq(Entry) /\ Len(ls) \in Nat \ {0} /\ ls[Len(ls)] = FakeLog
           /\ \A n \in 1..(Len(ls) - 1) : ls[n] \in LogsOf(answers)
           /\ \A l \in LogsOf(answers) : \E n \in 1..(Len(ls) - 1) : ls[n] = l
           /\ \A n \in 1..(Len(ls) - 2) : ~InChainOrder(ls[n + 1], ls[n])
           /\ \A m, n \in 1..(Len(ls) - 1) : ls[m] = ls[n] => m = n
<1> DEFINE k == Cardinality(answers)
           f == [n \in DOMAIN s |-> s[n].log]
<1>1. k \in Nat
  BY FS_CardinalityType
<1>2. /\ s \in [1..k -> answers]
      /\ \A m, n \in 1..k : m # n => s[m] # s[n]
      /\ \A n \in 1..(Len(s) - 1) : ~InChainOrder(s[n + 1].log, s[n].log)
  BY DEF SortedLogs, SetToSeqs
<1>3. s \in Surjection(1..k, answers)
  <2>1. IsFiniteSet(1..k) /\ Cardinality(1..k) = k
    BY <1>1, FS_Interval
  <2>2. s \in Injection(1..k, answers)
    BY <1>2 DEF Injection, IsInjective
  <2> QED
    BY <2>1, <2>2, FS_Injection
<1>4. Len(s) = k /\ DOMAIN s = 1..k
  BY <1>1, <1>2
<1>5. f \in [1..k -> Entry] /\ \A n \in 1..k : f[n] = s[n].log
  BY <1>2, <1>4 DEF Entry
<1> HIDE DEF f, k
<1>6. f \in Seq(Entry) /\ Len(f) = k
  BY <1>1, <1>5
<1>7. /\ ls \in Seq(Entry) /\ Len(ls) = k + 1 /\ ls[k + 1] = FakeLog
      /\ \A n \in 1..k : ls[n] = s[n].log
  BY <1>1, <1>5, <1>6 DEF AsLogs, WithFakeLog, f, Entry
<1>8. \A n \in 1..k : s[n] \in answers /\ ls[n] \in LogsOf(answers)
  BY <1>2, <1>7 DEF LogsOf
<1>9. ASSUME NEW l \in LogsOf(answers)
      PROVE  \E n \in 1..k : ls[n] = l
  <2>1. PICK a \in answers : l = a.log
    BY DEF LogsOf
  <2>2. PICK n \in 1..k : s[n] = a
    BY <1>3 DEF Surjection
  <2> QED
    BY <1>7, <2>1, <2>2
<1>10. \A n \in 1..(k - 1) : ~InChainOrder(ls[n + 1], ls[n])
  <2>1. \A n \in 1..(k - 1) : n \in 1..k /\ n + 1 \in 1..k
    BY <1>1
  <2> QED
    BY <1>2, <1>4, <1>7, <2>1
<1>11. \A m, n \in 1..k : ls[m] = ls[n] => m = n
  BY <1>2, <1>7, <1>8
<1>12. /\ Len(ls) \in Nat \ {0} /\ ls[Len(ls)] = FakeLog
       /\ Len(ls) - 1 = k /\ Len(ls) - 2 = k - 1
  BY <1>1, <1>7
<1> QED
  BY <1>7, <1>8, <1>9, <1>10, <1>11, <1>12

\* Sorted logs of different positions are in chain order.
LEMMA InOrder ==
    ASSUME NEW k \in ChainLogs, NEW l \in ChainLogs, k # l, ~InChainOrder(l, k)
    PROVE  InChainOrder(k, l)
<1>1. k \in Log /\ l \in Log /\ ~(k.block = l.block /\ k.index = l.index)
  BY ChainLogsAssumption
<1> QED
  BY <1>1 DEF Log, InChainOrder

\* What submitLogs is given is sorted, with the fake log behind it, whether it
\* was fetched or loaded.
LEMMA SubmitStep ==
    ASSUME BatchesInv, pc = "range",
           NEW r \in BatchType, r.to <= MaxHead, start <= r.from,
           NEW chain, chain \subseteq {l \in ChainLogs : l.block \in r.from..r.to},
           NEW answers, \A a \in answers : a.log \in chain,
           \A a, b \in answers : a.log = b.log => a = b,
           StartBlock <= start => LogsOf(answers) = LogsOfSide(chain, r),
           Submit(r, chain, answers)
    PROVE  BatchesInv'
<1>1. /\ range' = r /\ present' = chain /\ pc' = "split"
      /\ UNCHANGED <<vars, i, batchStart, logsBatches>>
      /\ i = 1 /\ batchStart = 1 /\ logsBatches = <<>>
  BY DEF Submit, BatchesInv
<1>2. PICK s \in SortedLogs(answers) : logs' = AsLogs(s)
  BY DEF Submit, AsLogs
<1>3. /\ IsFiniteSet(answers) /\ \A a \in answers : a.log \in Log
      /\ chain \subseteq ChainLogs
  <2>1. chain \in SUBSET ChainLogs
    OBVIOUS
  <2> QED
    BY <2>1, FiniteAnswers, ChainLogsAssumption
<1>4. /\ logs' \in Seq(Entry) /\ Len(logs') \in Nat \ {0} /\ logs'[Len(logs')] = FakeLog
      /\ \A n \in 1..(Len(logs') - 1) : logs'[n] \in LogsOf(answers)
      /\ \A l \in LogsOf(answers) : \E n \in 1..(Len(logs') - 1) : logs'[n] = l
      /\ \A n \in 1..(Len(logs') - 2) : ~InChainOrder(logs'[n + 1], logs'[n])
      /\ \A m, n \in 1..(Len(logs') - 1) : logs'[m] = logs'[n] => m = n
  BY <1>2, <1>3, SortedAnswers
<1>5. ASSUME NEW n \in 1..(Len(logs') - 1)
      PROVE  /\ logs'[n] \in chain /\ logs'[n] \in Log
             /\ logs'[n].block \in r.from..r.to /\ logs'[n].block < FakeLog.block
  <2>1. logs'[n] \in chain
    BY <1>4 DEF LogsOf
  <2>2. logs'[n] \in Log /\ logs'[n].block \in r.from..r.to
    BY <2>1, ChainLogsAssumption
  <2> QED
    BY <2>1, <2>2, FakeLogLast DEF Log, BatchType
<1>6. ASSUME NEW n \in 1..(Len(logs') - 1)
      PROVE  InChainOrder(logs'[n], logs'[n + 1])
  <2>1. CASE n = Len(logs') - 1
    <3>1. logs'[n + 1] = FakeLog
      BY <1>4, <2>1
    <3> QED
      BY <1>5, <3>1 DEF InChainOrder
  <2>2. CASE n # Len(logs') - 1
    <3>1. n \in 1..(Len(logs') - 2) /\ n + 1 \in 1..(Len(logs') - 1) /\ n # n + 1
      BY <1>4, <2>2
    <3>2. logs'[n] \in ChainLogs /\ logs'[n + 1] \in ChainLogs /\ logs'[n] # logs'[n + 1]
      BY <1>3, <1>4, <1>5, <3>1
    <3> QED
      BY <1>4, <3>1, <3>2, InOrder
  <2> QED
    BY <2>1, <2>2
<1>7. LogsFetched'
  <2>1. ASSUME NEW n \in 1..(Len(logs') - 1)
        PROVE  logs'[n].block <= logs'[n + 1].block
    <3>1. logs'[n] \in Entry /\ logs'[n + 1] \in Entry
      BY <1>4
    <3>2. logs'[n].block \in Nat /\ logs'[n + 1].block \in Nat
      BY <3>1, EntryTypes
    <3>3. InChainOrder(logs'[n], logs'[n + 1])
      BY <1>6
    <3> QED
      BY <3>2, <3>3 DEF InChainOrder
  <2>2. logs' # <<>>
    BY <1>4
  <2> QED
    BY <1>1, <1>4, <1>5, <2>1, <2>2 DEF LogsFetched, vars
<1>8. LoopVariables' /\ BatchesSoFar'
  BY <1>1, <1>4 DEF LoopVariables, BatchesSoFar
<1>9. LogsOfSideOnce'
  <2> SUFFICES ASSUME StartBlock <= start
               PROVE  ToSet(logs') \ {FakeLog} = LogsOfSide(chain, r)
    BY <1>1, <1>6 DEF LogsOfSideOnce, vars
  <2>1. LogsOf(answers) = LogsOfSide(chain, r)
    OBVIOUS
  <2>2. DOMAIN logs' = 1..Len(logs')
    BY <1>4
  <2>3. \A n \in 1..Len(logs') : n \in 1..(Len(logs') - 1) \/ logs'[n] = FakeLog
    BY <1>4
  <2>4. \A n \in 1..(Len(logs') - 1) : n \in 1..Len(logs') /\ logs'[n] # FakeLog
    <3>1. ASSUME NEW n \in 1..(Len(logs') - 1)
          PROVE  n \in 1..Len(logs') /\ logs'[n] # FakeLog
      BY <1>4, <1>5, FakeLogLast
    <3> QED
      BY <3>1
  <2>5. ASSUME NEW l \in ToSet(logs') \ {FakeLog}
        PROVE  l \in LogsOf(answers)
    BY <1>4, <2>2, <2>3 DEF ToSet
  <2>6. ASSUME NEW l \in LogsOf(answers)
        PROVE  l \in ToSet(logs') \ {FakeLog}
    BY <1>4, <2>2, <2>4 DEF ToSet
  <2> QED
    BY <2>1, <2>5, <2>6
<1> QED
  <2>1. RangesInv'
    BY <1>1 DEF BatchesInv, RangesInv, LoopInv, Partition, vars
  <2> QED
    BY <1>1, <1>7, <1>8, <1>9, <2>1 DEF BatchesInv, EveryLogOnce, EndsWithRange

\* A scheduled range.
LEMMA ScheduledRange ==
    ASSUME RangesInv, NEW n \in 1..Len(batches)
    PROVE  /\ batches[n] \in BatchType /\ start <= batches[n].from
           /\ batches[n].to <= MaxHead
           /\ StartBlock <= start => RangeOfSide(batches[n])
<1>1. /\ batches \in Seq(BatchType) /\ start \in Nat /\ toBlock \in Nat /\ MaxHead \in Nat
      /\ toBlock <= MaxHead /\ MaxHead < MaxUint32 /\ StartBlock \in Nat /\ MaxUint32 \in Nat
  BY TokenConfigAssumption, BlockRangesAssumption DEF RangesInv, LoopInv
<1>2. /\ batches[n] \in BatchType /\ start <= batches[n].from /\ batches[n].to <= toBlock
  BY <1>1 DEF RangesInv, LoopInv, Partition
<1> QED
  BY <1>1, <1>2 DEF BatchType, RangeOfSide

\* The answers to the queries of a scheduled range are submitted.
LEMMA FetchRangeStep == BatchesInv /\ FetchRange => BatchesInv'
<1> SUFFICES ASSUME BatchesInv, FetchRange PROVE BatchesInv'
  OBVIOUS
<1>0. PICK n \in 1..Len(batches) : \E chain \in ChainIn(batches[n].from, batches[n].to) :
        Submit(batches[n], chain, FetchedLogs(chain, batches[n]))
  <2>1. batches \in Seq(BatchType)
    BY DEF BatchesInv, RangesInv, LoopInv
  <2>2. PICK r \in ToSet(batches) : \E chain \in ChainIn(r.from, r.to) :
          Submit(r, chain, FetchedLogs(chain, r))
    BY DEF FetchRange
  <2>3. PICK n \in 1..Len(batches) : r = batches[n]
    BY <2>1 DEF ToSet
  <2> QED
    BY <2>2, <2>3
<1>1. PICK chain \in ChainIn(batches[n].from, batches[n].to) :
        Submit(batches[n], chain, FetchedLogs(chain, batches[n]))
  BY <1>0
<1> DEFINE r == batches[n]
<1>2. /\ r \in BatchType /\ start <= r.from /\ r.to <= MaxHead
      /\ StartBlock <= start => RangeOfSide(r)
  BY ScheduledRange DEF BatchesInv
<1>3. chain \subseteq {l \in ChainLogs : l.block \in r.from..r.to}
  BY DEF ChainIn, kSubset
<1>4. chain \in SUBSET ChainLogs
  BY <1>3
<1>5. \A a \in FetchedLogs(chain, r) : a.log \in chain
  BY DEF FetchedLogs
<1>6. \A a, b \in FetchedLogs(chain, r) : a.log = b.log => a = b
  BY <1>2, <1>4, FetchedOnce
<1>7. StartBlock <= start => LogsOf(FetchedLogs(chain, r)) = LogsOfSide(chain, r)
  BY <1>2, <1>4, FetchedAreOfSide
<1>8. pc = "range"
  BY DEF FetchRange
<1> QED
  BY <1>1, <1>2, <1>3, <1>5, <1>6, <1>7, <1>8, SubmitStep

\* The logs of two consecutive ranges are those of the blocks of both.
LEMMA SideOfRanges ==
    ASSUME NEW chain \in SUBSET ChainLogs, NEW r1 \in BatchType, NEW r2 \in BatchType,
           r1.from <= r1.to, r2.from = r1.to + 1, r2.from <= r2.to
    PROVE  LogsOfSide(chain, r1) \cup LogsOfSide(chain, r2)
             = LogsOfSide(chain, [from |-> r1.from, to |-> r2.to])
<1>1. \A l \in chain : l.block \in Nat
  BY ChainLogsAssumption DEF Log
<1>2. \A b \in Nat : b \in r1.from..r1.to \/ b \in r2.from..r2.to <=> b \in r1.from..r2.to
  BY DEF BatchType
<1> QED
  BY <1>1, <1>2 DEF LogsOfSide

\* Logs that were read from the table, as answers.
Rows(stored) == {[log |-> l] : l \in stored}

\* Each of these answers has a log of its own.
LEMMA RowsHaveLogs ==
    ASSUME NEW stored
    PROVE  /\ LogsOf(Rows(stored)) = stored
           /\ \A a \in Rows(stored) : a.log \in stored
           /\ \A a, b \in Rows(stored) : a.log = b.log => a = b
<1>1. ASSUME NEW a \in Rows(stored)
      PROVE  a.log \in stored /\ a = [log |-> a.log]
  <2>1. PICK l \in stored : a = [log |-> l]
    BY DEF Rows
  <2> QED
    BY <2>1
<1>2. ASSUME NEW l \in stored
      PROVE  \E a \in Rows(stored) : a.log = l
  <2>1. [log |-> l] \in Rows(stored) /\ [log |-> l].log = l
    BY DEF Rows
  <2> QED
    BY <2>1
<1>3. LogsOf(Rows(stored)) = stored
  BY <1>1, <1>2 DEF LogsOf
<1>4. ASSUME NEW a \in Rows(stored), NEW b \in Rows(stored), a.log = b.log
      PROVE  a = b
  <2>1. a = [log |-> a.log] /\ b = [log |-> b.log]
    BY <1>1
  <2> QED
    BY <1>4, <2>1
<1> QED
  BY <1>1, <1>3, <1>4

\* After a restart, the logs of two ranges are submitted as one.
LEMMA LoadUnprocessedLogsStep == BatchesInv /\ LoadUnprocessedLogs => BatchesInv'
<1> SUFFICES ASSUME BatchesInv, LoadUnprocessedLogs PROVE BatchesInv'
  OBVIOUS
<1> DEFINE Range2(m) == [from |-> batches[m].from, to |-> batches[m + 1].to]
           Fetched2(m, c) == {a.log : a \in FetchedLogs(c, batches[m])
                                         \cup FetchedLogs(c, batches[m + 1])}
           Others(m, c) == {l \in c : l.address \notin ContractAddresses(Range2(m))}
           Stored(m, c) == StoredLogs(Fetched2(m, c) \cup Others(m, c), Range2(m))
<1>0. PICK n \in 1..(Len(batches) - 1) : \E chain \in ChainIn(Range2(n).from, Range2(n).to) :
        Submit(Range2(n), chain, Rows(Stored(n, chain)))
  BY DEF LoadUnprocessedLogs, Rows
<1>1. PICK chain \in ChainIn(Range2(n).from, Range2(n).to) :
        Submit(Range2(n), chain, Rows(Stored(n, chain)))
  BY <1>0
<1>2. pc = "range" /\ RangesInv
  BY DEF LoadUnprocessedLogs, BatchesInv
<1> DEFINE r1 == batches[n]
           r2 == batches[n + 1]
           r == Range2(n)
<1>3. /\ n \in 1..Len(batches) /\ n + 1 \in 1..Len(batches)
  BY <1>2 DEF RangesInv, LoopInv
<1>4. /\ r1 \in BatchType /\ start <= r1.from
      /\ r2 \in BatchType /\ r2.to <= MaxHead
      /\ StartBlock <= start => RangeOfSide(r1) /\ RangeOfSide(r2)
  BY <1>2, <1>3, ScheduledRange
<1>5. r1.from <= r1.to /\ r2.from = r1.to + 1 /\ r2.from <= r2.to
  BY <1>2, <1>3 DEF RangesInv, LoopInv, Partition
<1>6. /\ r \in BatchType /\ r.to <= MaxHead /\ start <= r.from
      /\ StartBlock <= start => RangeOfSide(r)
      /\ r = [from |-> r1.from, to |-> r2.to]
  BY <1>4 DEF BatchType, RangeOfSide
<1>7. chain \subseteq {l \in ChainLogs : l.block \in r.from..r.to}
  BY DEF ChainIn, kSubset
<1>8. chain \in SUBSET ChainLogs /\ Others(n, chain) \in SUBSET ChainLogs
  BY <1>7
<1>9. Stored(n, chain) \subseteq chain
  <2>1. Fetched2(n, chain) \cup Others(n, chain) \subseteq chain
    BY DEF FetchedLogs
  <2> QED
    BY <2>1 DEF StoredLogs
<1>10. /\ \A a \in Rows(Stored(n, chain)) : a.log \in chain
       /\ \A a, b \in Rows(Stored(n, chain)) : a.log = b.log => a = b
  BY <1>9, RowsHaveLogs
<1>11. ASSUME StartBlock <= start
       PROVE  LogsOf(Rows(Stored(n, chain))) = LogsOfSide(chain, r)
  <2>1. Fetched2(n, chain) = LogsOf(FetchedLogs(chain, r1)) \cup LogsOf(FetchedLogs(chain, r2))
    BY DEF LogsOf
  <2>2. Fetched2(n, chain) = LogsOfSide(chain, r)
    BY <1>4, <1>5, <1>6, <1>8, <1>11, <2>1, FetchedAreOfSide, SideOfRanges
  <2>3. \A l \in Others(n, chain) : l.address \notin ContractAddresses(r)
    OBVIOUS
  <2>4. StoredLogs(LogsOfSide(chain, r) \cup Others(n, chain), r) = LogsOfSide(chain, r)
    <3> HIDE DEF Others, r
    <3> QED
      BY <1>6, <1>8, <1>11, <2>3, LoadedAreOfSide
  <2>5. Stored(n, chain) = LogsOfSide(chain, r)
    BY <2>2, <2>4
  <2> HIDE DEF Stored, r
  <2> QED
    BY <2>5, RowsHaveLogs
<1> QED
  BY <1>1, <1>2, <1>6, <1>7, <1>10, <1>11, SubmitStep

-----------------------------------------------------------------------------
(* The loop of SplitLogsInBatches *)

\* Blocks do not decrease, so the first log that is not of the block of a batch
\* is of a later one.
LEMMA SplitLogStep == BatchesInv /\ SplitLog => BatchesInv'
<1> SUFFICES ASSUME BatchesInv, SplitLog PROVE BatchesInv'
  OBVIOUS
<1> DEFINE L == Len(logs)
           K == Len(logsBatches)
           e == [block |-> logs[batchStart].block, first |-> batchStart, last |-> i - 1]
<1>1. /\ pc = "split" /\ pc' = "split" /\ i <= L /\ i' = i + 1
      /\ UNCHANGED <<vars, logs, present, range>>
      /\ RangesInv /\ LogsFetched /\ LoopVariables /\ BatchesSoFar /\ LogsOfSideOnce
  BY DEF SplitLog, BatchesInv
<1>2. RangesInv' /\ LogsFetched' /\ LogsOfSideOnce'
  BY <1>1 DEF RangesInv, LoopInv, Partition, LogsFetched, LogsOfSideOnce, vars
<1>3. /\ logs \in Seq(Entry) /\ L \in Nat \ {0} /\ i \in 1..L /\ batchStart \in 1..L
      /\ (i = 1 /\ batchStart = 1) \/ batchStart < i
      /\ \A n \in 1..L : logs[n].block \in Nat
  <2>1. logs \in Seq(Entry) /\ logs # <<>>
    BY <1>1 DEF LogsFetched
  <2>2. L \in Nat \ {0}
    BY <2>1
  <2>3. \A n \in 1..L : logs[n].block \in Nat
    <3>1. ASSUME NEW n \in 1..L PROVE logs[n].block \in Nat
      BY <2>1, EntryTypes
    <3> QED
      BY <3>1
  <2> QED
    BY <1>1, <2>1, <2>2, <2>3 DEF LoopVariables
<1>4. batchStart < i => logs[batchStart].block <= logs[i].block
  <2>1. SUFFICES ASSUME batchStart < i PROVE logs[batchStart].block <= logs[i].block
    OBVIOUS
  <2>2. i - 1 \in 1..(L - 1) /\ i - 1 \in batchStart..(i - 1) /\ (i - 1) + 1 = i
    BY <1>3, <2>1
  <2>3. logs[i - 1].block <= logs[i].block
    BY <1>1, <2>2 DEF LogsFetched
  <2>4. logs[i - 1].block = logs[batchStart].block
    BY <1>1, <2>2 DEF LoopVariables
  <2> QED
    BY <2>3, <2>4
<1>5. CASE ~LaterBlock(logs[i], logs[batchStart])
  <2>1. UNCHANGED <<logsBatches, batchStart>>
    BY <1>5 DEF SplitLog
  <2>2. logs[i].block = logs[batchStart].block
    BY <1>3, <1>4, <1>5 DEF LaterBlock
  <2>3. LoopVariables'
    BY <1>1, <1>3, <2>1, <2>2 DEF LoopVariables
  <2>4. BatchesSoFar'
    BY <1>1, <2>1 DEF BatchesSoFar
  <2> QED
    BY <1>1, <1>2, <2>3, <2>4 DEF BatchesInv, EveryLogOnce, EndsWithRange
<1>6. CASE LaterBlock(logs[i], logs[batchStart])
  <2>1. logsBatches' = Append(logsBatches, e) /\ batchStart' = i
    BY <1>6 DEF SplitLog
  <2>2. batchStart < i /\ logs[batchStart].block < logs[i].block
    BY <1>3, <1>6 DEF LaterBlock
  <2>3. LoopVariables'
    BY <1>1, <1>3, <2>1 DEF LoopVariables
  <2>4. /\ e \in Batch /\ e.block = logs[batchStart].block
        /\ e.first = batchStart /\ e.last = i - 1
        /\ \A n \in LogsIn(e) : logs[n].block = e.block
    BY <1>1, <1>3 DEF Batch, LogsIn, LoopVariables
  <2> HIDE DEF e
  <2>5. /\ logsBatches \in Seq(Batch) /\ K \in Nat
        /\ logsBatches' \in Seq(Batch) /\ Len(logsBatches') = K + 1
        /\ logsBatches'[K + 1] = e
        /\ \A k \in 1..K : logsBatches'[k] = logsBatches[k] /\ logsBatches[k] \in Batch
    BY <1>1, <2>1, <2>4 DEF BatchesSoFar
  <2>6. ASSUME NEW n \in 1..(i - 1)
        PROVE  \E k \in 1..(K + 1) : n \in LogsIn(logsBatches'[k])
    <3>1. CASE n < batchStart
      <4>1. n \in 1..(batchStart - 1)
        BY <1>3, <3>1
      <4>2. PICK k \in 1..K : n \in LogsIn(logsBatches[k])
        BY <1>1, <4>1 DEF BatchesSoFar
      <4> QED
        BY <2>5, <4>2
    <3>2. CASE ~(n < batchStart)
      <4>1. n \in LogsIn(e)
        BY <1>3, <2>4, <3>2 DEF LogsIn
      <4> QED
        BY <2>5, <4>1
    <3> QED
      BY <3>1, <3>2
  <2>7. ASSUME NEW k \in 1..(K + 1)
        PROVE  /\ 1 <= logsBatches'[k].first
               /\ logsBatches'[k].first <= logsBatches'[k].last
               /\ logsBatches'[k].last < i
               /\ logsBatches'[k].block < logs[i].block
               /\ \A n \in LogsIn(logsBatches'[k]) : logs[n].block = logsBatches'[k].block
    <3>1. CASE k = K + 1
      <4>1. logsBatches'[k] = e
        BY <2>5, <3>1
      <4> QED
        BY <1>3, <2>2, <2>4, <4>1
    <3>2. CASE k # K + 1
      <4>1. k \in 1..K /\ logsBatches'[k] = logsBatches[k] /\ logsBatches[k] \in Batch
        BY <2>5, <3>2
      <4>2. /\ 1 <= logsBatches[k].first
            /\ logsBatches[k].first <= logsBatches[k].last
            /\ logsBatches[k].last < batchStart
            /\ logsBatches[k].block < logs[batchStart].block
            /\ \A n \in LogsIn(logsBatches[k]) : logs[n].block = logsBatches[k].block
        BY <1>1, <4>1 DEF BatchesSoFar
      <4>3. logsBatches[k].last < i /\ logsBatches[k].block < logs[i].block
        BY <1>3, <2>2, <4>1, <4>2 DEF Batch
      <4> QED
        BY <4>1, <4>2, <4>3
    <3> QED
      BY <3>1, <3>2
  <2>8. ASSUME NEW k \in 1..(K + 1), NEW l \in 1..(K + 1), k < l
        PROVE  /\ logsBatches'[k].last < logsBatches'[l].first
               /\ logsBatches'[k].block < logsBatches'[l].block
    <3>1. k \in 1..K /\ logsBatches'[k] = logsBatches[k]
      BY <2>5, <2>8
    <3>2. CASE l = K + 1
      BY <1>1, <2>4, <2>5, <3>1, <3>2 DEF BatchesSoFar
    <3>3. CASE l # K + 1
      <4>1. l \in 1..K /\ logsBatches'[l] = logsBatches[l]
        BY <2>5, <3>3
      <4> QED
        BY <1>1, <2>8, <3>1, <4>1 DEF BatchesSoFar
    <3> QED
      BY <3>2, <3>3
  <2>9. BatchesSoFar'
    BY <1>1, <2>1, <2>5, <2>6, <2>7, <2>8 DEF BatchesSoFar
  <2> QED
    BY <1>1, <1>2, <2>3, <2>9 DEF BatchesInv, EveryLogOnce, EndsWithRange
<1> QED
  BY <1>5, <1>6

\* The loop has closed every batch when it has come to the end, since the fake
\* log is of a later block; the batches may still end before the range.
LEMMA EndRangeStep == BatchesInv /\ EndRange => BatchesInv'
<1> SUFFICES ASSUME BatchesInv, EndRange PROVE BatchesInv'
  OBVIOUS
<1> DEFINE L == Len(logs)
           K == Len(logsBatches)
           e == [block |-> range.to, first |-> 1, last |-> 0]
<1>1. /\ pc = "split" /\ pc' = "submitted" /\ i > L
      /\ UNCHANGED <<vars, logs, present, range, i, batchStart>>
      /\ RangesInv /\ LogsFetched /\ LoopVariables /\ BatchesSoFar /\ LogsOfSideOnce
      /\ logsBatches' = IF EndMissing(logsBatches) THEN Append(logsBatches, e) ELSE logsBatches
  BY DEF EndRange, BatchesInv
<1>2. RangesInv' /\ LogsFetched' /\ LogsOfSideOnce'
  BY <1>1 DEF RangesInv, LoopInv, Partition, LogsFetched, LogsOfSideOnce, vars
<1>3. L \in Nat \ {0} /\ range \in BatchType /\ range.to \in Nat /\ range.to <= MaxHead
  BY <1>1 DEF LogsFetched, BatchType
<1>4. batchStart = L
  <2>1. i = L + 1 /\ batchStart \in 1..L /\ L \in batchStart..(i - 1)
    BY <1>1, <1>3 DEF LoopVariables
  <2>2. logs[L].block = logs[batchStart].block /\ logs[L] = FakeLog
    BY <1>1, <2>1 DEF LoopVariables, LogsFetched
  <2>3. SUFFICES ASSUME batchStart \in 1..(L - 1) PROVE FALSE
    BY <1>3, <2>1
  <2>4. logs[batchStart].block \in range.from..range.to
    BY <1>1, <2>3 DEF LogsFetched
  <2> QED
    BY <1>3, <2>2, <2>4, FakeLogLast DEF BatchType
<1>5. /\ logsBatches \in Seq(Batch) /\ K \in Nat
      /\ \A n \in 1..(L - 1) : \E k \in 1..K : n \in LogsIn(logsBatches[k])
      /\ \A k, l \in 1..K : k < l =>
           /\ logsBatches[k].last < logsBatches[l].first
           /\ logsBatches[k].block < logsBatches[l].block
  BY <1>1, <1>4 DEF BatchesSoFar
<1>6. ASSUME NEW k \in 1..K
      PROVE  /\ logsBatches[k] \in Batch
             /\ \A n \in LogsIn(logsBatches[k]) :
                  n \in 1..(L - 1) /\ logs[n].block = logsBatches[k].block
             /\ logsBatches[k].block <= range.to
  <2>1. /\ logsBatches[k] \in Batch /\ 1 <= logsBatches[k].first
        /\ logsBatches[k].first <= logsBatches[k].last /\ logsBatches[k].last < L
        /\ \A n \in LogsIn(logsBatches[k]) : logs[n].block = logsBatches[k].block
    BY <1>1, <1>4, <1>5 DEF BatchesSoFar
  <2>2. \A n \in LogsIn(logsBatches[k]) : n \in 1..(L - 1)
    BY <1>3, <2>1 DEF LogsIn, Batch
  <2>3. logsBatches[k].first \in LogsIn(logsBatches[k])
    BY <2>1 DEF LogsIn, Batch
  <2>4. logsBatches[k].block \in range.from..range.to
    BY <1>1, <2>1, <2>2, <2>3 DEF LogsFetched
  <2> QED
    BY <1>3, <2>1, <2>2, <2>4 DEF BatchType
<1>7. ASSUME NEW k \in 1..K, NEW l \in 1..K, k < l,
             NEW m \in LogsIn(logsBatches[k]), NEW n \in LogsIn(logsBatches[l])
      PROVE  m < n
  <2>1. logsBatches[k] \in Batch /\ logsBatches[l] \in Batch
    BY <1>6
  <2>2. logsBatches[k].last < logsBatches[l].first
    BY <1>5, <1>7
  <2> QED
    BY <1>7, <2>1, <2>2 DEF LogsIn, Batch
<1>8. CASE ~EndMissing(logsBatches)
  <2>1. logsBatches' = logsBatches
    BY <1>1, <1>8
  <2>2. logsBatches # <<>> /\ K \in 1..K /\ ~(logsBatches[K].block < range.to)
    BY <1>5, <1>8 DEF EndMissing
  <2>3. logsBatches[K].block = range.to
    BY <1>3, <1>6, <2>2 DEF Batch
  <2>4. \A k \in 1..(K - 1) : logsBatches[k].block < logsBatches[k + 1].block
    BY <1>5
  <2>5. EveryLogOnce'
    BY <1>1, <1>5, <1>6, <1>7, <2>1 DEF EveryLogOnce
  <2>6. EndsWithRange'
    BY <1>1, <2>1, <2>2, <2>3, <2>4 DEF EndsWithRange
  <2> QED
    BY <1>1, <1>2, <2>5, <2>6 DEF BatchesInv
<1>9. CASE EndMissing(logsBatches)
  <2>1. e \in Batch /\ e.block = range.to /\ LogsIn(e) = {}
    BY <1>3 DEF Batch, LogsIn
  <2>2. logsBatches' = Append(logsBatches, e)
    BY <1>1, <1>9
  <2> HIDE DEF e
  <2>3. /\ logsBatches' \in Seq(Batch) /\ Len(logsBatches') = K + 1 /\ logsBatches' # <<>>
        /\ logsBatches'[K + 1] = e
        /\ \A k \in 1..K : logsBatches'[k] = logsBatches[k]
    BY <1>5, <2>1, <2>2
  <2>4. \A k \in 1..(K + 1) : k \in 1..K \/ k = K + 1
    BY <1>5
  <2>5. EveryLogOnce'
    <3>1. \A n \in 1..(L - 1) : \E k \in 1..(K + 1) : n \in LogsIn(logsBatches'[k])
      <4>1. ASSUME NEW n \in 1..(L - 1)
            PROVE  \E k \in 1..(K + 1) : n \in LogsIn(logsBatches'[k])
        <5>1. PICK k \in 1..K : n \in LogsIn(logsBatches[k])
          BY <1>5
        <5> QED
          BY <1>5, <2>3, <5>1
      <4> QED
        BY <4>1
    <3>2. ASSUME NEW k \in 1..(K + 1), NEW n \in LogsIn(logsBatches'[k])
          PROVE  /\ k \in 1..K /\ n \in LogsIn(logsBatches[k])
                 /\ n \in 1..(L - 1) /\ logs[n].block = logsBatches'[k].block
      <4>1. k \in 1..K
        BY <2>1, <2>3, <2>4
      <4> QED
        BY <1>6, <2>3, <4>1
    <3>3. ASSUME NEW k \in 1..(K + 1), NEW l \in 1..(K + 1), k < l,
                 NEW m \in LogsIn(logsBatches'[k]), NEW n \in LogsIn(logsBatches'[l])
          PROVE  m < n
      BY <1>7, <3>2, <3>3
    <3> QED
      BY <1>1, <2>3, <3>1, <3>2, <3>3 DEF EveryLogOnce
  <2>6. ASSUME NEW k \in 1..K
        PROVE  logsBatches'[k].block < logsBatches'[k + 1].block
    <3>1. CASE k = K
      <4>1. logsBatches[K].block < range.to
        BY <1>5, <1>9, <3>1 DEF EndMissing
      <4> QED
        BY <2>1, <2>3, <3>1, <4>1
    <3>2. CASE k # K
      <4>1. k \in 1..K /\ k + 1 \in 1..K /\ k < k + 1
        BY <1>5, <3>2
      <4> QED
        BY <1>5, <2>3, <4>1
    <3> QED
      BY <3>1, <3>2
  <2>7. EndsWithRange'
    BY <1>1, <1>5, <2>1, <2>3, <2>6 DEF EndsWithRange
  <2> QED
    BY <1>1, <1>2, <2>5, <2>7 DEF BatchesInv
<1> QED
  BY <1>8, <1>9

-----------------------------------------------------------------------------
(* The theorems *)

\* At first nothing is scheduled or fetched.
LEMMA InitBatches == NoWrap /\ RangeInit => BatchesInv
BY RangesStart DEF RangeInit, BatchesInv, LogsOfSideOnce, EveryLogOnce, EndsWithRange

\* Every step, those of the block fetcher included, keeps the invariant.
LEMMA NextBatches == NoWrap /\ BatchesInv /\ [RangeNext]_<<vars, logsVars>> => BatchesInv'
<1> SUFFICES ASSUME NoWrap, BatchesInv, [RangeNext]_<<vars, logsVars>> PROVE BatchesInv'
  OBVIOUS
<1>1. CASE SplitRanges
  <2>1. RangesInv'
    BY <1>1, RangesStep DEF SplitRanges, BatchesInv, Next
  <2> QED
    BY <1>1, <2>1 DEF SplitRanges, logsVars, BatchesInv, LogsOfSideOnce, EveryLogOnce,
                      EndsWithRange
<1>2. CASE UNCHANGED <<vars, logsVars>>
  BY <1>2 DEF vars, logsVars, BatchesInv, RangesInv, LoopInv, Partition, LogsFetched,
              LoopVariables, BatchesSoFar, LogsOfSideOnce, EveryLogOnce, EndsWithRange
<1>3. CASE SubmitReturns
  BY <1>2, <1>3 DEF SubmitReturns
<1> QED
  BY <1>1, <1>2, <1>3, FetchRangeStep, LoadUnprocessedLogsStep, SplitLogStep, EndRangeStep
     DEF RangeNext

\* The invariant of the way of a range from the channel to its batches.
LEMMA Invariance == ASSUME NoWrap PROVE RangeSpec => []BatchesInv
<1> QED
  BY InitBatches, NextBatches, PTL DEF RangeSpec

\* For every list of tokens, chain and range: sorted, what the queries of the
\* range or, after a restart, the table select are the logs of the side, one by
\* one in chain order.
THEOREM LogsSorted == ASSUME NoWrap PROVE RangeSpec => []LogsOfSideOnce
<1>1. BatchesInv => LogsOfSideOnce
  BY DEF BatchesInv
<1> QED
  BY <1>1, Invariance, PTL

\* SplitLogsInBatches and submitLogs put every log of a range into one batch,
\* that of its block.
THEOREM BatchesPartition == ASSUME NoWrap PROVE RangeSpec => []EveryLogOnce
<1>1. BatchesInv => EveryLogOnce
  BY DEF BatchesInv
<1> QED
  BY <1>1, Invariance, PTL

\* The batches go forward, and the last one is that of the end of the range.
THEOREM BatchesEnd == ASSUME NoWrap PROVE RangeSpec => []EndsWithRange
<1>1. BatchesInv => EndsWithRange
  BY DEF BatchesInv
<1> QED
  BY <1>1, Invariance, PTL
=============================================================================
