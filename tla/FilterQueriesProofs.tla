------------------------- MODULE FilterQueriesProofs -------------------------
(***************************************************************************)
(* SplitBlockRange partitions the blocks it is given, for every start,     *)
(* head and batch size, as long as the machine numbers do not wrap.  The   *)
(* logs of a side are fetched range by range and query by query, and       *)
(* loaded from the table after a restart.  For every set of tokens and     *)
(* every chain both give exactly the logs the configuration asks for.      *)
(***************************************************************************)
EXTENDS FilterQueries, TLAPS

-----------------------------------------------------------------------------
(* The ranges *)

BatchType == [from: Nat, to: Nat]

\* What Partition needs to be inductive: the types, and a head that is far
\* from the largest machine number.
LoopInv ==
    /\ start \in Nat /\ fromBlock \in Nat
    /\ toBlock \in 0..MaxHead
    /\ batches \in Seq(BatchType)
    /\ Partition

\* A number below the modulus is not changed by machine arithmetic.
LEMMA WrapSmall == ASSUME NEW n \in 0..(Modulus - 1) PROVE Wrap(n) = n
BY BlockRangesAssumption DEF Wrap

\* The loop starts with no batch, and everything left to split.
LEMMA LoopStarts == NoWrap /\ Init => LoopInv
<1> SUFFICES ASSUME NoWrap, Init PROVE LoopInv
  OBVIOUS
<1>1. reported - BlockConfirmations \in 0..(Modulus - 1)
  BY BlockRangesAssumption DEF Init, NoWrap
<1>2. toBlock \in 0..MaxHead
  BY <1>1, WrapSmall, BlockRangesAssumption DEF Init
<1>3. start \in Nat /\ fromBlock = start /\ batches = <<>>
  BY BlockRangesAssumption DEF Init
<1> QED
  BY <1>2, <1>3 DEF LoopInv, Partition

\* The batch that an iteration splits off.
NextBatch ==
    [from |-> fromBlock,
     to |-> IF fromBlock + MaxBlockRangeSize - 1 > toBlock
            THEN toBlock ELSE fromBlock + MaxBlockRangeSize - 1]

\* One iteration appends a batch that begins where the rest begins, and leaves
\* the blocks after it, if any.
LEMMA SplitOffAppends ==
    ASSUME NoWrap, LoopInv, SplitOff
    PROVE  /\ batches' = Append(batches, NextBatch)
           /\ NextBatch \in BatchType
           /\ NextBatch.from = fromBlock /\ NextBatch.from <= NextBatch.to
           /\ NextBatch.to < NextBatch.from + MaxBlockRangeSize /\ NextBatch.to <= toBlock
           /\ NextBatch.to = IF fromBlock' <= toBlock THEN fromBlock' - 1 ELSE toBlock
           /\ fromBlock' = fromBlock + MaxBlockRangeSize
           /\ fromBlock <= toBlock /\ UNCHANGED <<start, toBlock>>
<1>1. /\ fromBlock \in Nat /\ toBlock \in Nat /\ MaxBlockRangeSize \in Nat \ {0}
      /\ fromBlock <= toBlock /\ UNCHANGED <<start, toBlock>>
  BY BlockRangesAssumption DEF LoopInv, SplitOff
<1>2. /\ fromBlock + MaxBlockRangeSize - 1 \in 0..(Modulus - 1)
      /\ fromBlock + MaxBlockRangeSize \in 0..(Modulus - 1)
  BY <1>1, BlockRangesAssumption DEF LoopInv, NoWrap
<1>3. batches' = Append(batches, NextBatch) /\ fromBlock' = fromBlock + MaxBlockRangeSize
  BY <1>2, WrapSmall DEF SplitOff, BatchToBlock, NextBatch
<1> QED
  BY <1>1, <1>3 DEF NextBatch, BatchType

\* One iteration splits the next batch off the rest.
LEMMA LoopStep == NoWrap /\ LoopInv /\ [Next]_vars => LoopInv'
<1> SUFFICES ASSUME NoWrap, LoopInv, [Next]_vars PROVE LoopInv'
  OBVIOUS
<1>1. CASE UNCHANGED vars
  BY <1>1 DEF vars, LoopInv, Partition
<1>2. CASE SplitOff
    <2> DEFINE size == MaxBlockRangeSize
               e == NextBatch
               n == Len(batches)
    <2>1. /\ fromBlock \in Nat /\ toBlock \in Nat /\ start \in Nat
          /\ size \in Nat \ {0} /\ fromBlock <= toBlock
          /\ UNCHANGED <<start, toBlock>>
      BY <1>2, BlockRangesAssumption DEF LoopInv, SplitOff
    <2>3. batches' = Append(batches, e) /\ fromBlock' = fromBlock + size
      BY <1>2, SplitOffAppends
    <2>4. /\ e \in BatchType /\ e.from = fromBlock /\ e.from <= e.to
          /\ e.to < e.from + size /\ e.to <= toBlock
          /\ e.to = IF fromBlock' <= toBlock THEN fromBlock' - 1 ELSE toBlock
      BY <1>2, SplitOffAppends
    <2> HIDE DEF e
    <2>5. /\ batches \in Seq(BatchType) /\ n \in Nat
          /\ batches' \in Seq(BatchType) /\ Len(batches') = n + 1
          /\ batches'[n + 1] = e
          /\ \A i \in 1..n : batches'[i] = batches[i]
      BY <2>3, <2>4 DEF LoopInv
    <2>6. fromBlock = IF n = 0 THEN start ELSE batches[n].to + 1
      BY <2>1, <2>5 DEF LoopInv, Partition
    <2>7. ASSUME NEW i \in 1..(n + 1)
          PROVE  /\ batches'[i].from = IF i = 1 THEN start ELSE batches'[i - 1].to + 1
                 /\ batches'[i].from <= batches'[i].to
                 /\ batches'[i].to < batches'[i].from + size
                 /\ batches'[i].to <= toBlock
        <3>1. CASE i \in 1..n
            <4>1. batches'[i] = batches[i] /\ (i # 1 => batches'[i - 1] = batches[i - 1])
              BY <2>5, <3>1
            <4> QED
              BY <3>1, <4>1 DEF LoopInv, Partition
        <3>2. CASE i = n + 1
            <4>1. i # 1 => i - 1 = n /\ batches'[i - 1] = batches[n]
              BY <2>5, <3>2
            <4> QED
              BY <2>4, <2>5, <2>6, <3>2, <4>1
        <3> QED
          BY <2>5, <3>1, <3>2
    <2>8. /\ batches' # <<>> /\ fromBlock' \in Nat
          /\ e.to \in Nat
          /\ fromBlock' <= toBlock => fromBlock' = e.to + 1
          /\ ~(fromBlock' <= toBlock) => e.to = toBlock
      BY <2>1, <2>3, <2>4, <2>5 DEF BatchType
    <2> QED
      BY <2>1, <2>5, <2>7, <2>8 DEF LoopInv, Partition
<1>3. CASE Return
  BY <1>3 DEF Return, vars, LoopInv, Partition
<1> QED
  BY <1>1, <1>2, <1>3 DEF Next

\* SplitBlockRange partitions the scheduled blocks: the fetcher neither skips
\* a block nor asks for one twice, and stays within max_block_range_size.
THEOREM SplitPartitions == ASSUME NoWrap PROVE Spec => []Partition
<1>1. Init => LoopInv
  BY LoopStarts
<1>2. LoopInv /\ [Next]_vars => LoopInv'
  BY LoopStep
<1>3. LoopInv => Partition
  BY DEF LoopInv
<1> QED
  BY <1>1, <1>2, <1>3, PTL DEF Spec

-----------------------------------------------------------------------------
(* The queries of a range *)

\* Blocks that the fetcher may be asked for.
RangeOfSide(r) == r \in BatchType /\ StartBlock <= r.from /\ r.to <= MaxUint32

Default(c) == [address |-> c.address,
               start |-> IF c.start = 0 THEN StartBlock ELSE c.start,
               end |-> IF c.end = 0 THEN MaxUint32 ELSE c.end]

UsedAt(c, b) == (c.start # 0 => c.start <= b) /\ (c.end # 0 => b <= c.end)

\* init fills in the blocks of every configured token.
LEMMA TokensAreDefaults == Tokens = {Default(c) : c \in TokenConfigs}
BY DEF Tokens, Default

\* Filling in the defaults leaves the blocks of a token as the file has them.
LEMMA DefaultBlocks ==
    ASSUME NEW c \in TokenConfigs
    PROVE  /\ Default(c) \in TokenConfig
           /\ Default(c).address = c.address
           /\ \A b \in Nat : (StartBlock <= b /\ b <= MaxUint32) =>
                ((Default(c).start <= b /\ b <= Default(c).end) <=> UsedAt(c, b))
<1>1. c \in TokenConfig /\ StartBlock \in Nat /\ MaxUint32 \in Nat
  BY TokenConfigAssumption
<1>2. /\ Default(c).address = c.address
      /\ Default(c).start = IF c.start = 0 THEN StartBlock ELSE c.start
      /\ Default(c).end = IF c.end = 0 THEN MaxUint32 ELSE c.end
  BY DEF Default
<1>3. c.start \in Nat /\ c.end \in Nat /\ Default(c) \in TokenConfig
  BY <1>1 DEF TokenConfig, Default
<1> QED
  BY <1>1, <1>2, <1>3 DEF UsedAt

\* What init makes of a token is a token.
LEMMA TokenTypes == Tokens \subseteq TokenConfig
BY TokensAreDefaults, DefaultBlocks

\* A query that buildFilterQueries makes for a token selects the transfers of
\* this token to the bridge in the blocks of the range and of the token.
LEMMA TokenQueryMatches ==
    ASSUME NEW t \in Tokens, NEW r \in BatchType, NEW l \in Log
    PROVE  Matches(l, TokenQuery(t, r)) <=>
             /\ l.block \in r.from..r.to
             /\ t.start <= l.block /\ l.block <= t.end
             /\ l.address = t.address /\ l.topic2 = BridgeAddress
<1> DEFINE q == TokenQuery(t, r)
<1>1. /\ t.start \in Nat /\ t.end \in Nat
      /\ r.from \in Nat /\ r.to \in Nat /\ l.block \in Nat
  BY TokenTypes DEF TokenConfig, BatchType, Log
<1>2. /\ q.from = IF t.start > r.from THEN t.start ELSE r.from
      /\ q.to = IF t.end < r.to THEN t.end ELSE r.to
      /\ q.topic2 = BridgeAddress /\ q.addresses = {t.address}
  BY DEF TokenQuery
<1>3. l.block \in q.from..q.to <=>
        l.block \in r.from..r.to /\ t.start <= l.block /\ l.block <= t.end
  BY <1>1, <1>2
<1>4. BridgeAddress \in {AnyTopic, l.topic2} <=> l.topic2 = BridgeAddress
  BY TokenConfigAssumption
<1> QED
  BY <1>2, <1>3, <1>4 DEF Matches

\* A log that the query for a token selects is in blocks where the token is used,
\* so the query was made.
LEMMA SelectedOverlaps ==
    ASSUME NEW t \in Tokens, NEW r \in BatchType, NEW b \in Nat,
           b \in r.from..r.to, t.start <= b, b <= t.end
    PROVE  Overlaps(t, r)
BY TokenTypes DEF Overlaps, TokenConfig, BatchType

\* The query for the contracts of the side selects their logs in the range.
LEMMA ContractsQueryMatches ==
    ASSUME NEW r, NEW l
    PROVE  Matches(l, ContractsQuery(r)) <=>
             /\ l.block \in r.from..r.to
             /\ l.address \in {BridgeAddress, ValidatorContractAddress}
BY DEF Matches, ContractsQuery

\* The configuration in terms of the tokens after init.
LEMMA OfSideByTokens ==
    ASSUME NEW l \in Log, StartBlock <= l.block, l.block <= MaxUint32
    PROVE  OfSide(l) <=>
             \/ l.address \in {BridgeAddress, ValidatorContractAddress}
             \/ \E t \in Tokens :
                  /\ l.address = t.address /\ l.topic2 = BridgeAddress
                  /\ t.start <= l.block /\ l.block <= t.end
<1>1. l.block \in Nat
  BY DEF Log
<1>2. ASSUME NEW c \in TokenConfigs
      PROVE  /\ Default(c) \in Tokens
             /\ Default(c).address = c.address
             /\ (Default(c).start <= l.block /\ l.block <= Default(c).end)
                  <=> UsedAt(c, l.block)
  BY <1>1, DefaultBlocks, TokensAreDefaults
<1>3. \A t \in Tokens : \E c \in TokenConfigs : t = Default(c)
  BY TokensAreDefaults
<1>4. OfSide(l) <=>
        \/ l.address \in {BridgeAddress, ValidatorContractAddress}
        \/ \E c \in TokenConfigs :
             l.address = c.address /\ l.topic2 = BridgeAddress /\ UsedAt(c, l.block)
  BY DEF OfSide, UsedAt
<1> QED
  BY <1>2, <1>3, <1>4

\* A query of buildFilterQueries is that for the contracts or that for a token.
LEMMA QueriesByToken ==
    ASSUME NEW r \in BatchType, NEW l \in Log
    PROVE  (\E q \in FilterQueries(r) : Matches(l, q)) <=>
             \/ Matches(l, ContractsQuery(r))
             \/ \E t \in Tokens : Matches(l, TokenQuery(t, r))
<1>1. ~ErcToNative => Tokens = {}
  BY ModeAssumption DEF Tokens
<1>2. ASSUME NEW t \in Tokens, Matches(l, TokenQuery(t, r))
      PROVE  TokenQuery(t, r) \in FilterQueries(r)
  <2>1. Overlaps(t, r)
    BY <1>2, TokenQueryMatches, SelectedOverlaps DEF Log
  <2> QED
    BY <1>1, <2>1 DEF FilterQueries
<1>3. ContractsQuery(r) \in FilterQueries(r)
  BY DEF FilterQueries
<1>4. \A q \in FilterQueries(r) :
        q = ContractsQuery(r) \/ \E t \in Tokens : q = TokenQuery(t, r)
  BY DEF FilterQueries
<1> QED
  BY <1>2, <1>3, <1>4

-----------------------------------------------------------------------------

\* tryToFetchLogs gets the logs of the side in its range: no token, token start or
\* token end makes a query of buildFilterQueries miss one or ask for too much.
THEOREM FetchedAreOfSide ==
    ASSUME NEW logs \in SUBSET ChainLogs, NEW r, RangeOfSide(r)
    PROVE  LogsOf(FetchedLogs(logs, r)) = LogsOfSide(logs, r)
<1>1. ASSUME NEW l \in logs
      PROVE  (\E q \in FilterQueries(r) : Matches(l, q)) <=>
               l.block \in r.from..r.to /\ OfSide(l)
  <2>1. l \in Log /\ r \in BatchType
    BY ChainLogsAssumption DEF RangeOfSide
  <2>2. l.block \in r.from..r.to => StartBlock <= l.block /\ l.block <= MaxUint32
    BY <2>1, TokenConfigAssumption DEF RangeOfSide, Log, BatchType
  <2>3. (\E q \in FilterQueries(r) : Matches(l, q)) <=>
          \/ /\ l.block \in r.from..r.to
             /\ l.address \in {BridgeAddress, ValidatorContractAddress}
          \/ \E t \in Tokens :
               /\ l.block \in r.from..r.to
               /\ t.start <= l.block /\ l.block <= t.end
               /\ l.address = t.address /\ l.topic2 = BridgeAddress
    BY <2>1, QueriesByToken, ContractsQueryMatches, TokenQueryMatches
  <2> QED
    BY <2>1, <2>2, <2>3, OfSideByTokens
<1>2. \A l : l \in LogsOf(FetchedLogs(logs, r)) <=>
               l \in logs /\ \E q \in FilterQueries(r) : Matches(l, q)
  <2>1. ASSUME NEW l \in logs, NEW q \in FilterQueries(r), Matches(l, q)
        PROVE  l \in LogsOf(FetchedLogs(logs, r))
    <3> DEFINE a == [query |-> q, log |-> l]
    <3>1. a \in FetchedLogs(logs, r) /\ a.log = l
      BY <2>1 DEF FetchedLogs
    <3> QED
      BY <3>1 DEF LogsOf
  <2>2. ASSUME NEW a \in FetchedLogs(logs, r)
        PROVE  a.log \in logs /\ \E q \in FilterQueries(r) : Matches(a.log, q)
    BY DEF FetchedLogs
  <2> QED
    BY <2>1, <2>2 DEF LogsOf
<1> QED
  BY <1>1, <1>2 DEF LogsOfSide

\* Two queries of one range never select the same log, so Logs.Ensure gets every
\* row once in its statement.
THEOREM FetchedOnce ==
    ASSUME NEW logs \in SUBSET ChainLogs, NEW r \in BatchType,
           NEW a \in FetchedLogs(logs, r), NEW b \in FetchedLogs(logs, r),
           a.log = b.log
    PROVE  a = b
<1>1. /\ a.query \in FilterQueries(r) /\ Matches(a.log, a.query)
      /\ b.query \in FilterQueries(r) /\ Matches(b.log, b.query)
      /\ a = [query |-> a.query, log |-> a.log] /\ b = [query |-> b.query, log |-> b.log]
      /\ a.log \in Log /\ b.log \in Log
  BY ChainLogsAssumption DEF FetchedLogs
<1>2. \A q \in FilterQueries(r) :
        q = ContractsQuery(r) \/ \E t \in Tokens : q = TokenQuery(t, r)
  BY DEF FilterQueries
<1>3. a.query = b.query
  <2>1. CASE a.query = ContractsQuery(r)
    BY <1>1, <1>2, <2>1, ContractsQueryMatches, TokenQueryMatches, TokensAssumption
  <2>2. CASE \E t \in Tokens : a.query = TokenQuery(t, r)
    <3>1. PICK t \in Tokens : a.query = TokenQuery(t, r)
      BY <2>2
    <3>2. CASE b.query = ContractsQuery(r)
      BY <1>1, <3>1, <3>2, ContractsQueryMatches, TokenQueryMatches, TokensAssumption
    <3>3. CASE \E u \in Tokens : b.query = TokenQuery(u, r)
      <4>1. PICK u \in Tokens : b.query = TokenQuery(u, r)
        BY <3>3
      <4>2. /\ t.address = u.address
            /\ t.start <= a.log.block /\ a.log.block <= t.end
            /\ u.start <= a.log.block /\ a.log.block <= u.end
        BY <1>1, <3>1, <4>1, TokenQueryMatches
      <4>3. t \in TokenConfig /\ u \in TokenConfig /\ a.log.block \in Nat
        BY <1>1, TokenTypes DEF Log
      <4>4. ~(t.end < u.start) /\ ~(u.end < t.start)
        BY <4>2, <4>3 DEF TokenConfig
      <4> QED
        BY <3>1, <4>1, <4>2, <4>4, TokensAssumption
    <3> QED
      BY <1>1, <1>2, <3>2, <3>3
  <2> QED
    BY <1>1, <1>2, <2>1, <2>2
<1> QED
  BY <1>1, <1>3

\* LoadUnprocessedLogs, which asks for less, gets the same logs from the table,
\* as long as its other logs are of contracts this side does not use there.
THEOREM LoadedAreOfSide ==
    ASSUME NEW logs \in SUBSET ChainLogs, NEW others \in SUBSET ChainLogs,
           NEW r, RangeOfSide(r),
           \A l \in others : l.address \notin ContractAddresses(r)
    PROVE  StoredLogs(LogsOfSide(logs, r) \cup others, r) = LogsOfSide(logs, r)
<1>1. ASSUME NEW l \in LogsOfSide(logs, r)
      PROVE  l.block \in r.from..r.to /\ l.address \in ContractAddresses(r)
  <2>1. l \in Log /\ r \in BatchType /\ l.block \in r.from..r.to /\ OfSide(l)
    BY ChainLogsAssumption DEF RangeOfSide, LogsOfSide
  <2>2. StartBlock <= l.block /\ l.block <= MaxUint32 /\ l.block \in Nat
    BY <2>1, TokenConfigAssumption DEF RangeOfSide, Log, BatchType
  <2>3. CASE l.address \in {BridgeAddress, ValidatorContractAddress}
    BY <2>1, <2>3 DEF ContractAddresses, OnlyContracts
  <2>4. CASE \E t \in Tokens : l.address = t.address /\ t.start <= l.block /\ l.block <= t.end
    BY <2>1, <2>2, <2>4, SelectedOverlaps DEF ContractAddresses, TokenAddresses
  <2> QED
    BY <2>1, <2>2, <2>3, <2>4, OfSideByTokens
<1> QED
  BY <1>1 DEF StoredLogs

-----------------------------------------------------------------------------
(* All ranges of a round *)

\* What is known of the ranges scheduled so far: they are in order, and together
\* they are the blocks before the rest.
RangesInv ==
    /\ LoopInv
    /\ \A n \in 1..Len(batches) : start <= batches[n].from /\ batches[n].to < fromBlock
    /\ \A m, n \in 1..Len(batches) : m < n => batches[m].to < batches[n].from
    /\ \A b \in start..toBlock : b < fromBlock =>
         \E n \in 1..Len(batches) : b \in batches[n].from..batches[n].to

\* At first nothing is scheduled, and nothing lies before the rest.
LEMMA RangesStart == NoWrap /\ Init => RangesInv
<1> SUFFICES ASSUME NoWrap, Init PROVE RangesInv
  OBVIOUS
<1>1. LoopInv /\ batches = <<>> /\ fromBlock = start /\ start \in Nat /\ toBlock \in Nat
  BY LoopStarts DEF Init, LoopInv
<1> QED
  BY <1>1 DEF RangesInv

\* An iteration schedules the blocks directly after those scheduled before.
LEMMA RangesStep == NoWrap /\ RangesInv /\ [Next]_vars => RangesInv'
<1> SUFFICES ASSUME NoWrap, RangesInv, [Next]_vars PROVE RangesInv'
  OBVIOUS
<1>1. LoopInv'
  BY LoopStep DEF RangesInv
<1>2. CASE UNCHANGED vars
  BY <1>1, <1>2 DEF vars, RangesInv
<1>3. CASE SplitOff
  <2> DEFINE e == NextBatch
             k == Len(batches)
             size == MaxBlockRangeSize
  <2>1. /\ batches' = Append(batches, e) /\ e \in BatchType
        /\ e.from = fromBlock /\ e.from <= e.to /\ e.to <= toBlock
        /\ e.to < e.from + size
        /\ e.to = IF fromBlock' <= toBlock THEN fromBlock' - 1 ELSE toBlock
        /\ fromBlock' = fromBlock + size
        /\ UNCHANGED <<start, toBlock>>
    BY <1>3, SplitOffAppends DEF RangesInv
  <2>2. /\ batches \in Seq(BatchType) /\ fromBlock \in Nat /\ toBlock \in Nat
        /\ start \in Nat /\ size \in Nat /\ k \in Nat /\ e.from \in Nat /\ e.to \in Nat
    BY <2>1, BlockRangesAssumption DEF RangesInv, LoopInv, BatchType
  <2> HIDE DEF e
  <2>3. /\ Len(batches') = k + 1 /\ batches'[k + 1] = e
        /\ \A n \in 1..k : batches'[n] = batches[n]
    BY <2>1, <2>2
  <2>4. ASSUME NEW n \in 1..k
        PROVE  batches[n].from \in Nat /\ batches[n].to \in Nat
    <3>1. batches[n] \in BatchType
      BY <2>2
    <3> QED
      BY <3>1 DEF BatchType
  <2>5. start <= fromBlock
    <3>1. CASE k = 0
      <4>1. batches = <<>>
        BY <2>2, <3>1
      <4> QED
        BY <2>2, <4>1, <1>3 DEF RangesInv, LoopInv, Partition, SplitOff
    <3>2. CASE k # 0
      BY <2>2, <2>4, <3>2 DEF RangesInv, LoopInv, Partition
    <3> QED
      BY <3>1, <3>2
  <2>6. ASSUME NEW n \in 1..(k + 1)
        PROVE  start <= batches'[n].from /\ batches'[n].to < fromBlock'
    BY <2>1, <2>2, <2>3, <2>4, <2>5 DEF RangesInv
  <2>7. ASSUME NEW m \in 1..(k + 1), NEW n \in 1..(k + 1), m < n
        PROVE  batches'[m].to < batches'[n].from
    <3>1. CASE n = k + 1
      BY <2>1, <2>2, <2>3, <2>7, <3>1 DEF RangesInv
    <3>2. CASE n # k + 1
      BY <2>2, <2>3, <2>7, <3>2 DEF RangesInv
    <3> QED
      BY <3>1, <3>2
  <2>8. ASSUME NEW b \in start..toBlock, b < fromBlock'
        PROVE  \E n \in 1..(k + 1) : b \in batches'[n].from..batches'[n].to
    <3>1. CASE b < fromBlock
      <4>1. PICK n \in 1..k : b \in batches[n].from..batches[n].to
        BY <2>8, <3>1 DEF RangesInv
      <4> QED
        BY <2>2, <2>3, <4>1
    <3>2. CASE ~(b < fromBlock)
      <4>1. b \in e.from..e.to
        BY <2>1, <2>2, <2>8, <3>2
      <4> QED
        BY <2>2, <2>3, <4>1
    <3> QED
      BY <3>1, <3>2
  <2> QED
    BY <1>1, <2>1, <2>3, <2>6, <2>7, <2>8 DEF RangesInv
<1>4. CASE Return
  BY <1>1, <1>4 DEF Return, vars, RangesInv
<1> QED
  BY <1>2, <1>3, <1>4 DEF Next

\* Every log of the side in the scheduled blocks is selected by the queries of one
\* range, and the queries of all ranges select nothing else.
LEMMA RangesFetchAll == RangesInv => AllLogsFetched
<1> SUFFICES ASSUME RangesInv, fromBlock > toBlock, StartBlock <= start
             PROVE  /\ UNION {LogsOf(FetchedLogs(ChainLogs, batches[n])) : n \in 1..Len(batches)}
                         = LogsOfSide(ChainLogs, [from |-> start, to |-> toBlock])
                    /\ \A m, n \in 1..Len(batches) :
                         m # n => LogsOf(FetchedLogs(ChainLogs, batches[m]))
                                    \cap LogsOf(FetchedLogs(ChainLogs, batches[n])) = {}
  BY DEF AllLogsFetched
<1>1. /\ batches \in Seq(BatchType) /\ fromBlock \in Nat /\ start \in Nat
      /\ toBlock \in Nat /\ toBlock <= MaxUint32 /\ StartBlock \in Nat
  BY TokenConfigAssumption, BlockRangesAssumption DEF RangesInv, LoopInv
<1>2. ASSUME NEW n \in 1..Len(batches)
      PROVE  /\ batches[n] \in BatchType
             /\ start <= batches[n].from /\ batches[n].to <= toBlock
  BY <1>1 DEF RangesInv, LoopInv, Partition
<1>3. ASSUME NEW n \in 1..Len(batches)
      PROVE  RangeOfSide(batches[n])
  BY <1>1, <1>2, TokenConfigAssumption DEF RangeOfSide, BatchType
<1>4. \A n \in 1..Len(batches) :
        LogsOf(FetchedLogs(ChainLogs, batches[n])) = LogsOfSide(ChainLogs, batches[n])
  BY <1>3, FetchedAreOfSide
<1>5. \A l \in ChainLogs : l.block \in Nat
  BY ChainLogsAssumption DEF Log
<1>6. \A b \in Nat : b \in start..toBlock <=>
        \E n \in 1..Len(batches) : b \in batches[n].from..batches[n].to
  <2>1. ASSUME NEW b \in start..toBlock
        PROVE  \E n \in 1..Len(batches) : b \in batches[n].from..batches[n].to
    BY <1>1, <2>1 DEF RangesInv
  <2>2. ASSUME NEW n \in 1..Len(batches), NEW b \in batches[n].from..batches[n].to
        PROVE  b \in start..toBlock
    BY <1>1, <1>2 DEF BatchType
  <2> QED
    BY <2>1, <2>2
<1>7. UNION {LogsOfSide(ChainLogs, batches[n]) : n \in 1..Len(batches)}
        = LogsOfSide(ChainLogs, [from |-> start, to |-> toBlock])
  BY <1>5, <1>6 DEF LogsOfSide
<1>8. ASSUME NEW m \in 1..Len(batches), NEW n \in 1..Len(batches), m # n
      PROVE  LogsOfSide(ChainLogs, batches[m]) \cap LogsOfSide(ChainLogs, batches[n]) = {}
  <2>1. batches[m].to < batches[n].from \/ batches[n].to < batches[m].from
    BY <1>1, <1>8 DEF RangesInv
  <2> QED
    BY <1>2, <1>5, <2>1 DEF LogsOfSide, BatchType
<1>9. UNION {LogsOf(FetchedLogs(ChainLogs, batches[n])) : n \in 1..Len(batches)}
        = UNION {LogsOfSide(ChainLogs, batches[n]) : n \in 1..Len(batches)}
  BY <1>4
<1> QED
  BY <1>4, <1>7, <1>8, <1>9

\* For every token list, chain, start, head and range size, a round of the block
\* fetcher has the logs fetcher ask for every log of the side once.
THEOREM RoundFetchesAllLogs == ASSUME NoWrap PROVE Spec => []AllLogsFetched
<1>1. Init => RangesInv
  BY RangesStart
<1>2. RangesInv /\ [Next]_vars => RangesInv'
  BY RangesStep
<1> QED
  BY <1>1, <1>2, RangesFetchAll, PTL DEF Spec
=============================================================================
