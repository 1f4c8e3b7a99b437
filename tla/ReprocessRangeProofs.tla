------------------------ MODULE ReprocessRangeProofs ------------------------
(***************************************************************************)
(* Proofs about ReprocessRange: what the program may do to the row of the  *)
(* monitor, that the last nil of blocksRangeChan means that everything was *)
(* submitted, and that the batches are handled in chain order.             *)
(***************************************************************************)
EXTENDS ReprocessRange, TLAPS

\* A range of SplitBlockRange that was sent before a block was next.
Scheduled(r, next) ==
    /\ r \in [from: Nat, to: Nat]
    /\ FromBlock <= r.from /\ r.from <= r.to /\ r.to < next
    /\ r.to \in RangeEnds

\* The scheduler is at the start of a range, or at the end.
AtRange ==
    /\ schedulerPc = "ranges" =>
         /\ nextBlock <= ToBlock
         /\ \E k \in Nat : nextBlock = FromBlock + k * MaxBlockRangeSize
    /\ schedulerPc # "ranges" /\ ~ctxDone /\ ~Ended => nextBlock = ToBlock + 1

\* The channels hold scheduled ranges and their batches.
Channels ==
    /\ blocksRangeChan \in Seq([from: Nat, to: Nat] \cup {Nil})
    /\ \A i \in 1..Len(blocksRangeChan) :
         blocksRangeChan[i] # Nil => Scheduled(blocksRangeChan[i], nextBlock)
    /\ logsChan \in Seq(AllBatches \cup {Nil})

\* The fetcher and the processor have what they are at.
AtWork ==
    /\ fetcherPc \in {"fetch", "submit"} => Scheduled(current, nextBlock)
    /\ fetcherPc # "submit" => pending = {}
    /\ fetcherPc = "stopped" => ctxDone
    /\ processorPc = "work" => batch \in AllBatches

\* ProcessBlockRange was not refused: the request ends before the cursor.
BehindCursor == mainPc # "refused" => ToBlock <= processed /\ processed <= fetched

Submitted(b) ==
    \/ b \in done \/ (b = batch /\ processorPc = "work")
    \/ \E i \in 1..Len(logsChan) : logsChan[i] = b

Fetching(b) ==
    b \in pending \/ (fetcherPc = "fetch" /\ b \in BatchesOf(current))

InRanges(b, chan) ==
    \E i \in 1..Len(chan) : chan[i] # Nil /\ b \in BatchesOf(chan[i])

\* No batch of a scheduled range is lost on its way.
NoneLost ==
    ctxDone \/ \A b \in AllBatches : b < nextBlock =>
                 Submitted(b) \/ Fetching(b) \/ InRanges(b, blocksRangeChan)

\* The nil that follows the ranges stays the last element of the channel.
EndsWithNil ==
    schedulerPc = "stopped" /\ ~ctxDone /\ ~Ended =>
      IF blocksRangeChan = <<>> THEN fetcherPc = "take"
      ELSE blocksRangeChan[Len(blocksRangeChan)] = Nil

Inv ==
    /\ TypeOK
    /\ AtRange /\ Channels /\ AtWork /\ BehindCursor /\ NoneLost /\ EndsWithNil

-----------------------------------------------------------------------------
(* Channels, numbers and ranges *)

\* Sending to a channel: the new element is the last one.
LEMMA Send ==
    ASSUME NEW S, NEW s \in Seq(S), NEW e \in S
    PROVE  /\ Append(s, e) \in Seq(S)
           /\ Len(s) \in Nat /\ Len(Append(s, e)) = Len(s) + 1
           /\ Append(s, e)[Len(s) + 1] = e
           /\ \A i \in 1..Len(s) : Append(s, e)[i] = s[i]
OBVIOUS

\* Receiving from a channel: the others move up by one.
LEMMA Receive ==
    ASSUME NEW S, NEW s \in Seq(S), s # <<>>
    PROVE  /\ Head(s) = s[1] /\ Head(s) \in S /\ Tail(s) \in Seq(S)
           /\ Len(s) \in Nat \ {0} /\ Len(Tail(s)) = Len(s) - 1
           /\ \A i \in 1..Len(Tail(s)) : i + 1 \in 1..Len(s) /\ Tail(s)[i] = s[i + 1]
           /\ \A i \in 1..Len(s) : i # 1 => i - 1 \in 1..Len(Tail(s)) /\ Tail(s)[i - 1] = s[i]
OBVIOUS

\* Two multiples of a number are that number apart.
LEMMA Multiples ==
    ASSUME NEW a \in Nat, NEW b \in Nat, NEW m \in Nat \ {0}, a * m < b * m
    PROVE  a * m + m <= b * m
<1>1. a < b
  OBVIOUS
<1>2. a + 1 <= b
  BY <1>1
<1>3. (a + 1) * m = a * m + m
  OBVIOUS
<1>4. (a + 1) * m <= b * m
  BY <1>2
<1> QED
  BY <1>3, <1>4

\* A batch is a block of the request.
LEMMA BatchTypes ==
    /\ \A b \in AllBatches : b \in Nat /\ FromBlock <= b /\ b <= ToBlock
    /\ FromBlock \in Nat \ {0} /\ ToBlock \in Nat /\ MaxBlockRangeSize \in Nat \ {0}
    /\ Nil \notin AllBatches
<1>1. FromBlock \in Nat \ {0} /\ ToBlock \in Nat /\ MaxBlockRangeSize \in Nat \ {0}
  BY ReprocessAssumption
<1>2. RangeEnds \subseteq FromBlock..ToBlock
  BY DEF RangeEnds
<1>3. AllBatches \subseteq FromBlock..ToBlock
  <2>1. \A b \in LogBlocks : FromBlock <= b /\ b <= ToBlock => b \in FromBlock..ToBlock
    BY <1>1, ReprocessAssumption
  <2> QED
    BY <1>2, <2>1 DEF AllBatches
<1>4. \A b \in FromBlock..ToBlock : b \in Nat /\ FromBlock <= b /\ b <= ToBlock
  BY <1>1
<1> QED
  BY <1>1, <1>3, <1>4, NilAssumption

\* The range that SplitBlockRange makes next ends at a range end, and at no other.
LEMMA NextRange ==
    ASSUME NEW n \in Nat, FromBlock <= n, n <= ToBlock,
           NEW k \in Nat, n = FromBlock + k * MaxBlockRangeSize
    PROVE  LET last == Lower(n + MaxBlockRangeSize - 1, ToBlock)
           IN  /\ last \in Nat /\ n <= last /\ last <= ToBlock /\ last \in RangeEnds
               /\ \A b \in RangeEnds : n <= b /\ b <= last => b = last
               /\ last # ToBlock => last + 1 = FromBlock + (k + 1) * MaxBlockRangeSize
<1> DEFINE last == Lower(n + MaxBlockRangeSize - 1, ToBlock)
<1> USE BatchTypes
<1>1. /\ last \in Nat /\ n <= last /\ last <= ToBlock /\ last <= n + MaxBlockRangeSize - 1
      /\ last # ToBlock => last = n + MaxBlockRangeSize - 1 /\ last < ToBlock
  BY DEF Lower
<1> HIDE DEF last
<1>2. (k + 1) * MaxBlockRangeSize = k * MaxBlockRangeSize + MaxBlockRangeSize
      /\ k * MaxBlockRangeSize \in Nat
  OBVIOUS
<1>3. last # ToBlock => last + 1 = FromBlock + (k + 1) * MaxBlockRangeSize
  BY <1>1, <1>2
<1>4. last \in RangeEnds
  <2>1. k + 1 <= (k + 1) * MaxBlockRangeSize
    OBVIOUS
  <2>2. last # ToBlock => k + 1 \in 1..ToBlock
    BY <1>1, <1>2, <1>3, <2>1
  <2>3. last \in FromBlock..ToBlock
    BY <1>1
  <2> QED
    BY <1>3, <2>2, <2>3 DEF RangeEnds
<1>5. ASSUME NEW b \in RangeEnds, n <= b, b <= last PROVE b = last
  <2>1. b \in Nat /\ b <= ToBlock
    BY DEF RangeEnds
  <2>2. CASE b = ToBlock
    BY <1>1, <1>5, <2>2
  <2>3. ASSUME NEW j \in 1..ToBlock, b + 1 = FromBlock + j * MaxBlockRangeSize
        PROVE  b = last
    <3>1. j \in Nat /\ j * MaxBlockRangeSize \in Nat
      OBVIOUS
    <3>2. k * MaxBlockRangeSize < j * MaxBlockRangeSize
      BY <1>2, <1>5, <2>1, <2>3, <3>1
    <3>3. k * MaxBlockRangeSize + MaxBlockRangeSize <= j * MaxBlockRangeSize
      BY <3>1, <3>2, Multiples
    <3> QED
      BY <1>1, <1>2, <1>5, <2>1, <2>3, <3>1, <3>3
  <2> QED
    BY <2>2, <2>3 DEF RangeEnds
<1> QED
  BY <1>1, <1>3, <1>4, <1>5 DEF last

\* The batches of a scheduled range are batches of the request.
LEMMA BatchesOfScheduled ==
    ASSUME NEW r, NEW next, Scheduled(r, next)
    PROVE  BatchesOf(r) \subseteq AllBatches /\ r.to \in Nat /\ r.to <= ToBlock /\ r # Nil
<1>1. /\ r \in [from: Nat, to: Nat] /\ r.from \in Nat /\ r.to \in Nat
      /\ FromBlock <= r.from /\ r.to \in RangeEnds
  BY DEF Scheduled
<1>2. r.to \in AllBatches /\ r.to <= ToBlock
  BY <1>1, BatchTypes DEF AllBatches
<1>3. ASSUME NEW b \in LogBlocks, r.from <= b, b <= r.to PROVE b \in AllBatches
  BY <1>1, <1>2, <1>3, BatchTypes, ReprocessAssumption DEF AllBatches
<1> QED
  BY <1>1, <1>2, <1>3, NilAssumption DEF BatchesOf

-----------------------------------------------------------------------------
(* The invariant is inductive *)

\* The scheduler goes from the start of a range to that of the next one.
LEMMA Schedules ==
    ASSUME Inv, ScheduleRange
    PROVE  \E last \in Nat :
             /\ nextBlock <= last /\ last <= ToBlock /\ last \in RangeEnds
             /\ \A b \in RangeEnds : nextBlock <= b /\ b <= last => b = last
             /\ nextBlock' = last + 1
             /\ schedulerPc' = IF last = ToBlock THEN "nil" ELSE "ranges"
             /\ last # ToBlock =>
                  \E k \in Nat : last + 1 = FromBlock + k * MaxBlockRangeSize
             /\ blocksRangeChan' = Append(blocksRangeChan, [from |-> nextBlock, to |-> last])
<1>1. PICK k \in Nat : nextBlock = FromBlock + k * MaxBlockRangeSize
  BY DEF Inv, AtRange, ScheduleRange
<1>2. nextBlock \in Nat /\ FromBlock <= nextBlock /\ nextBlock <= ToBlock
  BY BatchTypes DEF Inv, TypeOK, AtRange, ScheduleRange
<1> DEFINE last == Lower(nextBlock + MaxBlockRangeSize - 1, ToBlock)
<1>3. /\ last \in Nat /\ nextBlock <= last /\ last <= ToBlock /\ last \in RangeEnds
      /\ \A b \in RangeEnds : nextBlock <= b /\ b <= last => b = last
      /\ last # ToBlock => last + 1 = FromBlock + (k + 1) * MaxBlockRangeSize
  BY <1>1, <1>2, NextRange
<1>4. /\ nextBlock' = last + 1
      /\ schedulerPc' = IF last = ToBlock THEN "nil" ELSE "ranges"
      /\ blocksRangeChan' = Append(blocksRangeChan, [from |-> nextBlock, to |-> last])
  BY DEF ScheduleRange, AfterRanges
<1> HIDE DEF last
<1>5. k + 1 \in Nat
  OBVIOUS
<1> QED
  BY <1>3, <1>4, <1>5

\* A scheduled range stays behind the scheduler.
LEMMA ScheduledStays ==
    ASSUME NEW m \in Nat, NEW n \in Nat, m <= n, NEW r, Scheduled(r, m)
    PROVE  Scheduled(r, n)
BY DEF Scheduled

\* A longer channel has the ranges of the shorter one.
LEMMA InRangesGrows ==
    ASSUME NEW b, NEW S, NEW chan \in Seq(S), NEW e \in S, InRanges(b, chan)
    PROVE  InRanges(b, Append(chan, e))
<1>1. PICK i \in 1..Len(chan) : chan[i] # Nil /\ b \in BatchesOf(chan[i])
  BY DEF InRanges
<1>2. i \in 1..Len(Append(chan, e)) /\ Append(chan, e)[i] = chan[i]
  BY Send
<1> QED
  BY <1>1, <1>2 DEF InRanges

\* The scheduler sends the ranges one by one, then nil elements.
LEMMA SchedulerStep ==
    ASSUME Inv, ~Ended, Scheduler
    PROVE  Inv'
<1> USE BatchTypes
<1>1. /\ nextBlock \in Nat /\ blocksRangeChan \in Seq([from: Nat, to: Nat] \cup {Nil})
      /\ Len(blocksRangeChan) \in Nat
  BY DEF Inv, TypeOK, Channels
<1>2. CASE ScheduleRange
  <2>1. PICK last \in Nat :
          /\ nextBlock <= last /\ last <= ToBlock /\ last \in RangeEnds
          /\ \A b \in RangeEnds : nextBlock <= b /\ b <= last => b = last
          /\ nextBlock' = last + 1
          /\ schedulerPc' = IF last = ToBlock THEN "nil" ELSE "ranges"
          /\ last # ToBlock =>
               \E k \in Nat : last + 1 = FromBlock + k * MaxBlockRangeSize
          /\ blocksRangeChan' = Append(blocksRangeChan, [from |-> nextBlock, to |-> last])
    BY <1>2, Schedules
  <2>2. /\ HasRoom(blocksRangeChan, BlockRangesChanCap)
        /\ UNCHANGED <<cursorVars, sharedVars, logsChan, mainVars, fetcherVars, processorVars,
                       ctxDone>>
    BY <1>2 DEF ScheduleRange
  <2> DEFINE r == [from |-> nextBlock, to |-> last]
             n == Len(blocksRangeChan)
  <2>3. r \in [from: Nat, to: Nat] /\ r \in [from: Nat, to: Nat] \cup {Nil}
    BY <1>1
  <2>4. /\ blocksRangeChan' \in Seq([from: Nat, to: Nat] \cup {Nil})
        /\ Len(blocksRangeChan') = n + 1 /\ blocksRangeChan'[n + 1] = r
        /\ \A i \in 1..n : blocksRangeChan'[i] = blocksRangeChan[i]
    BY <1>1, <2>1, <2>3, Send
  <2>5. Scheduled(r, last + 1)
    <3>1. FromBlock <= nextBlock
      BY DEF Inv, TypeOK
    <3> QED
      BY <1>1, <2>1, <2>3, <3>1 DEF Scheduled
  <2>6. \A q : Scheduled(q, nextBlock) => Scheduled(q, last + 1)
    BY <1>1, <2>1, ScheduledStays
  <2>7. TypeOK'
    <3>1. nextBlock' \in FromBlock..(ToBlock + 1)
      BY <1>1, <2>1 DEF Inv, TypeOK
    <3>2. Len(blocksRangeChan') <= BlockRangesChanCap
      BY <1>1, <2>2, <2>4, ReprocessAssumption DEF HasRoom
    <3> QED
      BY <2>1, <2>2, <3>1, <3>2 DEF Inv, TypeOK, cursorVars, sharedVars, mainVars,
            fetcherVars, processorVars
  <2>8. AtRange'
    BY <1>1, <2>1, <2>2 DEF AtRange, mainVars
  <2>9. Channels'
    <3>1. ASSUME NEW i \in 1..(n + 1), blocksRangeChan'[i] # Nil
          PROVE  Scheduled(blocksRangeChan'[i], last + 1)
      BY <1>1, <2>4, <2>5, <2>6, <3>1 DEF Inv, Channels
    <3> QED
      BY <2>1, <2>2, <2>4, <3>1 DEF Inv, Channels
  <2>10. AtWork' /\ BehindCursor' /\ EndsWithNil'
    BY <2>1, <2>2, <2>6 DEF Inv, AtWork, BehindCursor, EndsWithNil, cursorVars, sharedVars,
          mainVars, fetcherVars, processorVars
  <2>11. NoneLost'
    <3>1. SUFFICES ASSUME ~ctxDone, NEW b \in AllBatches, b < last + 1
                   PROVE  (Submitted(b) \/ Fetching(b))' \/ InRanges(b, blocksRangeChan')
      BY <2>1, <2>2 DEF NoneLost, InRanges, BatchesOf
    <3>2. CASE b < nextBlock
      <4>1. Submitted(b) \/ Fetching(b) \/ InRanges(b, blocksRangeChan)
        BY <3>1, <3>2 DEF Inv, NoneLost
      <4>2. InRanges(b, blocksRangeChan) => InRanges(b, blocksRangeChan')
        BY <1>1, <2>1, <2>3, InRangesGrows
      <4> QED
        BY <2>2, <4>1, <4>2 DEF Submitted, Fetching, fetcherVars, processorVars
    <3>3. CASE nextBlock <= b
      <4>1. b \in Nat /\ b <= last
        BY <2>1, <3>1
      <4>2. b \in BatchesOf(r)
        BY <2>1, <3>3, <4>1 DEF AllBatches, BatchesOf
      <4>3. n + 1 \in 1..Len(blocksRangeChan')
        BY <1>1, <2>4
      <4>4. r # Nil
        BY <2>3, NilAssumption
      <4> QED
        BY <2>4, <4>2, <4>3, <4>4 DEF InRanges
    <3> QED
      BY <1>1, <3>2, <3>3
  <2> QED
    BY <2>7, <2>8, <2>9, <2>10, <2>11 DEF Inv
<1>3. CASE ScheduleNil
  <2>1. /\ blocksRangeChan' = Append(blocksRangeChan, Nil) /\ schedulerPc' = "stopped"
        /\ schedulerPc = "nil" /\ HasRoom(blocksRangeChan, BlockRangesChanCap)
        /\ UNCHANGED <<cursorVars, sharedVars, logsChan, mainVars, nextBlock, fetcherVars,
                       processorVars, ctxDone>>
    BY <1>3 DEF ScheduleNil
  <2> DEFINE n == Len(blocksRangeChan)
  <2>2. /\ blocksRangeChan' \in Seq([from: Nat, to: Nat] \cup {Nil})
        /\ Len(blocksRangeChan') = n + 1 /\ blocksRangeChan'[n + 1] = Nil
        /\ \A i \in 1..n : blocksRangeChan'[i] = blocksRangeChan[i]
    BY <1>1, <2>1, Send
  <2>3. TypeOK'
    <3>1. Len(blocksRangeChan') <= BlockRangesChanCap
      BY <1>1, <2>1, <2>2, ReprocessAssumption DEF HasRoom
    <3> QED
      BY <2>1, <3>1 DEF Inv, TypeOK, cursorVars, sharedVars, mainVars, fetcherVars,
            processorVars
  <2>4. Channels'
    <3>1. ASSUME NEW i \in 1..(n + 1), blocksRangeChan'[i] # Nil
          PROVE  Scheduled(blocksRangeChan'[i], nextBlock)
      BY <1>1, <2>1, <2>2, <3>1 DEF Inv, Channels
    <3> QED
      BY <2>1, <2>2, <3>1 DEF Inv, Channels
  <2>5. AtRange' /\ AtWork' /\ BehindCursor'
    BY <2>1 DEF Inv, AtRange, AtWork, BehindCursor, Scheduled, Ended, cursorVars, sharedVars,
          mainVars, fetcherVars, processorVars
  <2>6. NoneLost'
    <3>1. \A b : InRanges(b, blocksRangeChan) => InRanges(b, blocksRangeChan')
      BY <1>1, <2>1, InRangesGrows
    <3> QED
      BY <2>1, <3>1 DEF Inv, NoneLost, Submitted, Fetching, fetcherVars, processorVars, InRanges, BatchesOf
  <2>7. EndsWithNil'
    BY <1>1, <2>2 DEF EndsWithNil
  <2> QED
    BY <2>3, <2>4, <2>5, <2>6, <2>7 DEF Inv
<1>4. CASE SchedulerCancelled
  <2>1. /\ ctxDone /\ ctxDone' /\ schedulerPc' = "stopped"
        /\ UNCHANGED <<cursorVars, sharedVars, chans, mainVars, nextBlock, fetcherVars,
                       processorVars>>
    BY <1>4 DEF SchedulerCancelled
  <2> QED
    BY <2>1 DEF Inv, TypeOK, AtRange, Channels, AtWork, BehindCursor, NoneLost, EndsWithNil,
          Scheduled, cursorVars, sharedVars, chans, mainVars, fetcherVars, processorVars
<1> QED
  BY <1>2, <1>3, <1>4 DEF Scheduler

TypeOfShared ==
    row \in [fetched: Nat, processed: Nat] /\ indexed \in [fetched: Nat, processed: Nat]

\* The early returns let no block through that is not the one the copy has.
LEMMA CopyStays ==
    ASSUME Inv, ~Ended, NEW block \in Nat, block <= ToBlock,
           RecordFetched(block) \/ RecordProcessed(block)
    PROVE  /\ UNCHANGED <<fetched, processed, indexed>>
           /\ row' # row => ToBlock = processed /\ row' = Copy
<1>1. /\ ToBlock \in Nat /\ fetched \in Nat /\ processed \in Nat
      /\ ToBlock <= processed /\ processed <= fetched
  BY BatchTypes DEF Inv, TypeOK, BehindCursor, Ended
<1>2. /\ Records(block, fetched) => block = fetched /\ ToBlock = processed
      /\ Records(block, processed) => block = processed /\ ToBlock = processed
  BY <1>1 DEF Records
<1>3. UNCHANGED <<fetched, processed, indexed>>
  BY <1>2 DEF RecordFetched, RecordProcessed
<1>4. Copy' = Copy
  BY <1>3 DEF Copy
<1> QED
  BY <1>2, <1>3, <1>4 DEF RecordFetched, RecordProcessed

\* What is stored is a row.
LEMMA RowType ==
    ASSUME Inv, indexed' = indexed, row' # row => row' = Copy
    PROVE  TypeOfShared'
BY DEF Inv, TypeOK, TypeOfShared, Copy

\* The fetcher turns a range into batches, and passes a nil element on.
LEMMA FetcherStep ==
    ASSUME Inv, ~Ended, LogsFetcher
    PROVE  Inv'
<1> USE BatchTypes
<1> DEFINE Chan == [from: Nat, to: Nat] \cup {Nil}
           n == Len(blocksRangeChan)
<1>1. /\ blocksRangeChan \in Seq(Chan) /\ n \in Nat
      /\ logsChan \in Seq(AllBatches \cup {Nil}) /\ Len(logsChan) \in Nat
      /\ fetched \in Nat /\ processed \in Nat
  BY DEF Inv, TypeOK, Channels
<1> HIDE DEF Chan
<1>2. CASE TakeRange
  <2>1. /\ fetcherPc = "take" /\ blocksRangeChan # <<>>
        /\ blocksRangeChan' = Tail(blocksRangeChan)
        /\ IF Head(blocksRangeChan) = Nil
           THEN UNCHANGED <<fetcherPc, current>>
           ELSE fetcherPc' = "fetch" /\ current' = Head(blocksRangeChan)
        /\ UNCHANGED <<cursorVars, sharedVars, logsChan, mainVars, schedulerVars, pending,
                       processorVars, ctxDone>>
    BY <1>2 DEF TakeRange
  <2>2. /\ Head(blocksRangeChan) = blocksRangeChan[1] /\ blocksRangeChan' \in Seq(Chan)
        /\ n \in Nat \ {0} /\ Len(blocksRangeChan') = n - 1
        /\ \A i \in 1..(n - 1) : i + 1 \in 1..n /\ blocksRangeChan'[i] = blocksRangeChan[i + 1]
        /\ \A i \in 1..n : i # 1 =>
             i - 1 \in 1..(n - 1) /\ blocksRangeChan'[i - 1] = blocksRangeChan[i]
    BY <1>1, <2>1, Receive
  <2>3. blocksRangeChan[1] # Nil => Scheduled(blocksRangeChan[1], nextBlock)
    BY <2>2 DEF Inv, Channels
  <2>4. pending = {}
    BY <2>1 DEF Inv, AtWork
  <2>5. TypeOK'
    BY <1>1, <2>1, <2>2, <2>4, ReprocessAssumption
       DEF Inv, TypeOK, cursorVars, sharedVars, mainVars, schedulerVars, processorVars
  <2>6. Channels'
    <3>1. \A i \in 1..(n - 1) : blocksRangeChan'[i] # Nil =>
             Scheduled(blocksRangeChan'[i], nextBlock)
      BY <2>2 DEF Inv, Channels
    <3> QED
      BY <2>1, <2>2, <3>1 DEF Inv, Channels, schedulerVars, Chan
  <2>7. AtRange' /\ AtWork' /\ BehindCursor'
    BY <2>1, <2>2, <2>3, <2>4 DEF Inv, AtRange, AtWork, BehindCursor, Ended, cursorVars,
          sharedVars, mainVars, schedulerVars, processorVars
  <2>8. NoneLost'
    <3>1. SUFFICES ASSUME ~ctxDone, NEW b \in AllBatches, b < nextBlock
                   PROVE  Submitted(b)' \/ Fetching(b)' \/ InRanges(b, blocksRangeChan')
      BY <2>1 DEF NoneLost, InRanges, BatchesOf, schedulerVars
    <3>2. Submitted(b) \/ InRanges(b, blocksRangeChan)
      BY <2>1, <2>4, <3>1 DEF Inv, NoneLost, Fetching
    <3>3. CASE Submitted(b)
      BY <2>1, <3>3 DEF Submitted, processorVars
    <3>4. ASSUME NEW i \in 1..n, blocksRangeChan[i] # Nil, b \in BatchesOf(blocksRangeChan[i])
          PROVE  Fetching(b)' \/ InRanges(b, blocksRangeChan')
      <4>1. CASE i = 1
        BY <2>1, <2>2, <3>4, <4>1 DEF Fetching, BatchesOf
      <4>2. CASE i # 1
        BY <2>2, <3>4, <4>2 DEF InRanges
      <4> QED
        BY <4>1, <4>2
    <3> QED
      BY <3>2, <3>3, <3>4 DEF InRanges
  <2>9. EndsWithNil'
    <3>1. SUFFICES ASSUME schedulerPc = "stopped", ~ctxDone
                   PROVE  IF blocksRangeChan' = <<>> THEN fetcherPc' = "take"
                          ELSE blocksRangeChan'[n - 1] = Nil
      BY <2>1, <2>2 DEF EndsWithNil, schedulerVars
    <3>2. blocksRangeChan[n] = Nil
      BY <2>1, <3>1 DEF Inv, EndsWithNil
    <3>3. CASE blocksRangeChan' = <<>>
      <4>1. n = 1
        BY <2>2, <3>3
      <4> QED
        BY <2>1, <2>2, <3>2, <3>3, <4>1
    <3>4. CASE blocksRangeChan' # <<>>
      <4>1. n - 1 # 0
        BY <2>2, <3>4
      <4>2. n - 1 \in 1..(n - 1) /\ (n - 1) + 1 = n
        BY <2>2, <4>1
      <4>3. blocksRangeChan'[n - 1] = blocksRangeChan[n]
        BY <2>2, <4>2
      <4> QED
        BY <3>2, <3>4, <4>3
    <3> QED
      BY <3>3, <3>4
  <2> QED
    BY <2>5, <2>6, <2>7, <2>8, <2>9 DEF Inv
<1>3. CASE FetchRange
  <2>1. /\ ~ctxDone /\ fetcherPc = "fetch" /\ fetcherPc' = "submit"
        /\ RecordFetched(current.to) /\ pending' = BatchesOf(current)
        /\ UNCHANGED <<chans, mainVars, schedulerVars, current, processorVars, ctxDone>>
    BY <1>3 DEF FetchRange
  <2>2. Scheduled(current, nextBlock)
    BY <2>1 DEF Inv, AtWork
  <2>3. current.to \in Nat /\ current.to <= ToBlock
    BY <2>2, BatchesOfScheduled
  <2>4. UNCHANGED <<fetched, processed>> /\ TypeOfShared'
    BY <2>1, <2>3, CopyStays, RowType
  <2>5. TypeOK'
    BY <2>1, <2>4 DEF Inv, TypeOfShared, TypeOK, chans, mainVars, schedulerVars, processorVars, BatchesOf
  <2>6. AtRange' /\ Channels' /\ AtWork' /\ BehindCursor'
    BY <2>1, <2>2, <2>4 DEF Inv, AtRange, Channels, AtWork, BehindCursor, Ended, chans,
          mainVars, schedulerVars, processorVars
  <2>7. NoneLost'
    <3>1. SUFFICES ASSUME NEW b \in AllBatches, b < nextBlock
                   PROVE  Submitted(b)' \/ Fetching(b)' \/ InRanges(b, blocksRangeChan')
      BY <2>1 DEF NoneLost, InRanges, BatchesOf, schedulerVars
    <3>2. Submitted(b) \/ Fetching(b) \/ InRanges(b, blocksRangeChan)
      BY <2>1, <3>1 DEF Inv, NoneLost
    <3>3. Fetching(b) => Fetching(b)'
      BY <2>1 DEF Inv, AtWork, Fetching
    <3> QED
      BY <2>1, <3>2, <3>3 DEF Submitted, chans, processorVars
  <2>8. EndsWithNil'
    BY <2>1 DEF Inv, EndsWithNil, Ended, chans, mainVars, schedulerVars
  <2> QED
    BY <2>5, <2>6, <2>7, <2>8 DEF Inv
<1>4. CASE SubmitBatch
  <2>1. /\ fetcherPc = "submit" /\ HasRoom(logsChan, LogsChanCap)
        /\ IF pending' = {}
           THEN fetcherPc' = "take" /\ current' = NoRange
           ELSE UNCHANGED <<fetcherPc, current>>
        /\ UNCHANGED <<cursorVars, sharedVars, blocksRangeChan, mainVars, schedulerVars,
                       processorVars, ctxDone>>
    BY <1>4 DEF SubmitBatch
  <2>2. PICK c \in pending : logsChan' = Append(logsChan, c) /\ pending' = pending \ {c}
    BY <1>4 DEF SubmitBatch
  <2>3. c \in AllBatches \cup {Nil} /\ Scheduled(current, nextBlock)
    BY <2>1, BatchesOfScheduled DEF Inv, TypeOK, AtWork
  <2>4. /\ logsChan' \in Seq(AllBatches \cup {Nil})
        /\ Len(logsChan') = Len(logsChan) + 1 /\ logsChan'[Len(logsChan) + 1] = c
        /\ \A i \in 1..Len(logsChan) : logsChan'[i] = logsChan[i]
    BY <1>1, <2>2, <2>3, Send
  <2>5. TypeOK'
    <3>1. Len(logsChan') <= LogsChanCap
      BY <1>1, <2>1, <2>4, ReprocessAssumption DEF HasRoom
    <3>2. pending' \subseteq BatchesOf(current)' /\ fetcherPc' \in {"take", "submit"}
      BY <2>1, <2>2 DEF Inv, TypeOK, BatchesOf
    <3> QED
      BY <2>1, <3>1, <3>2 DEF Inv, TypeOK, cursorVars, sharedVars, mainVars, schedulerVars,
            processorVars
  <2>6. AtRange' /\ Channels' /\ BehindCursor'
    BY <2>1, <2>4 DEF Inv, AtRange, Channels, BehindCursor, Ended, cursorVars, sharedVars,
          mainVars, schedulerVars
  <2>7. AtWork'
    BY <2>1, <2>3 DEF Inv, AtWork, schedulerVars, processorVars
  <2>8. NoneLost'
    <3>1. SUFFICES ASSUME ~ctxDone, NEW b \in AllBatches, b < nextBlock
                   PROVE  Submitted(b)' \/ Fetching(b)' \/ InRanges(b, blocksRangeChan')
      BY <2>1 DEF NoneLost, InRanges, BatchesOf, schedulerVars
    <3>2. Submitted(b) \/ b \in pending \/ InRanges(b, blocksRangeChan)
      BY <2>1, <3>1 DEF Inv, NoneLost, Fetching
    <3>3. Submitted(b) => Submitted(b)'
      <4>1. \A i \in 1..Len(logsChan) : i \in 1..Len(logsChan')
        BY <1>1, <2>4
      <4> QED
        BY <2>1, <2>4, <4>1 DEF Submitted, processorVars
    <3>4. b = c => Submitted(b)'
      <4>1. Len(logsChan) + 1 \in 1..Len(logsChan')
        BY <1>1, <2>4
      <4> QED
        BY <2>4, <4>1 DEF Submitted
    <3> QED
      BY <2>1, <2>2, <3>2, <3>3, <3>4 DEF Fetching
  <2>9. EndsWithNil'
    BY <2>1 DEF Inv, EndsWithNil, Ended, mainVars, schedulerVars
  <2> QED
    BY <2>5, <2>6, <2>7, <2>8, <2>9 DEF Inv
<1>5. CASE FetcherCancelled
  <2>1. /\ ctxDone /\ ctxDone' /\ fetcherPc \in {"take", "fetch"} /\ fetcherPc' = "stopped"
        /\ UNCHANGED <<cursorVars, sharedVars, chans, mainVars, schedulerVars, current,
                       pending, processorVars>>
    BY <1>5 DEF FetcherCancelled
  <2> QED
    BY <2>1 DEF Inv, TypeOK, BatchesOf, AtRange, Channels, AtWork, BehindCursor, NoneLost,
          EndsWithNil, cursorVars, sharedVars, chans, mainVars, schedulerVars, processorVars
<1> QED
  BY <1>2, <1>3, <1>4, <1>5 DEF LogsFetcher

\* The processor takes a batch and records its block, which is not beyond the cursor.
LEMMA ProcessorStep ==
    ASSUME Inv, ~Ended, LogsProcessor
    PROVE  Inv'
<1> USE BatchTypes
<1>1. /\ logsChan \in Seq(AllBatches \cup {Nil}) /\ Len(logsChan) \in Nat
      /\ fetched \in Nat /\ processed \in Nat
  BY DEF Inv, TypeOK, Channels
<1>2. ASSUME UNCHANGED <<cursorVars, blocksRangeChan, mainVars, schedulerVars, fetcherVars>>,
             ctxDone' = ctxDone, processorPc' = "work" => batch' \in AllBatches
      PROVE  AtRange' /\ AtWork' /\ BehindCursor' /\ EndsWithNil'
  BY <1>2 DEF Inv, AtRange, AtWork, BehindCursor, EndsWithNil, Ended, cursorVars, sharedVars,
        mainVars, schedulerVars, fetcherVars
<1>3. ASSUME UNCHANGED <<blocksRangeChan, schedulerVars, fetcherVars, ctxDone>>,
             \A b \in AllBatches : ~ctxDone /\ Submitted(b) => Submitted(b)'
      PROVE  NoneLost'
  <2>1. SUFFICES ASSUME ~ctxDone, NEW b \in AllBatches, b < nextBlock
                 PROVE  Submitted(b)' \/ Fetching(b)' \/ InRanges(b, blocksRangeChan')
    BY <1>3 DEF NoneLost, InRanges, BatchesOf, schedulerVars
  <2>2. Submitted(b) \/ Fetching(b) \/ InRanges(b, blocksRangeChan)
    BY <2>1 DEF Inv, NoneLost
  <2> QED
    BY <1>3, <2>1, <2>2 DEF Fetching, fetcherVars
<1>4. CASE TakeBatch
  <2>1. /\ processorPc = "take" /\ logsChan # <<>> /\ logsChan' = Tail(logsChan)
        /\ IF Head(logsChan) = Nil
           THEN processorPc' = "take" /\ batch' = batch
           ELSE processorPc' = "work" /\ batch' = Head(logsChan)
        /\ UNCHANGED <<cursorVars, sharedVars, blocksRangeChan, mainVars, schedulerVars,
                       fetcherVars, done, ctxDone>>
    BY <1>4 DEF TakeBatch, AfterNil
  <2>2. /\ Head(logsChan) = logsChan[1] /\ Head(logsChan) \in AllBatches \cup {Nil}
        /\ logsChan' \in Seq(AllBatches \cup {Nil})
        /\ Len(logsChan') = Len(logsChan) - 1
        /\ \A i \in 1..Len(logsChan) : i # 1 =>
             i - 1 \in 1..Len(logsChan') /\ logsChan'[i - 1] = logsChan[i]
    BY <1>1, <2>1, Receive
  <2>3. TypeOK'
    BY <1>1, <2>1, <2>2, ReprocessAssumption
       DEF Inv, TypeOK, BatchesOf, cursorVars, sharedVars, mainVars, schedulerVars,
             fetcherVars
  <2>4. Channels'
    BY <2>1, <2>2 DEF Inv, Channels, schedulerVars
  <2>5. ASSUME NEW b \in AllBatches, Submitted(b) PROVE Submitted(b)'
    <3>1. b # Nil
      BY BatchTypes
    <3>2. CASE b \in done
      BY <2>1, <3>2 DEF Submitted
    <3>3. ASSUME NEW i \in 1..Len(logsChan), logsChan[i] = b PROVE Submitted(b)'
      <4>1. CASE i = 1
        BY <2>1, <2>2, <3>1, <3>3, <4>1 DEF Submitted
      <4>2. CASE i # 1
        BY <2>2, <3>3, <4>2 DEF Submitted
      <4> QED
        BY <4>1, <4>2
    <3> QED
      BY <2>1, <2>5, <3>2, <3>3 DEF Submitted
  <2> QED
    BY <1>2, <1>3, <2>1, <2>2, <2>3, <2>4, <2>5 DEF Inv
<1>5. CASE ProcessBatch \/ DropBatch
  <2>1. /\ processorPc = "work" /\ processorPc' = "take"
        /\ IF ctxDone THEN done' = done ELSE done' = done \cup {batch}
        /\ IF ctxDone
           THEN /\ processed' = IF Records(batch, processed) THEN batch ELSE processed
                /\ UNCHANGED <<fetched, sharedVars>>
           ELSE RecordProcessed(batch)
        /\ UNCHANGED <<chans, mainVars, schedulerVars, fetcherVars, batch, ctxDone>>
    BY <1>5 DEF ProcessBatch, DropBatch
  <2>2. batch \in AllBatches /\ batch \in Nat /\ batch <= ToBlock
    BY <2>1 DEF Inv, AtWork
  <2>3. UNCHANGED <<fetched, processed>> /\ TypeOfShared'
    <3>1. CASE ctxDone
      BY <1>1, <2>1, <2>2, <3>1 DEF Inv, TypeOK, TypeOfShared, BehindCursor, Ended, Records,
            sharedVars
    <3> QED
      BY <2>1, <2>2, <3>1, CopyStays, RowType
  <2>4. TypeOK' /\ Channels'
    BY <2>1, <2>2, <2>3 DEF Inv, TypeOfShared, TypeOK, Channels, BatchesOf, chans, mainVars,
          schedulerVars, fetcherVars
  <2>5. \A b \in AllBatches : ~ctxDone /\ Submitted(b) => Submitted(b)'
    BY <2>1 DEF Submitted, chans
  <2> QED
    BY <1>2, <1>3, <2>1, <2>3, <2>4, <2>5 DEF Inv, cursorVars, sharedVars, chans
<1>6. CASE ProcessorCancelled
  <2>1. /\ ctxDone /\ ctxDone' /\ processorPc' = "stopped"
        /\ UNCHANGED <<cursorVars, sharedVars, chans, mainVars, schedulerVars, fetcherVars,
                       batch, done>>
    BY <1>6 DEF ProcessorCancelled
  <2>2. TypeOK' /\ Channels' /\ NoneLost'
    BY <2>1 DEF Inv, TypeOK, Channels, NoneLost, BatchesOf, cursorVars, sharedVars, chans,
          mainVars, schedulerVars, fetcherVars
  <2> QED
    BY <1>2, <2>1, <2>2, <1>6 DEF Inv, chans, ProcessorCancelled
<1> QED
  BY <1>4, <1>5, <1>6 DEF LogsProcessor

\* The caller looks at the channels and sends a nil element to one of them; the
\* context may be cancelled at any time.
LEMMA MainStep ==
    ASSUME Inv, ~Ended, Main \/ Cancel
    PROVE  Inv'
<1> USE BatchTypes
<1>1. /\ UNCHANGED <<cursorVars, sharedVars, blocksRangeChan, schedulerVars, fetcherVars,
                     processorVars>>
      /\ ctxDone => ctxDone'
      /\ mainPc' \in {"check", "stub", "sleep", "returned", "cancelled"}
      /\ finishedFetching' \in BOOLEAN /\ ctxDone' \in BOOLEAN
  BY DEF Main, SeeNoRanges, SubmitStub, SeeNoBatches, Sleep, WakeUp, Cancel, chans, mainVars,
        Inv, TypeOK, Ended
<1>2. \/ logsChan' = logsChan
      \/ logsChan' = Append(logsChan, Nil) /\ HasRoom(logsChan, LogsChanCap)
  BY DEF Main, SeeNoRanges, SubmitStub, SeeNoBatches, Sleep, WakeUp, Cancel, chans
<1>3. logsChan \in Seq(AllBatches \cup {Nil}) /\ Len(logsChan) \in Nat
  BY DEF Inv, Channels
<1>4. /\ logsChan' \in Seq(AllBatches \cup {Nil}) /\ Len(logsChan') <= LogsChanCap
      /\ \A i \in 1..Len(logsChan) : i \in 1..Len(logsChan') /\ logsChan'[i] = logsChan[i]
  <2>1. CASE logsChan' = logsChan
    BY <1>3, <2>1 DEF Inv, TypeOK
  <2>2. CASE logsChan' = Append(logsChan, Nil) /\ HasRoom(logsChan, LogsChanCap)
    <3>1. /\ logsChan' \in Seq(AllBatches \cup {Nil})
          /\ Len(logsChan') = Len(logsChan) + 1
          /\ \A i \in 1..Len(logsChan) : logsChan'[i] = logsChan[i]
      BY <1>3, <2>2, Send
    <3> QED
      BY <1>3, <2>2, <3>1, ReprocessAssumption DEF HasRoom
  <2> QED
    BY <1>2, <2>1, <2>2
<1>5. TypeOK'
  BY <1>1, <1>4 DEF Inv, TypeOK, BatchesOf, cursorVars, sharedVars, schedulerVars,
        fetcherVars, processorVars
<1>6. AtRange' /\ Channels' /\ AtWork' /\ BehindCursor' /\ EndsWithNil'
  BY <1>1, <1>4 DEF Inv, AtRange, Channels, AtWork, BehindCursor, EndsWithNil, Ended,
        cursorVars, sharedVars, schedulerVars, fetcherVars, processorVars
<1>7. NoneLost'
  <2>1. SUFFICES ASSUME ~ctxDone', NEW b \in AllBatches, b < nextBlock
                 PROVE  Submitted(b)' \/ Fetching(b)' \/ InRanges(b, blocksRangeChan')
    BY <1>1 DEF NoneLost, InRanges, BatchesOf, schedulerVars
  <2>2. Submitted(b) \/ Fetching(b) \/ InRanges(b, blocksRangeChan)
    BY <1>1, <2>1 DEF Inv, NoneLost
  <2> QED
    BY <1>1, <1>4, <2>2 DEF Submitted, Fetching, fetcherVars, processorVars
<1> QED
  BY <1>5, <1>6, <1>7 DEF Inv

\* The rest of the program does not depend on the row.
LEMMA OnlyRow ==
    ASSUME Inv, TypeOfShared',
           UNCHANGED <<fetched, processed, chans, mainVars, schedulerVars, fetcherVars,
                       processorVars, ctxDone>>
    PROVE  Inv'
BY DEF Inv, TypeOfShared, TypeOK, BatchesOf, AtRange, Channels, AtWork, BehindCursor, NoneLost,
      Submitted, Fetching, InRanges, EndsWithNil, Ended, chans, mainVars, schedulerVars,
      fetcherVars, processorVars

\* A block that is stored is one of the request.
LEMMA Unanswered ==
    ASSUME Inv, StoreUnanswered
    PROVE  \E block \in Nat :
             block <= ToBlock /\ (RecordFetched(block) \/ RecordProcessed(block))
<1>1. CASE fetcherPc = "fetch" /\ RecordFetched(current.to)
  BY <1>1, BatchesOfScheduled DEF Inv, AtWork
<1>2. CASE processorPc = "work" /\ RecordProcessed(batch)
  BY <1>2, BatchTypes DEF Inv, AtWork
<1> QED
  BY <1>1, <1>2 DEF StoreUnanswered

\* A write without an answer leaves everything but the row.
LEMMA UnansweredStep ==
    ASSUME Inv, ~Ended, StoreUnanswered
    PROVE  Inv'
<1>1. UNCHANGED <<chans, mainVars, schedulerVars, fetcherVars, processorVars, ctxDone>>
  BY DEF StoreUnanswered
<1>2. PICK block \in Nat :
        block <= ToBlock /\ (RecordFetched(block) \/ RecordProcessed(block))
  BY Unanswered
<1>3. UNCHANGED <<fetched, processed>> /\ TypeOfShared'
  BY <1>2, CopyStays, RowType
<1> QED
  BY <1>1, <1>3, OnlyRow

\* The monitor does not touch the program.
LEMMA MonitorStep ==
    ASSUME Inv, MonitorStores
    PROVE  Inv'
<1>1. TypeOfShared'
  BY ReprocessAssumption DEF MonitorStores, TypeOfShared
<1> QED
  BY <1>1, OnlyRow DEF MonitorStores, programVars, cursorVars

\* The program starts with empty channels, and with a request it may refuse.
LEMMA InitInv == Init => Inv
<1> SUFFICES ASSUME Init PROVE Inv
  OBVIOUS
<1> USE BatchTypes
<1>1. /\ processed \in Nat /\ fetched \in Nat /\ processed <= fetched
      /\ TypeOfShared /\ nextBlock = FromBlock /\ FromBlock <= ToBlock
      /\ ctxDone = FALSE /\ logsChan = <<>>
      /\ fetcherPc = "take" /\ current = NoRange /\ pending = {}
      /\ processorPc = "take" /\ batch = 0 /\ done = {} /\ finishedFetching = FALSE
  BY ReprocessAssumption DEF Init, Copy, TypeOfShared
<1>2. \/ /\ mainPc = "refused" /\ schedulerPc = "stopped" /\ blocksRangeChan = <<>>
      \/ /\ mainPc = "check" /\ schedulerPc = "ranges" /\ blocksRangeChan = <<Nil>>
         /\ ~(ToBlock > processed)
  BY DEF Init, Refuses
<1>3. /\ blocksRangeChan \in Seq([from: Nat, to: Nat] \cup {Nil})
      /\ Len(blocksRangeChan) <= 1
      /\ \A i \in 1..Len(blocksRangeChan) : blocksRangeChan[i] = Nil
  <2>1. CASE blocksRangeChan = <<>>
    BY <2>1
  <2>2. CASE blocksRangeChan = <<Nil>>
    BY <2>2
  <2> QED
    BY <1>2, <2>1, <2>2
<1>4. TypeOK
  <2>1. Len(blocksRangeChan) <= BlockRangesChanCap /\ Len(logsChan) <= LogsChanCap
    <3>1. Len(blocksRangeChan) \in Nat /\ Len(logsChan) = 0
      BY <1>1, <1>3
    <3> QED
      BY <1>3, <3>1, ReprocessAssumption
  <2>2. nextBlock \in FromBlock..(ToBlock + 1)
    BY <1>1
  <2> QED
    BY <1>1, <1>2, <2>1, <2>2 DEF TypeOK, TypeOfShared
<1>5. AtRange
  <2>1. nextBlock = FromBlock + 0 * MaxBlockRangeSize
    BY <1>1
  <2> QED
    BY <1>1, <1>2, <2>1 DEF AtRange, Ended
<1>6. Channels /\ AtWork /\ BehindCursor
  BY <1>1, <1>2, <1>3 DEF Channels, AtWork, BehindCursor
<1>7. NoneLost /\ EndsWithNil
  <2>1. \A b \in AllBatches : ~(b < nextBlock)
    BY <1>1
  <2> QED
    BY <1>1, <1>2, <2>1 DEF NoneLost, EndsWithNil, Ended
<1> QED
  BY <1>4, <1>5, <1>6, <1>7 DEF Inv

\* Whatever the four goroutines do, and wherever they are interrupted.
THEOREM Invariance == Spec => []Inv
<1>1. Inv /\ [Next]_vars => Inv'
  <2> SUFFICES ASSUME Inv, [Next]_vars PROVE Inv'
    OBVIOUS
  <2>1. CASE UNCHANGED vars
    BY <2>1 DEF Inv, TypeOK, BatchesOf, AtRange, Channels, AtWork, BehindCursor, NoneLost,
          Submitted, Fetching, InRanges, EndsWithNil, Ended, vars, programVars, cursorVars,
                sharedVars, chans, mainVars, schedulerVars, fetcherVars, processorVars
  <2> QED
    BY <2>1, SchedulerStep, FetcherStep, ProcessorStep, MainStep, UnansweredStep, MonitorStep
       DEF Next, Exited
<1> QED
  BY <1>1, InitInv, PTL DEF Spec

\* Every variable keeps its type.
THEOREM TypeCorrect == Spec => []TypeOK
<1>1. Inv => TypeOK
  BY DEF Inv
<1> QED
  BY <1>1, Invariance, PTL

\* Once the goroutine has scheduled the ranges and the last nil, an empty
\* blocksRangeChan means that every batch of the request was submitted.
THEOREM LastNil == Spec => []LastNilMeansSubmitted
<1>1. Inv => LastNilMeansSubmitted
  <2> SUFFICES ASSUME Inv, schedulerPc = "stopped", ~ctxDone, ~Ended, blocksRangeChan = <<>>,
                      NEW b \in AllBatches
               PROVE  Submitted(b)
    BY DEF LastNilMeansSubmitted, Submitted
  <2>1. fetcherPc = "take" /\ pending = {} /\ nextBlock = ToBlock + 1
    BY DEF Inv, EndsWithNil, AtWork, AtRange
  <2>2. b < nextBlock
    BY <2>1, BatchTypes
  <2>3. ~Fetching(b) /\ ~InRanges(b, blocksRangeChan)
    BY <2>1 DEF Fetching, InRanges
  <2> QED
    BY <2>2, <2>3 DEF Inv, NoneLost
<1> QED
  BY <1>1, Invariance, PTL

\* The program leaves its copy alone, and stores nothing but the copy.
LEMMA WritesRow ==
    ASSUME Inv, Next
    PROVE  \/ MonitorStores
           \/ /\ UNCHANGED <<cursorVars, indexed>>
              /\ row' # row => ToBlock = processed /\ row' = Copy
<1>1. ASSUME NEW block \in Nat, block <= ToBlock, ~Ended,
             RecordFetched(block) \/ RecordProcessed(block)
      PROVE  /\ UNCHANGED <<cursorVars, indexed>>
             /\ row' # row => ToBlock = processed /\ row' = Copy
  BY <1>1, CopyStays DEF cursorVars
<1>2. CASE ~Ended /\ FetchRange
  <2>1. current.to \in Nat /\ current.to <= ToBlock
    BY <1>2, BatchesOfScheduled DEF FetchRange, Inv, AtWork
  <2> QED
    BY <1>1, <1>2, <2>1 DEF FetchRange
<1>3. CASE ~Ended /\ (ProcessBatch \/ DropBatch)
  <2>1. batch \in Nat /\ batch <= ToBlock
    BY <1>3, BatchTypes DEF ProcessBatch, DropBatch, Inv, AtWork
  <2>2. CASE DropBatch
    <3>1. processed' = processed
      BY <1>3, <2>1, <2>2, BatchTypes DEF DropBatch, Records, Inv, TypeOK, BehindCursor, Ended
    <3> QED
      BY <2>2, <3>1 DEF DropBatch, cursorVars, sharedVars
  <2> QED
    BY <1>1, <1>3, <2>1, <2>2 DEF ProcessBatch
<1>4. CASE ~Ended /\ StoreUnanswered
  BY <1>1, <1>4, Unanswered
<1> QED
  BY <1>2, <1>3, <1>4 DEF Next, Exited, vars, programVars, sharedVars, cursorVars, Scheduler,
        ScheduleRange, ScheduleNil, SchedulerCancelled, LogsFetcher, TakeRange, SubmitBatch,
        FetcherCancelled, LogsProcessor, TakeBatch, ProcessorCancelled, Main, SeeNoRanges,
        SubmitStub, SeeNoBatches, Sleep, WakeUp, Cancel

\* A monitor has been where the copy is.
CopyWithinReach == fetched <= indexed.fetched /\ processed <= indexed.processed

\* What the program stores was reached by a monitor before: no copy of the cursor
\* that it stores, however old or late, lets a monitor leave out a block.
THEOREM WithinReach == Spec => []RowWithinReach
<1> DEFINE Reach == RowWithinReach /\ CopyWithinReach
<1>1. Init => Reach
  BY DEF Init, Copy, RowWithinReach, CopyWithinReach
<1>2. Inv /\ Reach /\ [Next]_vars => Reach'
  <2> SUFFICES ASSUME Inv, Reach, [Next]_vars PROVE Reach'
    OBVIOUS
  <2>1. CASE MonitorStores
    <3>1. PICK f, p \in 0..MaxCursor :
            /\ indexed.fetched <= f /\ indexed.processed <= p
            /\ indexed' = [fetched |-> f, processed |-> p]
      BY <2>1 DEF MonitorStores
    <3>2. PICK g, q \in 0..MaxCursor :
            /\ g <= indexed'.fetched /\ q <= indexed'.processed
            /\ row' = [fetched |-> g, processed |-> q]
      BY <2>1 DEF MonitorStores
    <3>3. UNCHANGED <<fetched, processed>>
      BY <2>1 DEF MonitorStores, programVars, cursorVars
    <3>4. CopyWithinReach'
      BY <3>1, <3>3, ReprocessAssumption DEF CopyWithinReach, Inv, TypeOK
    <3> QED
      BY <3>2, <3>4 DEF RowWithinReach
  <2>2. CASE UNCHANGED <<cursorVars, indexed>> /\ (row' # row => row' = Copy)
    BY <2>2 DEF RowWithinReach, CopyWithinReach, Copy, cursorVars
  <2> QED
    BY <2>1, <2>2, WritesRow DEF vars, programVars, sharedVars
<1>3. Reach => RowWithinReach
  OBVIOUS
<1> QED
  BY <1>1, <1>2, <1>3, Invariance, PTL DEF Spec

\* recordFetchedBlockNumber and recordProcessedBlockNumber store the row of the
\* monitor for a request only that ends at the cursor read at the start, and then
\* as it was read, which a monitor has reached: for every request and size, and
\* wherever the program is interrupted.
THEOREM SetBack == Spec => SetBackOnlyAtCursor
<1>1. MonitorStores => UNCHANGED cursorVars
  BY DEF MonitorStores, programVars
<1>2. Inv /\ RowWithinReach' /\ [Next]_vars =>
        [/\ UNCHANGED cursorVars
         /\ row' # row =>
              MonitorStores \/ (ToBlock = processed /\ row' = Copy)
         /\ RowWithinReach']_vars
  BY <1>1, WritesRow
<1> QED
  BY <1>2, Invariance, WithinReach, PTL DEF Spec, SetBackOnlyAtCursor

-----------------------------------------------------------------------------
(* The batches are handled in chain order *)

Taken(c) == c \in done \/ (c = batch /\ processorPc = "work")

OnTheWay(c) == Submitted(c) \/ Fetching(c)

\* What is in logsChan comes after what was taken from it, in order.
LogsInOrder ==
    /\ processorPc = "work" => \A d \in done : d < batch
    /\ \A i \in 1..Len(logsChan) : logsChan[i] # Nil =>
         /\ \A c \in AllBatches : Taken(c) => c < logsChan[i]
         /\ \A j \in 1..Len(logsChan) :
              i < j /\ logsChan[j] # Nil => logsChan[i] < logsChan[j]

\* What is fetched comes after what was submitted, and the ranges that wait after
\* both, in order; the scheduler is beyond all.
RangesInOrder ==
    /\ \A c, b \in AllBatches : Submitted(c) /\ Fetching(b) => c < b
    /\ \A i \in 1..Len(blocksRangeChan) : blocksRangeChan[i] # Nil =>
         /\ \A c \in AllBatches : OnTheWay(c) => c < blocksRangeChan[i].from
         /\ \A j \in 1..Len(blocksRangeChan) :
              i < j /\ blocksRangeChan[j] # Nil =>
                blocksRangeChan[i].to < blocksRangeChan[j].from
    /\ \A c \in AllBatches : OnTheWay(c) => c < nextBlock

\* Of an interrupted program nothing more is asked: it handles nothing.
InOrder == ctxDone \/ (LogsInOrder /\ RangesInOrder)

\* The batches of a range are within it.
LEMMA BatchesWithin ==
    ASSUME NEW r, NEW next, Scheduled(r, next), NEW b \in BatchesOf(r)
    PROVE  b \in AllBatches /\ b \in Nat /\ r.from \in Nat /\ r.to \in Nat
           /\ r.from <= b /\ b <= r.to
<1>1. BatchesOf(r) \subseteq AllBatches /\ r.to \in Nat /\ r.from \in Nat /\ r.from <= r.to
  BY BatchesOfScheduled DEF Scheduled
<1>2. b \in Nat
  BY <1>1, BatchTypes
<1> QED
  BY <1>1, <1>2 DEF BatchesOf

\* The scheduler adds a range after all others.
LEMMA SchedulerOrder ==
    ASSUME Inv, InOrder, ~Ended, Scheduler
    PROVE  InOrder'
<1> USE BatchTypes
<1>1. /\ nextBlock \in Nat /\ blocksRangeChan \in Seq([from: Nat, to: Nat] \cup {Nil})
      /\ Len(blocksRangeChan) \in Nat
  BY DEF Inv, TypeOK, Channels
<1>2. UNCHANGED <<logsChan, fetcherVars, processorVars, ctxDone>>
  BY DEF Scheduler, ScheduleRange, ScheduleNil, SchedulerCancelled, chans
<1>3. CASE ctxDone
  BY <1>2, <1>3 DEF InOrder
<1>4. CASE ~ctxDone
  <2>1. LogsInOrder /\ RangesInOrder
    BY <1>4 DEF InOrder
  <2>2. LogsInOrder'
    BY <1>2, <2>1 DEF LogsInOrder, Taken, processorVars
  <2>3. \A c \in AllBatches : /\ Submitted(c)' <=> Submitted(c)
                              /\ Fetching(c)' <=> Fetching(c)
                              /\ OnTheWay(c)' <=> OnTheWay(c)
    BY <1>2 DEF Submitted, Fetching, OnTheWay, fetcherVars, processorVars, BatchesOf
  <2>4. CASE ScheduleRange
    <3>1. PICK last \in Nat :
            /\ nextBlock <= last /\ nextBlock' = last + 1
            /\ blocksRangeChan' = Append(blocksRangeChan, [from |-> nextBlock, to |-> last])
      BY <2>4, Schedules
    <3> DEFINE r == [from |-> nextBlock, to |-> last]
               n == Len(blocksRangeChan)
    <3>2. r \in [from: Nat, to: Nat] \cup {Nil}
      BY <1>1
    <3>3. /\ Len(blocksRangeChan') = n + 1 /\ blocksRangeChan'[n + 1] = r
          /\ \A i \in 1..n : blocksRangeChan'[i] = blocksRangeChan[i]
      BY <1>1, <3>1, <3>2, Send
    <3>4. \A i \in 1..n : blocksRangeChan[i] # Nil => blocksRangeChan[i].to < nextBlock
      BY DEF Inv, Channels, Scheduled
    <3>5. ASSUME NEW i \in 1..(n + 1), blocksRangeChan'[i] # Nil
          PROVE  /\ \A c \in AllBatches : OnTheWay(c) => c < blocksRangeChan'[i].from
                 /\ \A j \in 1..(n + 1) :
                      i < j /\ blocksRangeChan'[j] # Nil =>
                        blocksRangeChan'[i].to < blocksRangeChan'[j].from
      <4>1. CASE i = n + 1
        BY <1>1, <2>1, <3>3, <4>1 DEF RangesInOrder
      <4>2. CASE i # n + 1
        <5>1. i \in 1..n /\ blocksRangeChan'[i] = blocksRangeChan[i]
          BY <1>1, <3>3, <4>2
        <5>2. ASSUME NEW j \in 1..(n + 1), i < j, blocksRangeChan'[j] # Nil
              PROVE  blocksRangeChan'[i].to < blocksRangeChan'[j].from
          <6>1. CASE j = n + 1
            BY <3>3, <3>4, <3>5, <5>1, <6>1
          <6>2. CASE j # n + 1
            <7>1. j \in 1..n /\ blocksRangeChan'[j] = blocksRangeChan[j]
              BY <1>1, <3>3, <6>2
            <7> QED
              BY <2>1, <3>5, <5>1, <5>2, <7>1 DEF RangesInOrder
          <6> QED
            BY <6>1, <6>2
        <5> QED
          BY <2>1, <3>5, <5>1, <5>2 DEF RangesInOrder
      <4> QED
        BY <4>1, <4>2
    <3>6. \A c \in AllBatches : OnTheWay(c) => c < nextBlock'
      BY <1>1, <2>1, <3>1 DEF RangesInOrder
    <3>7. RangesInOrder'
      BY <2>1, <2>3, <3>3, <3>5, <3>6 DEF RangesInOrder
    <3> QED
      BY <2>2, <3>7 DEF InOrder
  <2>5. CASE ScheduleNil
    <3> DEFINE n == Len(blocksRangeChan)
    <3>1. blocksRangeChan' = Append(blocksRangeChan, Nil) /\ nextBlock' = nextBlock
      BY <2>5 DEF ScheduleNil
    <3>2. /\ Len(blocksRangeChan') = n + 1 /\ blocksRangeChan'[n + 1] = Nil
          /\ \A i \in 1..n : blocksRangeChan'[i] = blocksRangeChan[i]
      BY <1>1, <3>1, Send
    <3>3. \A i \in 1..(n + 1) : blocksRangeChan'[i] # Nil =>
            i \in 1..n /\ blocksRangeChan'[i] = blocksRangeChan[i]
      BY <1>1, <3>2
    <3>4. RangesInOrder'
      BY <2>1, <2>3, <3>1, <3>2, <3>3 DEF RangesInOrder
    <3> QED
      BY <2>2, <3>4 DEF InOrder
  <2>6. CASE SchedulerCancelled
    BY <1>4, <2>6 DEF SchedulerCancelled
  <2> QED
    BY <2>4, <2>5, <2>6 DEF Scheduler
<1> QED
  BY <1>3, <1>4

\* The fetcher takes the first range, and submits its batches from the first one on.
LEMMA FetcherOrder ==
    ASSUME Inv, InOrder, ~Ended, LogsFetcher
    PROVE  InOrder'
<1> USE BatchTypes
<1> DEFINE Chan == [from: Nat, to: Nat] \cup {Nil}
           n == Len(blocksRangeChan)
<1>1. /\ blocksRangeChan \in Seq(Chan) /\ n \in Nat
      /\ logsChan \in Seq(AllBatches \cup {Nil}) /\ Len(logsChan) \in Nat
      /\ nextBlock \in Nat
  BY DEF Inv, TypeOK, Channels
<1> HIDE DEF Chan
<1>2. UNCHANGED <<schedulerVars, processorVars>> /\ (ctxDone => ctxDone')
  BY DEF LogsFetcher, TakeRange, FetchRange, SubmitBatch, FetcherCancelled
<1>3. CASE ctxDone
  BY <1>2, <1>3 DEF InOrder
<1>4. ASSUME ~ctxDone PROVE LogsInOrder /\ RangesInOrder
  BY <1>4 DEF InOrder
<1>5. CASE ~ctxDone /\ TakeRange
  <2>1. /\ fetcherPc = "take" /\ blocksRangeChan # <<>>
        /\ blocksRangeChan' = Tail(blocksRangeChan)
        /\ IF Head(blocksRangeChan) = Nil
           THEN UNCHANGED <<fetcherPc, current>>
           ELSE fetcherPc' = "fetch" /\ current' = Head(blocksRangeChan)
        /\ UNCHANGED <<logsChan, pending>>
    BY <1>5 DEF TakeRange
  <2>2. /\ Head(blocksRangeChan) = blocksRangeChan[1]
        /\ n \in Nat \ {0} /\ Len(blocksRangeChan') = n - 1
        /\ \A i \in 1..(n - 1) : i + 1 \in 1..n /\ blocksRangeChan'[i] = blocksRangeChan[i + 1]
    BY <1>1, <2>1, Receive
  <2>3. pending = {} /\ \A b : ~Fetching(b)
    BY <2>1 DEF Inv, AtWork, Fetching
  <2>4. LogsInOrder'
    BY <1>2, <1>4, <1>5, <2>1 DEF LogsInOrder, Taken, processorVars
  <2>5. \A c \in AllBatches : Submitted(c)' <=> Submitted(c)
    BY <1>2, <2>1 DEF Submitted, processorVars
  <2>6. ASSUME NEW b \in AllBatches, Fetching(b)'
        PROVE  /\ blocksRangeChan[1] # Nil /\ Scheduled(blocksRangeChan[1], nextBlock)
               /\ b \in BatchesOf(blocksRangeChan[1])
    <3>1. blocksRangeChan[1] # Nil /\ b \in BatchesOf(blocksRangeChan[1])
      BY <2>1, <2>2, <2>3, <2>6 DEF Fetching, BatchesOf
    <3> QED
      BY <2>2, <3>1 DEF Inv, Channels
  <2>7. \A c, b \in AllBatches : Submitted(c) /\ Fetching(b)' => c < b
    <3> SUFFICES ASSUME NEW c \in AllBatches, NEW b \in AllBatches, Submitted(c), Fetching(b)'
                 PROVE  c < b
      OBVIOUS
    <3>1. c < blocksRangeChan[1].from
      BY <1>4, <1>5, <2>2, <2>6 DEF RangesInOrder, OnTheWay
    <3>2. b \in Nat /\ blocksRangeChan[1].from \in Nat /\ blocksRangeChan[1].from <= b
      BY <2>6, BatchesWithin
    <3> QED
      BY <3>1, <3>2
  <2>8. ASSUME NEW i \in 1..(n - 1), blocksRangeChan'[i] # Nil,
               NEW c \in AllBatches, OnTheWay(c)'
        PROVE  c < blocksRangeChan'[i].from
    <3>1. i + 1 \in 1..n /\ blocksRangeChan'[i] = blocksRangeChan[i + 1]
      BY <2>2
    <3>2. CASE Submitted(c)
      BY <1>4, <1>5, <2>8, <3>1, <3>2 DEF RangesInOrder, OnTheWay
    <3>3. CASE Fetching(c)'
      <4>1. /\ blocksRangeChan[1] # Nil /\ c \in Nat /\ blocksRangeChan[1].to \in Nat
            /\ c <= blocksRangeChan[1].to
        BY <2>6, <3>3, BatchesWithin
      <4>2. 1 \in 1..n /\ 1 < i + 1
        BY <2>2
      <4>3. blocksRangeChan[1].to < blocksRangeChan[i + 1].from
        BY <1>4, <1>5, <2>8, <3>1, <4>1, <4>2 DEF RangesInOrder
      <4>4. Scheduled(blocksRangeChan[i + 1], nextBlock)
        BY <2>8, <3>1 DEF Inv, Channels
      <4>5. blocksRangeChan[i + 1].from \in Nat
        BY <4>4 DEF Scheduled
      <4> QED
        BY <3>1, <4>1, <4>3, <4>5
    <3> QED
      BY <2>5, <2>8, <3>2, <3>3 DEF OnTheWay
  <2>9. ASSUME NEW i \in 1..(n - 1), blocksRangeChan'[i] # Nil,
               NEW j \in 1..(n - 1), i < j, blocksRangeChan'[j] # Nil
        PROVE  blocksRangeChan'[i].to < blocksRangeChan'[j].from
    <3>1. i + 1 \in 1..n /\ j + 1 \in 1..n /\ i + 1 < j + 1
      BY <2>2, <2>9
    <3> QED
      BY <1>4, <1>5, <2>2, <2>9, <3>1 DEF RangesInOrder
  <2>10. ASSUME NEW c \in AllBatches, OnTheWay(c)' PROVE c < nextBlock
    <3>1. CASE Submitted(c)
      BY <1>4, <1>5, <3>1 DEF RangesInOrder, OnTheWay
    <3>2. CASE Fetching(c)'
      <4>1. c \in Nat /\ c <= blocksRangeChan[1].to /\ blocksRangeChan[1].to \in Nat
        BY <2>6, <3>2, BatchesWithin
      <4>2. blocksRangeChan[1].to < nextBlock
        BY <2>6, <3>2 DEF Scheduled
      <4> QED
        BY <1>1, <4>1, <4>2
    <3> QED
      BY <2>5, <2>10, <3>1, <3>2 DEF OnTheWay
  <2>11. RangesInOrder'
    BY <1>2, <2>2, <2>5, <2>7, <2>8, <2>9, <2>10 DEF RangesInOrder, schedulerVars
  <2> QED
    BY <2>4, <2>11 DEF InOrder
<1>6. CASE FetchRange
  <2>1. /\ ~ctxDone /\ fetcherPc = "fetch" /\ fetcherPc' = "submit"
        /\ pending' = BatchesOf(current) /\ UNCHANGED <<chans, current>>
    BY <1>6 DEF FetchRange
  <2>2. LogsInOrder'
    BY <1>2, <1>4, <2>1 DEF LogsInOrder, Taken, chans, processorVars
  <2>3. \A c \in AllBatches : /\ Submitted(c)' <=> Submitted(c)
                              /\ Fetching(c)' <=> Fetching(c)
    BY <1>2, <2>1 DEF Submitted, Fetching, chans, processorVars, Inv, AtWork
  <2>4. RangesInOrder'
    BY <1>2, <1>4, <2>1, <2>3 DEF RangesInOrder, OnTheWay, chans, schedulerVars
  <2> QED
    BY <2>2, <2>4 DEF InOrder
<1>7. CASE ~ctxDone /\ SubmitBatch
  <2>1. /\ fetcherPc = "submit" /\ UNCHANGED blocksRangeChan
        /\ fetcherPc' # "fetch"
    BY <1>7 DEF SubmitBatch
  <2>2. PICK b \in pending : /\ \A c \in pending : b <= c
                             /\ logsChan' = Append(logsChan, b) /\ pending' = pending \ {b}
    BY <1>7 DEF SubmitBatch
  <2>3. pending \subseteq AllBatches /\ b \in AllBatches /\ b # Nil
    <3>1. Scheduled(current, nextBlock)
      BY <2>1 DEF Inv, AtWork
    <3> QED
      BY <3>1, BatchesOfScheduled DEF Inv, TypeOK
  <2>4. /\ Len(logsChan') = Len(logsChan) + 1 /\ logsChan'[Len(logsChan) + 1] = b
        /\ \A i \in 1..Len(logsChan) : logsChan'[i] = logsChan[i]
    BY <1>1, <2>2, <2>3, Send
  <2>5. \A c : Taken(c)' <=> Taken(c)
    BY <1>2 DEF Taken, processorVars
  <2>6. Fetching(b) /\ \A c \in AllBatches : Submitted(c) => c < b
    BY <1>4, <1>7, <2>2, <2>3 DEF Fetching, RangesInOrder
  <2>7. \A c \in AllBatches : Submitted(c)' <=> Submitted(c) \/ c = b
    <3>1. \A i \in 1..(Len(logsChan) + 1) : i \in 1..Len(logsChan) \/ i = Len(logsChan) + 1
      BY <1>1
    <3>2. \A i \in 1..Len(logsChan) : i \in 1..(Len(logsChan) + 1)
      BY <1>1
    <3>3. Len(logsChan) + 1 \in 1..(Len(logsChan) + 1)
      BY <1>1
    <3> QED
      BY <1>2, <2>4, <3>1, <3>2, <3>3 DEF Submitted, processorVars
  <2>8. \A c \in AllBatches : Fetching(c)' <=> c \in pending /\ c # b
    BY <2>1, <2>2 DEF Fetching
  <2>9. LogsInOrder'
    <3>1. processorPc' = "work" => \A d \in done' : d < batch'
      BY <1>2, <1>4, <1>7 DEF LogsInOrder, processorVars
    <3>2. ASSUME NEW i \in 1..(Len(logsChan) + 1), logsChan'[i] # Nil
          PROVE  /\ \A c \in AllBatches : Taken(c) => c < logsChan'[i]
                 /\ \A j \in 1..(Len(logsChan) + 1) :
                      i < j /\ logsChan'[j] # Nil => logsChan'[i] < logsChan'[j]
      <4>1. CASE i = Len(logsChan) + 1
        BY <1>1, <2>4, <2>6, <4>1 DEF Submitted, Taken
      <4>2. CASE i # Len(logsChan) + 1
        <5>1. i \in 1..Len(logsChan) /\ logsChan'[i] = logsChan[i]
          BY <1>1, <2>4, <4>2
        <5>2. logsChan[i] \in AllBatches
          BY <1>1, <3>2, <5>1
        <5>3. logsChan[i] < b
          BY <2>6, <5>1, <5>2 DEF Submitted
        <5>4. ASSUME NEW j \in 1..(Len(logsChan) + 1), i < j, logsChan'[j] # Nil
              PROVE  logsChan'[i] < logsChan'[j]
          <6>1. CASE j = Len(logsChan) + 1
            BY <2>4, <5>1, <5>3, <6>1
          <6>2. CASE j # Len(logsChan) + 1
            <7>1. j \in 1..Len(logsChan) /\ logsChan'[j] = logsChan[j]
              BY <1>1, <2>4, <6>2
            <7> QED
              BY <1>4, <1>7, <3>2, <5>1, <5>4, <7>1 DEF LogsInOrder
          <6> QED
            BY <6>1, <6>2
        <5> QED
          BY <1>4, <1>7, <3>2, <5>1, <5>4 DEF LogsInOrder
      <4> QED
        BY <4>1, <4>2
    <3> QED
      BY <2>4, <2>5, <3>1, <3>2 DEF LogsInOrder
  <2>10. \A c, d \in AllBatches : Submitted(c)' /\ Fetching(d)' => c < d
    <3> SUFFICES ASSUME NEW c \in AllBatches, NEW d \in AllBatches,
                        Submitted(c) \/ c = b, d \in pending, d # b
                 PROVE  c < d
      BY <2>7, <2>8
    <3>1. Submitted(c) => c < d
      BY <1>4, <1>7 DEF Fetching, RangesInOrder
    <3>2. b < d
      BY <2>2, <2>3
    <3> QED
      BY <3>1, <3>2
  <2>11. \A c \in AllBatches : OnTheWay(c)' => OnTheWay(c)
    BY <2>6, <2>7, <2>8 DEF OnTheWay, Fetching
  <2>12. RangesInOrder'
    BY <1>2, <1>4, <1>7, <2>1, <2>10, <2>11 DEF RangesInOrder, schedulerVars
  <2> QED
    BY <2>9, <2>12 DEF InOrder
<1> QED
  BY <1>3, <1>5, <1>6, <1>7 DEF LogsFetcher, FetcherCancelled

\* The processor takes the first batch, and what it handles was taken.
LEMMA ProcessorOrder ==
    ASSUME Inv, InOrder, ~Ended, LogsProcessor
    PROVE  InOrder'
<1> USE BatchTypes
<1>1. logsChan \in Seq(AllBatches \cup {Nil}) /\ Len(logsChan) \in Nat
  BY DEF Inv, Channels
<1>2. UNCHANGED <<blocksRangeChan, schedulerVars, fetcherVars, ctxDone>>
  BY DEF LogsProcessor, TakeBatch, ProcessBatch, DropBatch, ProcessorCancelled, chans
<1>3. CASE ctxDone
  BY <1>2, <1>3 DEF InOrder
<1>4. ASSUME ~ctxDone, LogsInOrder', \A c \in AllBatches : Submitted(c)' => Submitted(c)
      PROVE  InOrder'
  <2>1. RangesInOrder
    BY <1>4 DEF InOrder
  <2>2. \A c \in AllBatches : Fetching(c)' <=> Fetching(c)
    BY <1>2 DEF Fetching, BatchesOf, fetcherVars
  <2>3. RangesInOrder'
    BY <1>2, <1>4, <2>1, <2>2 DEF RangesInOrder, OnTheWay, schedulerVars
  <2> QED
    BY <1>4, <2>3 DEF InOrder
<1>5. CASE ~ctxDone /\ TakeBatch
  <2>1. /\ processorPc = "take" /\ logsChan # <<>> /\ logsChan' = Tail(logsChan)
        /\ IF Head(logsChan) = Nil
           THEN processorPc' = "take" /\ batch' = batch
           ELSE processorPc' = "work" /\ batch' = Head(logsChan)
        /\ done' = done
    BY <1>5 DEF TakeBatch, AfterNil
  <2>2. /\ Head(logsChan) = logsChan[1] /\ Head(logsChan) \in AllBatches \cup {Nil}
        /\ Len(logsChan) \in Nat \ {0} /\ Len(logsChan') = Len(logsChan) - 1
        /\ \A i \in 1..Len(logsChan') : i + 1 \in 1..Len(logsChan) /\ logsChan'[i] = logsChan[i + 1]
    BY <1>1, <2>1, Receive
  <2>3. 1 \in 1..Len(logsChan) /\ \A i \in 1..Len(logsChan') : 1 < i + 1
    BY <2>2
  <2>4. LogsInOrder
    BY <1>5 DEF InOrder
  <2>5. \A c \in AllBatches : Taken(c)' => Taken(c) \/ (c = logsChan[1] /\ logsChan[1] # Nil)
    BY <2>1, <2>2 DEF Taken
  <2>6. processorPc' = "work" => \A d \in done' : d < batch'
    BY <2>1, <2>2, <2>3, <2>4 DEF LogsInOrder, Taken, Inv, TypeOK
  <2>7. ASSUME NEW i \in 1..Len(logsChan'), logsChan'[i] # Nil
        PROVE  /\ \A c \in AllBatches : Taken(c)' => c < logsChan'[i]
               /\ \A j \in 1..Len(logsChan') :
                    i < j /\ logsChan'[j] # Nil => logsChan'[i] < logsChan'[j]
    <3>1. i + 1 \in 1..Len(logsChan) /\ logsChan'[i] = logsChan[i + 1] /\ 1 < i + 1
      BY <2>2, <2>3
    <3>2. \A c \in AllBatches : Taken(c)' => c < logsChan'[i]
      BY <2>3, <2>4, <2>5, <2>7, <3>1 DEF LogsInOrder
    <3>3. ASSUME NEW j \in 1..Len(logsChan'), i < j, logsChan'[j] # Nil
          PROVE  logsChan'[i] < logsChan'[j]
      <4>1. j + 1 \in 1..Len(logsChan) /\ logsChan'[j] = logsChan[j + 1] /\ i + 1 < j + 1
        BY <2>2, <3>3
      <4> QED
        BY <2>4, <2>7, <3>1, <3>3, <4>1 DEF LogsInOrder
    <3> QED
      BY <3>2, <3>3
  <2>8. LogsInOrder'
    BY <2>6, <2>7 DEF LogsInOrder
  <2>9. \A c \in AllBatches : Submitted(c)' => Submitted(c)
    BY <2>1, <2>2, <2>3 DEF Submitted
  <2> QED
    BY <1>4, <1>5, <2>8, <2>9
<1>6. CASE ~ctxDone /\ ProcessBatch
  <2>1. /\ processorPc = "work" /\ processorPc' = "take" /\ batch' = batch
        /\ done' = done \cup {batch} /\ logsChan' = logsChan
    BY <1>6 DEF ProcessBatch, chans
  <2>2. LogsInOrder
    BY <1>6 DEF InOrder
  <2>3. \A c : /\ Taken(c)' => Taken(c)
               /\ Submitted(c)' => Submitted(c)
    BY <2>1 DEF Taken, Submitted
  <2>4. LogsInOrder'
    BY <2>1, <2>2, <2>3 DEF LogsInOrder
  <2> QED
    BY <1>4, <1>6, <2>3, <2>4
<1> QED
  BY <1>3, <1>5, <1>6 DEF LogsProcessor, DropBatch, ProcessorCancelled

\* The caller adds nothing but a nil element, which is skipped.
LEMMA MainOrder ==
    ASSUME Inv, InOrder, ~Ended, Main \/ Cancel
    PROVE  InOrder'
<1> USE BatchTypes
<1>1. /\ UNCHANGED <<blocksRangeChan, schedulerVars, fetcherVars, processorVars>>
      /\ ctxDone => ctxDone'
  BY DEF Main, SeeNoRanges, SubmitStub, SeeNoBatches, Sleep, WakeUp, Cancel, chans
<1>2. logsChan' = logsChan \/ logsChan' = Append(logsChan, Nil)
  BY DEF Main, SeeNoRanges, SubmitStub, SeeNoBatches, Sleep, WakeUp, Cancel, chans
<1>3. logsChan \in Seq(AllBatches \cup {Nil}) /\ Len(logsChan) \in Nat
  BY DEF Inv, Channels
<1>4. /\ \A i \in 1..Len(logsChan') : logsChan'[i] # Nil =>
           i \in 1..Len(logsChan) /\ logsChan'[i] = logsChan[i]
      /\ Len(logsChan') \in Nat
  <2>1. CASE logsChan' = logsChan
    BY <1>3, <2>1
  <2>2. CASE logsChan' = Append(logsChan, Nil)
    <3>1. /\ Len(logsChan') = Len(logsChan) + 1 /\ logsChan'[Len(logsChan) + 1] = Nil
          /\ \A i \in 1..Len(logsChan) : logsChan'[i] = logsChan[i]
      BY <1>3, <2>2, Send
    <3> QED
      BY <1>3, <3>1
  <2> QED
    BY <1>2, <2>1, <2>2
<1>5. CASE ctxDone
  BY <1>1, <1>5 DEF InOrder
<1>6. CASE ~ctxDone
  <2>1. LogsInOrder /\ RangesInOrder
    BY <1>6 DEF InOrder
  <2>2. \A c \in AllBatches : /\ Taken(c)' <=> Taken(c)
                              /\ Submitted(c)' => Submitted(c)
                              /\ Fetching(c)' <=> Fetching(c)
    BY <1>1, <1>4 DEF Taken, Submitted, Fetching, BatchesOf, fetcherVars, processorVars
  <2>3. LogsInOrder'
    BY <1>1, <1>4, <2>1, <2>2 DEF LogsInOrder, processorVars
  <2>4. RangesInOrder'
    BY <1>1, <2>1, <2>2 DEF RangesInOrder, OnTheWay, schedulerVars
  <2> QED
    BY <2>3, <2>4 DEF InOrder
<1> QED
  BY <1>5, <1>6

\* Every step keeps the batches in order.
LEMMA NextInOrder ==
    ASSUME Inv, InOrder, [Next]_vars
    PROVE  InOrder'
<1>1. CASE UNCHANGED vars \/ StoreUnanswered \/ MonitorStores
  <2>1. UNCHANGED <<logsChan, blocksRangeChan, batch, done, processorPc, fetcherPc, current,
                    pending, nextBlock, ctxDone>>
    BY <1>1 DEF vars, programVars, StoreUnanswered, MonitorStores, chans, schedulerVars,
          fetcherVars, processorVars
  <2> QED
    BY <2>1 DEF InOrder, LogsInOrder, RangesInOrder, OnTheWay, Taken, Submitted, Fetching,
          BatchesOf
<1> QED
  BY <1>1, SchedulerOrder, FetcherOrder, ProcessorOrder, MainOrder DEF Next, Exited

\* At first nothing is on its way.
LEMMA InitInOrder == Init => InOrder
<1> SUFFICES ASSUME Init PROVE InOrder
  OBVIOUS
<1>1. /\ logsChan = <<>> /\ Len(logsChan) = 0
      /\ fetcherPc = "take" /\ pending = {} /\ processorPc = "take" /\ done = {}
  BY DEF Init
<1>2. \A c : ~OnTheWay(c) /\ ~Taken(c) /\ ~Fetching(c)
  BY <1>1 DEF OnTheWay, Submitted, Fetching, Taken
<1>3. \A i \in 1..Len(blocksRangeChan) : blocksRangeChan[i] = Nil
  <2>1. CASE blocksRangeChan = <<>>
    BY <2>1
  <2>2. CASE blocksRangeChan = <<Nil>>
    BY <2>2
  <2> QED
    BY <2>1, <2>2 DEF Init
<1> QED
  BY <1>1, <1>2, <1>3 DEF InOrder, LogsInOrder, RangesInOrder

\* When a batch is handled all batches before it are, and it is not.
LEMMA HandlesInOrder ==
    ASSUME Inv, InOrder, ~ctxDone, processorPc = "work"
    PROVE  /\ batch \in AllBatches /\ batch \notin done
           /\ \A c \in AllBatches : c < batch => c \in done
<1> USE BatchTypes
<1>1. LogsInOrder /\ RangesInOrder /\ batch \in AllBatches /\ batch \in Nat
  BY DEF InOrder, Inv, AtWork
<1>2. batch \notin done
  <2>1. ~(batch < batch)
    BY <1>1
  <2> QED
    BY <1>1, <2>1 DEF LogsInOrder
<1>3. ASSUME NEW c \in AllBatches, c < batch PROVE c \in done
  <2>1. Submitted(batch)
    BY <1>1 DEF Submitted
  <2>2. c \in Nat /\ nextBlock \in Nat /\ c < nextBlock /\ ~(batch < c) /\ c # batch
    <3>1. batch < nextBlock /\ nextBlock \in Nat
      BY <1>1, <2>1 DEF RangesInOrder, OnTheWay, Inv, TypeOK
    <3> QED
      BY <1>1, <1>3, <3>1
  <2>3. Submitted(c) \/ Fetching(c) \/ InRanges(c, blocksRangeChan)
    BY <2>2 DEF Inv, NoneLost
  <2>4. ~Fetching(c)
    BY <1>1, <2>1, <2>2 DEF RangesInOrder
  <2>5. ASSUME NEW i \in 1..Len(blocksRangeChan), blocksRangeChan[i] # Nil,
               c \in BatchesOf(blocksRangeChan[i])
        PROVE  FALSE
    <3>1. batch < blocksRangeChan[i].from
      BY <1>1, <2>1, <2>5 DEF RangesInOrder, OnTheWay
    <3>2. Scheduled(blocksRangeChan[i], nextBlock)
      BY <2>5 DEF Inv, Channels
    <3>3. blocksRangeChan[i].from \in Nat /\ blocksRangeChan[i].from <= c
      BY <2>5, <3>2, BatchesWithin
    <3> QED
      BY <1>1, <2>2, <3>1, <3>3
  <2>6. ASSUME NEW i \in 1..Len(logsChan), logsChan[i] = c PROVE FALSE
    <3>1. batch < c
      BY <1>1, <2>6 DEF LogsInOrder, Taken
    <3> QED
      BY <2>2, <3>1
  <2> QED
    BY <2>2, <2>3, <2>4, <2>5, <2>6 DEF InRanges, Submitted
<1> QED
  BY <1>1, <1>2, <1>3

\* Blocks that are processed again are handled as Indexer promises, for every range
\* of blocks, range size and length of the channels, and wherever it is interrupted.
THEOREM Refinement == Spec => ImplementsIndexer
<1>1. Init => Idx!Init
  BY DEF Init, Idx!Init, AsLogs
<1>2. Inv /\ InOrder /\ [Next]_vars => [Idx!Next]_(Idx!vars)
  <2> SUFFICES ASSUME Inv, InOrder, [Next]_vars
               PROVE  [Idx!Next]_(Idx!vars)
    OBVIOUS
  <2>1. CASE done' = done
    BY <2>1 DEF Idx!vars, AsLogs
  <2>2. CASE ProcessBatch /\ ~ctxDone
    <3>1. processorPc = "work" /\ done' = done \cup {batch}
      BY <2>2 DEF ProcessBatch
    <3>2. /\ batch \in AllBatches /\ batch \notin done
          /\ \A c \in AllBatches : c < batch => c \in done
      BY <2>2, <3>1, HandlesInOrder
    <3> DEFINE l == [block |-> batch, index |-> 0]
    <3>3. l \in AsLogs(AllBatches) /\ l \notin AsLogs(done)
      BY <3>2 DEF AsLogs
    <3>4. \A k \in AsLogs(AllBatches) : Idx!Precedes(k, l) => k \in AsLogs(done)
      BY <3>2 DEF AsLogs, Idx!Precedes
    <3>5. AsLogs(done)' = AsLogs(done) \cup {l}
      BY <3>1 DEF AsLogs
    <3>6. Idx!Handle(l)
      BY <3>3, <3>4, <3>5 DEF Idx!Handle
    <3> QED
      BY <3>3, <3>6 DEF Idx!Next
  <2>3. done' = done \/ (ProcessBatch /\ ~ctxDone)
    BY DEF Next, Exited, vars, programVars, processorVars, StoreUnanswered, MonitorStores,
          Scheduler, ScheduleRange, ScheduleNil,
          SchedulerCancelled, LogsFetcher, TakeRange, FetchRange, SubmitBatch,
          FetcherCancelled, LogsProcessor, TakeBatch, ProcessBatch, DropBatch,
          ProcessorCancelled, Main, SeeNoRanges, SubmitStub, SeeNoBatches, Sleep, WakeUp, Cancel
  <2> QED
    BY <2>1, <2>2, <2>3
<1>3. Inv /\ InOrder /\ [Next]_vars => InOrder'
  BY NextInOrder
<1> QED
  BY <1>1, <1>2, <1>3, InitInOrder, Invariance, PTL DEF Spec, ImplementsIndexer, Idx!Spec
=============================================================================
