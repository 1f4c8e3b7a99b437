----------------------------- MODULE BlockRanges -----------------------------
(***************************************************************************)
(* One round of StartBlockFetcher (monitor/contract_monitor.go) in machine *)
(* arithmetic: the reported head minus the confirmations, which is         *)
(* recorded as headBlock, and the loop of SplitBlockRange                  *)
(* (monitor/types.go), one iteration per step.  Go's uint wraps around.    *)
(* ContractMonitor sends the ranges to the channel one by one, each the    *)
(* NextRange of what is left; here the whole list is shown to be a         *)
(* partition of the blocks between the start and the head.                 *)
(***************************************************************************)
EXTENDS Integers, Sequences

CONSTANTS
    Modulus,             \* 2 to the width of uint
    MinHead, MaxHead,    \* the heights that nodes report
    BlockConfirmations,
    MaxBlockRangeSize

ASSUME BlockRangesAssumption ==
    /\ Modulus \in Nat \ {0}
    /\ MinHead \in Nat /\ MaxHead \in Nat /\ MaxHead < Modulus
    /\ BlockConfirmations \in 0..(Modulus - 1)
    /\ MaxBlockRangeSize \in 1..(Modulus - 1)

VARIABLES
    reported,   \* the answer of the node
    start,      \* parameter fromBlock of SplitBlockRange
    fromBlock, toBlock,
    batches

vars == <<reported, start, fromBlock, toBlock, batches>>

Wrap(n) == n % Modulus

\* The start is the block after the head of an earlier round, or after the
\* stored fetched block.
Init ==
    /\ reported \in MinHead..MaxHead
    /\ toBlock = Wrap(reported - BlockConfirmations)
    /\ start \in 1..(MaxHead + 1) /\ fromBlock = start
    /\ batches = <<>>

LastOneTooMany(from) == Wrap(from + MaxBlockRangeSize)

\* Last block of the batch that starts at a block, if the range is longer.
BatchToBlock(from) == Wrap(from + MaxBlockRangeSize - 1)

SplitOff ==
    /\ fromBlock <= toBlock
    /\ LET last == BatchToBlock(fromBlock)
       IN  batches' = Append(batches, [from |-> fromBlock,
                                       to |-> IF last > toBlock THEN toBlock ELSE last])
    /\ fromBlock' = Wrap(fromBlock + MaxBlockRangeSize)
    /\ UNCHANGED <<reported, start, toBlock>>

Return == fromBlock > toBlock /\ UNCHANGED vars

Next == SplitOff \/ Return

Spec == Init /\ [][Next]_vars

-----------------------------------------------------------------------------
(* Properties *)

\* The machine numbers never wrap: every reported height has the required
\* confirmations, and the heights stay clear of the largest uint.
NoWrap ==
    /\ BlockConfirmations <= MinHead
    /\ MaxHead + MaxBlockRangeSize < Modulus

\* The batches split off so far follow each other from the start without a gap
\* or an overlap, none is empty, longer than max_block_range_size or beyond the
\* head; and they end where the rest begins, or, at the end, with the head.
Partition ==
    /\ \A i \in 1..Len(batches) :
         /\ batches[i].from = IF i = 1 THEN start ELSE batches[i - 1].to + 1
         /\ batches[i].from <= batches[i].to
         /\ batches[i].to < batches[i].from + MaxBlockRangeSize
         /\ batches[i].to <= toBlock
    /\ IF fromBlock <= toBlock
       THEN fromBlock = IF batches = <<>> THEN start ELSE batches[Len(batches)].to + 1
       ELSE start <= toBlock =>
              batches # <<>> /\ batches[Len(batches)].to = toBlock
=============================================================================
