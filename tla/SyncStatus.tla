----------------------------- MODULE SyncStatus -----------------------------
(***************************************************************************)
(* The isSynced flag of one ContractMonitor (monitor/contract_monitor.go), *)
(* which decides whether the alert jobs run at all.  The block fetcher and *)
(* the logs processor both call recordIsSynced, without a lock: one sets   *)
(* headBlock before, the other one LastProcessedBlock.  Each goroutine     *)
(* reads both numbers, then writes the flag; as it is the only writer of   *)
(* one of them, reading both is one step, but the other goroutine may run  *)
(* between the read and the write.                                         *)
(*                                                                         *)
(* Heights are those of blocks with enough confirmations.  How a batch     *)
(* gets to the processor is the subject of ContractMonitor; here any block *)
(* that was scheduled may be the next one that is processed.               *)
(***************************************************************************)
EXTENDS Naturals

CONSTANTS
    SyncedThreshold,   \* defaultSyncedThreshold
    StartBlock,        \* first block to index
    InitialChainHead,  \* height of the chain at the start
    MaxChainHead,      \* bound: height at which the chain stops growing
    MaxNodeLag,        \* how many blocks an RPC node may be behind
    MaxStops           \* bound: number of restarts

ASSUME SyncAssumption ==
    /\ SyncedThreshold \in Nat \ {0} /\ StartBlock \in Nat \ {0}
    /\ InitialChainHead \in Nat /\ MaxChainHead \in Nat
    /\ MaxNodeLag \in 0..InitialChainHead /\ MaxStops \in Nat
    /\ InitialChainHead <= MaxChainHead

VARIABLES
    chainHead,
    headBlock,       \* highest head recorded since the start of the process
    processed,       \* logsCursor.LastProcessedBlock
    isSynced,
    scheduled,       \* blocks up to here may be in a batch
    fetcherPc,
    fetcherValue,    \* what recordIsSynced computed, not yet in isSynced
    processorPc,
    processorValue,
    stops

vars == <<chainHead, headBlock, processed, isSynced, scheduled,
          fetcherPc, fetcherValue, processorPc, processorValue, stops>>

Higher(a, b) == IF a > b THEN a ELSE b

CaughtUp == processed + SyncedThreshold > headBlock

Init ==
    /\ chainHead = InitialChainHead
    /\ processed = StartBlock - 1
    /\ scheduled = processed
    /\ headBlock = 0 /\ isSynced = FALSE
    /\ fetcherPc = "poll" /\ fetcherValue = FALSE
    /\ processorPc = "take" /\ processorValue = FALSE
    /\ stops = 0

NewHead(n) == n > headBlock

AnyHead(n) == n \in Nat

\* The guard of recordHeadBlockNumber: a lower head is not recorded, and
\* does not update the flag; the same head does.
RecordsHead(n) == n >= headBlock

\* BlockNumber and recordHeadBlockNumber up to recordIsSynced.
PollHead(n) ==
    /\ fetcherPc = "poll"
    /\ n <= chainHead /\ chainHead <= n + MaxNodeLag
    /\ IF RecordsHead(n)
       THEN headBlock' = n /\ fetcherPc' = "compute"
       ELSE headBlock' = headBlock /\ fetcherPc' = "schedule"
    /\ UNCHANGED <<chainHead, processed, isSynced, scheduled, fetcherValue,
                   processorPc, processorValue, stops>>

FetcherComputes ==
    /\ fetcherPc = "compute"
    /\ fetcherValue' = CaughtUp
    /\ fetcherPc' = "store"
    /\ UNCHANGED <<chainHead, headBlock, processed, isSynced, scheduled,
                   processorPc, processorValue, stops>>

StoreOnlyTrue(value) == isSynced' = (isSynced \/ value)

Store(value) == isSynced' = value

FetcherStores ==
    /\ fetcherPc = "store"
    /\ Store(fetcherValue)
    /\ fetcherPc' = "schedule"
    /\ UNCHANGED <<chainHead, headBlock, processed, scheduled, fetcherValue,
                   processorPc, processorValue, stops>>

\* The ranges up to the polled head are scheduled after it was recorded.
ScheduleRanges ==
    /\ fetcherPc = "schedule"
    /\ scheduled' = Higher(scheduled, headBlock)
    /\ fetcherPc' = "poll"
    /\ UNCHANGED <<chainHead, headBlock, processed, isSynced, fetcherValue,
                   processorPc, processorValue, stops>>

\* A batch was handled: recordProcessedBlockNumber up to recordIsSynced.
RecordProcessed(b) ==
    /\ processorPc = "take"
    /\ processed <= b /\ b <= scheduled
    /\ processed' = b
    /\ processorPc' = "compute"
    /\ UNCHANGED <<chainHead, headBlock, isSynced, scheduled, fetcherPc,
                   fetcherValue, processorValue, stops>>

ProcessorComputes ==
    /\ processorPc = "compute"
    /\ processorValue' = CaughtUp
    /\ processorPc' = "store"
    /\ UNCHANGED <<chainHead, headBlock, processed, isSynced, scheduled,
                   fetcherPc, fetcherValue, stops>>

ProcessorStores ==
    /\ processorPc = "store"
    /\ Store(processorValue)
    /\ processorPc' = "write"
    /\ UNCHANGED <<chainHead, headBlock, processed, scheduled, fetcherPc,
                   fetcherValue, processorValue, stops>>

\* LogsCursors.Ensure returns; after an error recordProcessedBlockNumber is
\* called again, which also updates the flag again.
CursorWritten ==
    /\ processorPc = "write"
    /\ processorPc' \in {"take", "compute"}
    /\ UNCHANGED <<chainHead, headBlock, processed, isSynced, scheduled,
                   fetcherPc, fetcherValue, processorValue, stops>>

GrowChain ==
    /\ chainHead < MaxChainHead
    /\ chainHead' = chainHead + 1
    /\ UNCHANGED <<headBlock, processed, isSynced, scheduled, fetcherPc,
                   fetcherValue, processorPc, processorValue, stops>>

AnyFetched(p) == (StartBlock - 1)..scheduled

\* The fetched blocks of the rows that a restart with a processed block p may
\* find: processed_before_fetched.
RestartFetched(p) == p..scheduled

\* The process is restarted from a row that was stored before: the unprocessed
\* logs up to the fetched block are submitted whatever the head is.
Restart ==
    /\ stops < MaxStops
    /\ stops' = stops + 1
    /\ processed' \in (StartBlock - 1)..processed
    /\ scheduled' \in RestartFetched(processed')
    /\ headBlock' = 0 /\ isSynced' = FALSE
    /\ fetcherPc' = "poll" /\ fetcherValue' = FALSE
    /\ processorPc' = "take" /\ processorValue' = FALSE
    /\ UNCHANGED chainHead

Next ==
    \/ \E n \in 0..chainHead : PollHead(n)
    \/ FetcherComputes \/ FetcherStores \/ ScheduleRanges
    \/ \E b \in processed..scheduled : RecordProcessed(b)
    \/ ProcessorComputes \/ ProcessorStores \/ CursorWritten
    \/ GrowChain \/ Restart

Spec == Init /\ [][Next]_vars

\* The goroutines run; the node that answers is not behind forever, and the
\* database does not fail every time.  Nothing makes a batch arrive: the
\* contract may have no more blocks to process, or be stuck on one.
Fairness ==
    /\ SF_vars(PollHead(chainHead))
    /\ WF_vars(FetcherComputes) /\ WF_vars(FetcherStores) /\ WF_vars(ScheduleRanges)
    /\ WF_vars(ProcessorComputes) /\ WF_vars(ProcessorStores)
    /\ SF_vars(CursorWritten /\ processorPc' = "take")

FairSpec == Spec /\ Fairness

-----------------------------------------------------------------------------
(* Properties *)

\* The types of the variables; nothing is processed before it was scheduled.
TypeOK ==
    /\ chainHead \in InitialChainHead..MaxChainHead
    /\ headBlock \in 0..chainHead
    /\ scheduled \in (StartBlock - 1)..Higher(chainHead, StartBlock - 1)
    /\ processed \in (StartBlock - 1)..scheduled
    /\ isSynced \in BOOLEAN /\ fetcherValue \in BOOLEAN /\ processorValue \in BOOLEAN
    /\ fetcherPc \in {"poll", "compute", "store", "schedule"}
    /\ processorPc \in {"take", "compute", "store", "write"}
    /\ stops \in 0..MaxStops

\* The unsynchronized calls of recordIsSynced leave a stale value in one direction
\* each.  The recorded head does not go back, so a FALSE that the logs processor is
\* about to store is right; what is processed does not go back, so a TRUE that the
\* block fetcher is about to store is right, whatever ran in between.
StaleOneWayOnly ==
    /\ (fetcherPc = "store" /\ fetcherValue) => CaughtUp
    /\ (processorPc = "store" /\ ~processorValue) => ~CaughtUp

\* A monitor that has caught up for good ends up with the flag set, whatever
\* stale value the two unsynchronized calls of recordIsSynced left in it: the
\* next poll of the same head computes it again (recordHeadBlockNumber).
FlagTurnsOn == <>[]CaughtUp => <>[]isSynced

\* A monitor that stays behind the recorded head ends up with the flag
\* cleared, so that the alert jobs do not run on incomplete data forever.
FlagTurnsOff == <>[]~CaughtUp => <>[]~isSynced

\* What the help text of the synced metric says, on a chain that does not
\* grow: "Shows 1 if the contract is considered as synced up to chain head."
SyncedUpToHead == isSynced => processed + SyncedThreshold + MaxNodeLag > chainHead
=============================================================================
