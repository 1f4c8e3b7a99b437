-------------------------- MODULE SyncStatusProofs --------------------------
(***************************************************************************)
(* The sync status of a monitor, for every threshold, start block and      *)
(* growth of the chain.                                                    *)
(***************************************************************************)
EXTENDS SyncStatus, TLAPS

Inv == TypeOK /\ StaleOneWayOnly

\* What the arithmetic of the steps needs of the types.
LEMMA Numbers ==
    ASSUME TypeOK
    PROVE  /\ chainHead \in Nat /\ headBlock \in Nat /\ scheduled \in Nat /\ processed \in Nat
           /\ headBlock <= chainHead /\ processed <= scheduled
           /\ StartBlock - 1 \in Nat /\ InitialChainHead \in Nat /\ MaxChainHead \in Nat
           /\ SyncedThreshold \in Nat
BY SyncAssumption DEF TypeOK, Higher

\* At first no value is under way.
LEMMA InitInv == Init => Inv
<1> SUFFICES ASSUME Init PROVE Inv
  OBVIOUS
<1>1. TypeOK
  <2>1. /\ chainHead \in InitialChainHead..MaxChainHead /\ headBlock \in 0..chainHead
        /\ scheduled \in (StartBlock - 1)..Higher(chainHead, StartBlock - 1)
        /\ processed \in (StartBlock - 1)..scheduled /\ stops \in 0..MaxStops
    BY SyncAssumption DEF Init, Higher
  <2> QED
    BY <2>1 DEF Init, TypeOK
<1>2. StaleOneWayOnly
  BY DEF Init, StaleOneWayOnly
<1> QED
  BY <1>1, <1>2 DEF Inv

\* The recorded head grows only: no step of the block fetcher makes a value that is
\* under way wrong in the direction of StaleOneWayOnly.
LEMMA FetcherSteps ==
    ASSUME Inv,
           \/ \E n \in 0..chainHead : PollHead(n)
           \/ FetcherComputes \/ FetcherStores \/ ScheduleRanges
    PROVE  Inv'
<1> USE DEF Inv
<1>1. ASSUME NEW n \in 0..chainHead, PollHead(n) PROVE Inv'
  <2>1. headBlock' \in 0..chainHead /\ headBlock <= headBlock'
    BY <1>1, Numbers DEF PollHead, RecordsHead
  <2>2. TypeOK'
    BY <1>1, <2>1 DEF PollHead, TypeOK
  <2>3. ~CaughtUp => ~CaughtUp'
    BY <1>1, <2>1, Numbers DEF PollHead, CaughtUp
  <2>4. StaleOneWayOnly'
    BY <1>1, <2>3 DEF PollHead, StaleOneWayOnly
  <2> QED
    BY <2>2, <2>4
<1>2. CASE FetcherComputes
  <2>1. TypeOK'
    BY <1>2 DEF FetcherComputes, TypeOK, CaughtUp
  <2>2. StaleOneWayOnly'
    BY <1>2 DEF FetcherComputes, StaleOneWayOnly, CaughtUp
  <2> QED
    BY <2>1, <2>2
<1>3. CASE FetcherStores
  <2>1. TypeOK'
    BY <1>3 DEF FetcherStores, Store, TypeOK
  <2>2. StaleOneWayOnly'
    BY <1>3 DEF FetcherStores, StaleOneWayOnly, CaughtUp
  <2> QED
    BY <2>1, <2>2
<1>4. CASE ScheduleRanges
  <2>1. scheduled' \in (StartBlock - 1)..Higher(chainHead, StartBlock - 1) /\ scheduled <= scheduled'
    BY <1>4, Numbers DEF ScheduleRanges, Higher, TypeOK
  <2>2. TypeOK'
    BY <1>4, <2>1, Numbers DEF ScheduleRanges, TypeOK
  <2>3. StaleOneWayOnly'
    BY <1>4 DEF ScheduleRanges, StaleOneWayOnly, CaughtUp
  <2> QED
    BY <2>2, <2>3
<1> QED
  BY <1>1, <1>2, <1>3, <1>4

\* The processed block grows only, and no step of the logs processor makes a value
\* that is under way wrong in that direction.
LEMMA ProcessorSteps ==
    ASSUME Inv,
           \/ \E b \in processed..scheduled : RecordProcessed(b)
           \/ ProcessorComputes \/ ProcessorStores \/ CursorWritten
    PROVE  Inv'
<1> USE DEF Inv
<1>1. ASSUME NEW b \in processed..scheduled, RecordProcessed(b) PROVE Inv'
  <2>1. processed' \in (StartBlock - 1)..scheduled /\ processed <= processed'
    BY <1>1, Numbers DEF RecordProcessed, TypeOK
  <2>2. TypeOK'
    BY <1>1, <2>1 DEF RecordProcessed, TypeOK
  <2>3. CaughtUp => CaughtUp'
    BY <1>1, <2>1, Numbers DEF RecordProcessed, CaughtUp
  <2>4. StaleOneWayOnly'
    BY <1>1, <2>3 DEF RecordProcessed, StaleOneWayOnly
  <2> QED
    BY <2>2, <2>4
<1>2. CASE ProcessorComputes
  <2>1. TypeOK'
    BY <1>2 DEF ProcessorComputes, TypeOK, CaughtUp
  <2>2. StaleOneWayOnly'
    BY <1>2 DEF ProcessorComputes, StaleOneWayOnly, CaughtUp
  <2> QED
    BY <2>1, <2>2
<1>3. CASE ProcessorStores
  <2>1. TypeOK'
    BY <1>3 DEF ProcessorStores, Store, TypeOK
  <2>2. StaleOneWayOnly'
    BY <1>3 DEF ProcessorStores, StaleOneWayOnly, CaughtUp
  <2> QED
    BY <2>1, <2>2
<1>4. CASE CursorWritten
  <2>1. TypeOK'
    BY <1>4 DEF CursorWritten, TypeOK
  <2>2. StaleOneWayOnly'
    BY <1>4 DEF CursorWritten, StaleOneWayOnly, CaughtUp
  <2> QED
    BY <2>1, <2>2
<1> QED
  BY <1>1, <1>2, <1>3, <1>4

\* A restart forgets what was under way.
LEMMA EnvironmentSteps ==
    ASSUME Inv, GrowChain \/ Restart \/ UNCHANGED vars
    PROVE  Inv'
<1> USE DEF Inv
<1>1. CASE GrowChain
  <2>1. chainHead' \in InitialChainHead..MaxChainHead /\ chainHead' = chainHead + 1
    BY <1>1, Numbers DEF GrowChain, TypeOK
  <2>2. /\ headBlock \in 0..chainHead'
        /\ scheduled \in (StartBlock - 1)..Higher(chainHead', StartBlock - 1)
    BY <2>1, Numbers DEF TypeOK, Higher
  <2>3. TypeOK'
    BY <1>1, <2>1, <2>2 DEF GrowChain, TypeOK
  <2>4. StaleOneWayOnly'
    BY <1>1 DEF GrowChain, StaleOneWayOnly, CaughtUp
  <2> QED
    BY <2>3, <2>4
<1>2. CASE Restart
  <2>1. /\ processed' \in (StartBlock - 1)..scheduled'
        /\ scheduled' \in (StartBlock - 1)..Higher(chainHead, StartBlock - 1)
        /\ stops' \in 0..MaxStops
    BY <1>2, Numbers, SyncAssumption DEF Restart, RestartFetched, TypeOK, Higher
  <2>2. headBlock' \in 0..chainHead
    BY <1>2, Numbers DEF Restart
  <2>3. TypeOK'
    BY <1>2, <2>1, <2>2 DEF Restart, TypeOK
  <2>4. StaleOneWayOnly'
    BY <1>2 DEF Restart, StaleOneWayOnly
  <2> QED
    BY <2>3, <2>4
<1>3. CASE UNCHANGED vars
  <2>1. TypeOK'
    BY <1>3 DEF vars, TypeOK
  <2>2. StaleOneWayOnly'
    BY <1>3 DEF vars, StaleOneWayOnly, CaughtUp
  <2> QED
    BY <2>1, <2>2
<1> QED
  BY <1>1, <1>2, <1>3

\* Every step keeps the invariant.
LEMMA NextInv == Inv /\ [Next]_vars => Inv'
BY FetcherSteps, ProcessorSteps, EnvironmentSteps DEF Next

\* The invariant of both goroutines.
THEOREM Invariance == Spec => []Inv
BY InitInv, NextInv, PTL DEF Spec

\* The types; nothing is processed that was not scheduled, or recorded beyond the
\* head of the chain.
THEOREM TypeCorrect == Spec => []TypeOK
<1>1. Inv => TypeOK
  BY DEF Inv
<1> QED
  BY <1>1, Invariance, PTL

\* A TRUE of the block fetcher and a FALSE of the logs processor are right when
\* recordIsSynced stores them.
THEOREM StaleValues == Spec => []StaleOneWayOnly
<1>1. Inv => StaleOneWayOnly
  BY DEF Inv
<1> QED
  BY <1>1, Invariance, PTL
=============================================================================
