---------------------------- MODULE AlertsProofs ----------------------------
(***************************************************************************)
(* No message that was sent is reported as unknown, for every history of   *)
(* the two chains.  A job queries up to a time that both cursors have      *)
(* passed; so whatever it sees up to that time, the message it belongs to, *)
(* sent no later, has been stored.                                         *)
(***************************************************************************)
EXTENDS Alerts, TLAPS

\* A handled log of a sent message has stored the message.
SentAreKnown == \A l \in rows : l.kind \in SentKinds => l.msg \in messages

\* A stored processed block covers only handled logs.
CursorsCoverHandled ==
    \A l \in Logs : \A b \in processed[l.side] : l.block <= b => l \in rows

\* Nothing but a repair deletes the timestamp of a processed block.
CursorsHaveTime == \A s \in Sides : processed[s] \ {0} \subseteq timestamps[s]

\* Between its two queries a job has a time both sides are handled up to, if both
\* were indexed when it began.
HandledUpToMinTime ==
    jobPc = "query" /\ job \in UnknownJobs /\ "alerts" \notin early =>
        \A l \in Logs : TimeOf(l) <= minTime => l \in rows

\* An idle job has handed on its alerts, one that sets its metric has reset it.
EarlyOfPhase ==
    /\ jobPc = "idle" => "alerts" \notin early
    /\ jobPc \in {"idle", "query"} => alerts = {}
    /\ jobPc = "set" => metric = {}

Inv ==
    /\ TypeOK
    /\ SentAreKnown
    /\ CursorsCoverHandled
    /\ EarlyOfPhase
    /\ repairs = 0 => CursorsHaveTime /\ HandledUpToMinTime /\ NoFalseUnknownOnceIndexed

-----------------------------------------------------------------------------

\* What every query of db_alerts_provider.go returns are rows of the tables.
LEMMA FoundAreRows ==
    ASSUME job \in Jobs, NEW t
    PROVE  Found(t) \subseteq rows
<1>1. \A kind : Table(kind) \subseteq rows
  BY DEF Table
<1>2. job \in UnknownJobs \cup OtherJobs
  BY JobsAssumption
<1>3. FindUnknownConfirmations(t) \subseteq rows /\ FindUnknownExecutions(t) \subseteq rows
      /\ FindUnknownInformationSignatures(t) \subseteq rows
      /\ FindUnknownInformationExecutions(t) \subseteq rows
  BY <1>1 DEF FindUnknownConfirmations, FindUnknownExecutions, Unknown,
              FindUnknownInformationSignatures, FindUnknownInformationExecutions
<1>4. FindStuckMessages \subseteq rows /\ FindStuckErcToNativeMessages \subseteq rows
  BY <1>1 DEF FindStuckMessages, FindStuckErcToNativeMessages
<1>5. FindFailedExecutions \subseteq rows /\ FindStuckInformationRequests \subseteq rows
  BY <1>1 DEF FindFailedExecutions, FindStuckInformationRequests
<1>6. FindFailedInformationRequests \subseteq rows
      /\ FindDifferentInformationSignatures \subseteq rows
  BY <1>1 DEF FindFailedInformationRequests, FindDifferentInformationSignatures
<1> QED
  BY <1>2, <1>3, <1>4, <1>5, <1>6 DEF Found, UnknownJobs, OtherJobs

\* A job that looks for unknown messages selects only logs without a message
\* up to its time.
LEMMA FoundAreUnknown ==
    ASSUME job \in UnknownJobs, NEW t
    PROVE  \A l \in Found(t) : l \in rows /\ l.msg \notin messages /\ TimeOf(l) <= t
<1>1. \E kind : Found(t) = Unknown(kind, t)
  BY DEF Found, UnknownJobs, FindUnknownConfirmations, FindUnknownExecutions,
         FindUnknownInformationSignatures, FindUnknownInformationExecutions
<1> QED
  BY <1>1 DEF Unknown, Table

\* The cursors have times that are numbers, and the one found is not above that of a
\* side that is indexed.
LEMMA MinTimeBelowCursors ==
    ASSUME TypeOK, NEW m \in Lowest(CursorTimes)
    PROVE  /\ m \in Nat
           /\ CursorsHaveTime =>
                \A s \in Sides : \A b \in processed[s] \ {0} : m <= BlockTime[s][b]
<1>1. \A s \in Sides : \A b \in processed[s] : BlockTime[s][b] \in Nat
  <2>1. \A s \in Sides : processed[s] \subseteq Blocks
    BY DEF TypeOK
  <2> QED
    BY <2>1, TimeAssumption
<1>2. m \in CursorTimes /\ \A u \in CursorTimes : m <= u
  BY DEF Lowest
<1>3. ASSUME NEW u \in CursorTimes PROVE u \in Nat
  <2>1. CASE u \in OtherTimes
    BY <2>1, ConfigAssumption
  <2>2. ASSUME NEW s \in Sides, u \in TimesOf(s) PROVE u \in Nat
    <3>1. PICK b \in processed[s] \cap timestamps[s] : u = BlockTime[s][b]
      BY <2>2 DEF TimesOf
    <3> QED
      BY <1>1, <3>1
  <2> QED
    BY <1>3, <2>1, <2>2 DEF CursorTimes
<1>4. ASSUME CursorsHaveTime, NEW s \in Sides, NEW b \in processed[s] \ {0}
      PROVE  BlockTime[s][b] \in CursorTimes
  <2>1. BlockTime[s][b] \in TimesOf(s)
    BY <1>4 DEF CursorsHaveTime, TimesOf
  <2> QED
    BY <2>1 DEF CursorTimes
<1> QED
  BY <1>2, <1>3, <1>4

LEMMA LogTypes ==
    ASSUME NEW l \in Logs
    PROVE  l.side \in Sides /\ l.block \in Blocks /\ TimeOf(l) \in Nat
<1>1. l \in Log
  BY LogsAssumption
<1>2. l.side \in Sides /\ l.block \in Blocks
  BY <1>1 DEF Log
<1> QED
  BY <1>2, TimeAssumption DEF TimeOf

\* By the times of the blocks a log up to the time found is covered by the
\* cursor of its side, which is indexed.
LEMMA MinTimeIsHandled ==
    ASSUME TypeOK, CursorsCoverHandled, CursorsHaveTime,
           NEW m \in Lowest(CursorTimes), NEW l \in Logs, TimeOf(l) <= m,
           Indexed(l.side)
    PROVE  l \in rows
<1>1. l.side \in Sides /\ l.block \in Blocks /\ TimeOf(l) \in Nat
  BY LogTypes
<1>2. PICK p \in Blocks : p # 0 /\ processed[l.side] = {p}
  BY <1>1 DEF TypeOK, Indexed
<1>3. m \in Nat /\ m <= BlockTime[l.side][p]
  BY <1>1, <1>2, MinTimeBelowCursors
<1>4. BlockTime[l.side][l.block] \in Nat /\ BlockTime[l.side][p] \in Nat
  BY <1>1, <1>2, TimeAssumption
<1>5. ~(p < l.block)
  <2>1. p < l.block => BlockTime[l.side][p] < BlockTime[l.side][l.block]
    BY <1>1, <1>2, TimeAssumption
  <2> QED
    BY <1>3, <1>4, <2>1 DEF TimeOf
<1>6. l.block <= p
  BY <1>1, <1>2, <1>5 DEF Blocks
<1> QED
  BY <1>2, <1>6 DEF CursorsCoverHandled

-----------------------------------------------------------------------------

LEMMA InitInv == Init => Inv
<1> SUFFICES ASSUME Init PROVE Inv
  OBVIOUS
<1>1. TypeOK
  BY SizesAssumption, BoundsAssumption DEF Init, TablesInit, TypeOK, Blocks, Sides
<1>2. SentAreKnown /\ CursorsHaveTime /\ HandledUpToMinTime /\ NoFalseUnknownOnceIndexed
      /\ EarlyOfPhase
  BY DEF Init, TablesInit, SentAreKnown, CursorsHaveTime, HandledUpToMinTime,
         NoFalseUnknownOnceIndexed, EarlyOfPhase
<1>3. CursorsCoverHandled
  BY LogTypes DEF Init, CursorsCoverHandled
<1> QED
  BY <1>1, <1>2, <1>3 DEF Inv

LEMMA TypeStep == TypeOK /\ [Next]_vars => TypeOK'
<1> SUFFICES ASSUME TypeOK, [Next]_vars PROVE TypeOK'
  OBVIOUS
<1> USE DEF TypeOK
<1>1. ASSUME NEW l \in Logs, HandlerStep(l), EnsureMessage(l) PROVE TypeOK'
  <2>1. l.msg \in Messages
    <3>1. l \in Log /\ l.msg # NoMessage
      BY <1>1, LogsAssumption DEF EnsureMessage, SentKinds, ValidatorKinds
    <3> QED
      BY <3>1 DEF Log
  <2> QED
    BY <1>1, <2>1 DEF HandlerStep, EnsureMessage, jobVars
<1>2. ASSUME NEW l \in Logs, HandlerStep(l), EnsureRow(l) PROVE TypeOK'
  BY <1>2 DEF HandlerStep, EnsureRow, jobVars
<1>3. ASSUME NEW s \in Sides, NEW b \in Blocks, TimestampStep(s, b) PROVE TypeOK'
  BY <1>3 DEF TimestampStep, StoreTimestamp, jobVars
<1>4. ASSUME NEW s \in Sides, NEW b \in Blocks, RecordProcessed(s, b) PROVE TypeOK'
  BY <1>4 DEF RecordProcessed, StoreCursor, bridgeTables, jobVars
<1>5. ASSUME NEW s \in Sides, NEW b \in Blocks, StoreOldCursor(s, b) PROVE TypeOK'
  BY <1>5, BoundsAssumption DEF StoreOldCursor, StoreCursor, bridgeTables, jobVars
<1>6. ASSUME RepairTimestamps PROVE TypeOK'
  BY <1>6, BoundsAssumption DEF RepairTimestamps, DeleteTimestamps, jobVars
<1>7. ASSUME FindMinProcessedTime PROVE TypeOK'
  BY <1>7, MinTimeBelowCursors DEF FindMinProcessedTime, tables, bridgeTables
<1>8. ASSUME BeginWithQuery PROVE TypeOK'
  BY <1>8 DEF BeginWithQuery, tables, bridgeTables
<1>9. ASSUME RunQuery PROVE TypeOK'
  BY <1>9, FoundAreRows DEF RunQuery, tables, bridgeTables
<1>10. ASSUME QueryFails PROVE TypeOK'
  BY <1>10 DEF QueryFails, tables, bridgeTables
<1>11. ASSUME ResetMetric PROVE TypeOK'
  BY <1>11 DEF ResetMetric, tables, bridgeTables
<1>12. ASSUME SetMetric PROVE TypeOK'
  BY <1>12 DEF SetMetric, tables, bridgeTables
<1>13. ASSUME Restart PROVE TypeOK'
  BY <1>13, BoundsAssumption DEF Restart, tables, bridgeTables
<1>14. ASSUME UNCHANGED vars PROVE TypeOK'
  BY <1>14 DEF vars, tables, bridgeTables, jobVars
<1> QED
  BY <1>1, <1>2, <1>3, <1>4, <1>5, <1>6, <1>7, <1>8, <1>9, <1>10, <1>11, <1>12,
     <1>13, <1>14 DEF Next, Indexing, HandlerStep, Job

\* One step of a job keeps the invariant; RunQuery is the step that matters.
LEMMA JobStep ==
    ASSUME Inv, Job PROVE Inv'
<1> USE DEF Inv, tables, bridgeTables
<1>1. TypeOK'
  BY TypeStep DEF Next
<1>2. SentAreKnown' /\ CursorsCoverHandled' /\ (CursorsHaveTime => CursorsHaveTime')
      /\ repairs' = repairs /\ job' = job /\ EarlyOfPhase'
  <2>1. UNCHANGED <<tables, job, repairs>>
    BY DEF Job, FindMinProcessedTime, BeginWithQuery, RunQuery, QueryFails,
           ResetMetric, SetMetric
  <2>2. EarlyOfPhase'
    BY DEF Job, FindMinProcessedTime, BeginWithQuery, RunQuery, QueryFails, ResetMetric,
           SetMetric, EarlyOfPhase, TypeOK
  <2> QED
    BY <2>1, <2>2 DEF SentAreKnown, CursorsCoverHandled, CursorsHaveTime
<1> SUFFICES ASSUME repairs = 0 PROVE HandledUpToMinTime' /\ NoFalseUnknownOnceIndexed'
  BY <1>1, <1>2
<1>3. CursorsHaveTime /\ HandledUpToMinTime /\ NoFalseUnknownOnceIndexed
  OBVIOUS
<1>4. CASE FindMinProcessedTime
  <2>1. HandledUpToMinTime'
    <3>1. ASSUME "alerts" \notin early', NEW l \in Logs, TimeOf(l) <= minTime'
          PROVE  l \in rows
      <4>1. Indexed(l.side)
        BY <1>4, <3>1, LogTypes DEF FindMinProcessedTime
      <4> QED
        BY <1>3, <1>4, <3>1, <4>1, MinTimeIsHandled DEF FindMinProcessedTime
    <3> QED
      BY <1>4, <3>1 DEF HandledUpToMinTime, FindMinProcessedTime, TimeOf
  <2>2. NoFalseUnknownOnceIndexed'
    BY <1>3, <1>4 DEF FindMinProcessedTime, NoFalseUnknownOnceIndexed, IsSent
  <2> QED
    BY <2>1, <2>2
<1>5. CASE RunQuery
  <2>1. HandledUpToMinTime'
    BY <1>5 DEF RunQuery, HandledUpToMinTime
  <2>2. ASSUME job \in UnknownJobs, "alerts" \notin early, NEW l \in alerts', IsSent(l.msg)
        PROVE  FALSE
    <3>1. l \in rows /\ l.msg \notin messages /\ TimeOf(l) <= minTime
      BY <1>5, <2>2, FoundAreUnknown DEF RunQuery
    <3>2. l \in Logs /\ minTime \in Nat
      BY <3>1 DEF TypeOK
    <3>3. PICK k \in Logs : k.kind \in SentKinds /\ k.msg = l.msg
      BY <2>2 DEF IsSent
    <3>4. TimeOf(k) <= TimeOf(l)
      BY <3>2, <3>3, CausalityAssumption
    <3>5. TimeOf(k) <= minTime
      BY <3>1, <3>2, <3>4, LogTypes
    <3>6. k \in rows
      BY <1>3, <1>5, <2>2, <3>5 DEF HandledUpToMinTime, RunQuery
    <3> QED
      BY <3>1, <3>3, <3>6 DEF SentAreKnown
  <2>3. NoFalseUnknownOnceIndexed'
    BY <1>2, <1>3, <1>5, <2>2 DEF RunQuery, NoFalseUnknownOnceIndexed, IsSent
  <2> QED
    BY <2>1, <2>3
<1>6. CASE BeginWithQuery
  BY <1>3, <1>6 DEF BeginWithQuery, HandledUpToMinTime, NoFalseUnknownOnceIndexed, IsSent
<1>7. CASE QueryFails
  BY <1>3, <1>7 DEF QueryFails, HandledUpToMinTime, NoFalseUnknownOnceIndexed, IsSent,
         EarlyOfPhase
<1>8. CASE ResetMetric
  BY <1>3, <1>8 DEF ResetMetric, HandledUpToMinTime, NoFalseUnknownOnceIndexed, IsSent
<1>9. CASE SetMetric
  BY <1>3, <1>9 DEF SetMetric, HandledUpToMinTime, NoFalseUnknownOnceIndexed, IsSent,
         EarlyOfPhase
<1> QED
  BY <1>4, <1>5, <1>6, <1>7, <1>8, <1>9 DEF Job

\* What the indexing of the two sides adds keeps what a job has found true.
LEMMA IndexingStep ==
    ASSUME Inv, Indexing PROVE Inv'
<1> USE DEF Inv
<1>1. TypeOK'
  BY TypeStep DEF Next
<1>2. rows \subseteq rows' /\ messages \subseteq messages' /\ UNCHANGED <<jobVars, repairs>>
  BY DEF Indexing, HandlerStep, EnsureMessage, EnsureRow, TimestampStep, StoreTimestamp,
         RecordProcessed, StoreOldCursor, StoreCursor, bridgeTables
<1>3. /\ repairs = 0 => HandledUpToMinTime' /\ NoFalseUnknownOnceIndexed'
      /\ EarlyOfPhase'
  BY <1>2 DEF HandledUpToMinTime, NoFalseUnknownOnceIndexed, EarlyOfPhase, jobVars,
         TimeOf, IsSent
<1>4. ASSUME NEW l \in Logs, HandlerStep(l), EnsureMessage(l) PROVE Inv'
  BY <1>1, <1>3, <1>4
     DEF HandlerStep, EnsureMessage, SentAreKnown, CursorsCoverHandled, CursorsHaveTime
<1>5. ASSUME NEW l \in Logs, HandlerStep(l), EnsureRow(l) PROVE Inv'
  BY <1>1, <1>3, <1>5
     DEF HandlerStep, EnsureRow, SentAreKnown, CursorsCoverHandled, CursorsHaveTime
<1>6. ASSUME NEW s \in Sides, NEW b \in Blocks, TimestampStep(s, b) PROVE Inv'
  <2>1. SentAreKnown' /\ CursorsCoverHandled'
    BY <1>6 DEF TimestampStep, StoreTimestamp, SentAreKnown, CursorsCoverHandled
  <2>2. CursorsHaveTime => CursorsHaveTime'
    BY <1>6 DEF TimestampStep, StoreTimestamp, CursorsHaveTime, TypeOK
  <2> QED
    BY <1>1, <1>2, <1>3, <2>1, <2>2
<1>7. ASSUME NEW s \in Sides, NEW b \in Blocks, StoreCursor(s, b) PROVE Inv'
  <2>1. SentAreKnown'
    BY <1>7 DEF StoreCursor, bridgeTables, SentAreKnown
  <2>2. CursorsCoverHandled'
    <3> SUFFICES ASSUME NEW l \in Logs, NEW p \in processed'[l.side], l.block <= p
                 PROVE  l \in rows
      BY <1>7 DEF StoreCursor, bridgeTables, CursorsCoverHandled
    <3>1. l.side \in Sides /\ l.block \in Blocks
      BY LogTypes
    <3>2. CASE l.side = s
      BY <1>7, <3>1, <3>2 DEF StoreCursor, bridgeTables, HandledBefore, TypeOK, Blocks
    <3>3. CASE l.side # s
      BY <1>7, <3>1, <3>3 DEF StoreCursor, bridgeTables, CursorsCoverHandled, TypeOK
    <3> QED
      BY <3>2, <3>3
  <2>3. CursorsHaveTime => CursorsHaveTime'
    BY <1>7 DEF StoreCursor, bridgeTables, CursorsHaveTime, TypeOK
  <2> QED
    BY <1>1, <1>2, <1>3, <2>1, <2>2, <2>3
<1> QED
  BY <1>4, <1>5, <1>6, <1>7 DEF Indexing, HandlerStep, RecordProcessed, StoreOldCursor

LEMMA NextInv == Inv /\ [Next]_vars => Inv'
<1> SUFFICES ASSUME Inv, [Next]_vars PROVE Inv'
  OBVIOUS
<1>1. CASE Indexing
  BY <1>1, IndexingStep
<1>2. CASE Job
  BY <1>2, JobStep
<1>3. CASE RepairTimestamps
  <2>1. repairs' # 0
    BY <1>3, BoundsAssumption DEF RepairTimestamps, Inv, TypeOK
  <2>2. TypeOK'
    BY TypeStep DEF Inv
  <2> QED
    BY <1>3, <2>1, <2>2
       DEF RepairTimestamps, DeleteTimestamps, Inv, SentAreKnown, CursorsCoverHandled,
           EarlyOfPhase, jobVars
<1>4. CASE Restart
  <2>1. TypeOK'
    BY TypeStep DEF Inv
  <2>2. HandledUpToMinTime' /\ NoFalseUnknownOnceIndexed' /\ EarlyOfPhase'
    BY <1>4 DEF Restart, HandledUpToMinTime, NoFalseUnknownOnceIndexed, EarlyOfPhase
  <2> QED
    BY <1>4, <2>1, <2>2
       DEF Restart, tables, bridgeTables, Inv, SentAreKnown, CursorsCoverHandled, CursorsHaveTime
<1>5. CASE UNCHANGED vars
  BY <1>5 DEF vars, tables, bridgeTables, jobVars, Inv, TypeOK, SentAreKnown, CursorsCoverHandled,
              CursorsHaveTime, HandledUpToMinTime, NoFalseUnknownOnceIndexed, TimeOf, IsSent,
              EarlyOfPhase
<1> QED
  BY <1>1, <1>2, <1>3, <1>4, <1>5 DEF Next

-----------------------------------------------------------------------------

\* The tables, the cursors and the alerts of a job keep their types, and a job
\* reports only rows of the tables (TypeOK), however the chains look.
THEOREM TypeCorrect == Spec => []TypeOK
<1>1. Init => TypeOK
  BY InitInv DEF Inv
<1> QED
  BY <1>1, TypeStep, PTL DEF Spec

\* However far one side is indexed ahead of the other, and however the steps of
\* both interleave with the two queries of a job, an iteration that began when both
\* sides had been indexed reports no message that was sent as unknown, unless
\* fix_block_timestamps has deleted timestamps.
THEOREM NoFalseAlarm == Spec => []NoFalseUnknownOnceIndexed
<1>1. Inv => (repairs = 0 => NoFalseUnknownOnceIndexed)
  BY DEF Inv
<1>2. Inv => NoFalseUnknownOnceIndexed
  BY <1>1 DEF NoFalseUnknownOnceIndexed
<1> QED
  BY <1>2, InitInv, NextInv, PTL DEF Spec
=============================================================================
