-------------------------------- MODULE Alerts --------------------------------
(***************************************************************************)
(* The alert jobs of a bridge (monitor/alerts), which read its tables      *)
(* while both sides are indexed.  The stored processed block of a side     *)
(* covers only handled logs, as Indexer promises.                          *)
(*                                                                         *)
(* The jobs only read the tables and each has a metric of its own, so one  *)
(* job is followed, which may be any of them.  A job that looks for        *)
(* confirmations or executions of unknown messages must not take a message *)
(* for unknown only because the other side is not indexed that far: it     *)
(* first looks for the lowest time both sides are processed up to.         *)
(***************************************************************************)
EXTENDS BridgeTables

CONSTANTS
    AlertStart,     \* first block of each side that alerts are about
    OtherTimes,     \* times of cursors of other contracts, which do not move
    Jobs,           \* names of the configured jobs
    MaxSetbacks,    \* bound: restarts, and old values stored in the cursor
    MaxRepairs      \* bound: runs of fix_block_timestamps

ASSUME ConfigAssumption == AlertStart \in [Sides -> Nat] /\ OtherTimes \subseteq Nat
ASSUME BoundsAssumption == MaxSetbacks \in Nat /\ MaxRepairs \in Nat

VARIABLES
    processed,    \* last_processed_block of each side's row in logs_cursors, if any
    job,          \* the job that is followed
    jobPc,
    minTime,      \* result of findMinProcessedTime
    alerts,       \* result of the job's query
    metric,       \* what the job has published: the logs it reports
    early,        \* history: whether alerts or metric come from an early iteration
    setbacks, repairs

tables == <<bridgeTables, processed>>
jobVars == <<job, jobPc, minTime, alerts, metric, early>>
vars == <<tables, jobVars, setbacks, repairs>>

-----------------------------------------------------------------------------
(* The queries *)

\* JOIN block_timestamps, and the start blocks of the alert.
Selected(l) ==
    l.block \in timestamps[l.side] /\ l.block >= AlertStart[l.side]

\* Selected signatures or executions with no message, up to a time.
Unknown(kind, t) ==
    {l \in Table(kind) : Selected(l) /\ l.msg \notin messages /\ TimeOf(l) <= t}

FindUnknownConfirmations(t) == Unknown("signed", t)

FindUnknownExecutions(t) == Unknown("executed", t)

FindUnknownInformationSignatures(t) == Unknown("info_signed", t)

FindUnknownInformationExecutions(t) == Unknown("info_executed", t)

\* To the foreign side a message waits for its signatures; one of a
\* whitelisted sender that is executed automatically, also for its execution.
FindStuckMessages ==
    {l \in Table("sent") : Selected(l) /\ l.msg \in messages /\
       IF l.msg.direction = "home_to_foreign"
       THEN \/ ~Has("collected", l.msg)
            \/ /\ ~Has("executed", l.msg)
               /\ l.msg.dataType = 0 /\ l.msg.whitelisted
       ELSE ~Has("executed", l.msg)}

FindStuckErcToNativeMessages ==
    {l \in Table("sent") : Selected(l) /\ l.msg \in messages /\
       IF l.msg.direction = "home_to_foreign"
       THEN ~Has("collected", l.msg)
       ELSE ~Has("executed", l.msg) /\ l.msg.value > 0}

FindFailedExecutions ==
    {l \in Table("executed") : Selected(l) /\ l.msg \in messages
                               /\ l.data = "failed" /\ l.msg.dataType \in {0, 128}}

FindStuckInformationRequests ==
    {l \in Table("info_sent") : Selected(l) /\ l.msg \in messages
                                /\ ~Has("info_executed", l.msg)}

FindFailedInformationRequests ==
    {l \in Table("info_executed") : Selected(l) /\ l.msg \in messages /\ l.data = "failed"}

FindDifferentInformationSignatures ==
    {l \in Table("info_sent") : Selected(l) /\ l.msg \in messages
       /\ \E j, k \in Table("info_signed") :
            j.msg = l.msg /\ k.msg = l.msg /\ j.data # k.data}

UnknownJobs == {"unknown_message_confirmation", "unknown_message_execution",
                "unknown_information_signature", "unknown_information_execution"}

OtherJobs == {"stuck_message_confirmation", "stuck_erc_to_native_message_confirmation",
              "failed_message_execution", "stuck_information_request",
              "failed_information_request", "different_information_signatures"}

ASSUME JobsAssumption == Jobs \subseteq UnknownJobs \cup OtherJobs

Found(t) ==
    CASE job = "unknown_message_confirmation" -> FindUnknownConfirmations(t)
      [] job = "unknown_message_execution" -> FindUnknownExecutions(t)
      [] job = "unknown_information_signature" -> FindUnknownInformationSignatures(t)
      [] job = "unknown_information_execution" -> FindUnknownInformationExecutions(t)
      [] job = "stuck_message_confirmation" -> FindStuckMessages
      [] job = "stuck_erc_to_native_message_confirmation" -> FindStuckErcToNativeMessages
      [] job = "failed_message_execution" -> FindFailedExecutions
      [] job = "stuck_information_request" -> FindStuckInformationRequests
      [] job = "failed_information_request" -> FindFailedInformationRequests
      [] job = "different_information_signatures" -> FindDifferentInformationSignatures

-----------------------------------------------------------------------------
(* Indexing *)

\* A side that was never indexed has no row: its cursor is in memory only.
Init ==
    /\ TablesInit /\ processed = [s \in Sides |-> {}]
    /\ job \in Jobs /\ jobPc = "idle" /\ minTime = 0 /\ alerts = {} /\ metric = {}
    /\ early = {}
    /\ setbacks = 0 /\ repairs = 0

HandlerStep(l) ==
    /\ EnsureMessage(l) \/ EnsureRow(l)
    /\ UNCHANGED <<processed, jobVars, setbacks, repairs>>

TimestampStep(s, b) ==
    StoreTimestamp(s, b) /\ UNCHANGED <<processed, jobVars, setbacks, repairs>>

\* The cursor is stored when the block's logs and its timestamp are; but the
\* fetcher may store the first row, at StartBlock - 1, which needs neither.
StoreCursor(s, b) ==
    /\ HandledBefore(s, b + 1)
    /\ b = 0 \/ b \in timestamps[s]
    /\ processed' = [processed EXCEPT ![s] = {b}]
    /\ UNCHANGED <<bridgeTables, jobVars, repairs>>

RecordProcessed(s, b) ==
    (\A a \in processed[s] : a < b) /\ StoreCursor(s, b) /\ UNCHANGED setbacks

\* The fetcher (ContractMonitor) or reprocess_block_range (ReprocessRange) stores an
\* old value of the processed block.
StoreOldCursor(s, b) ==
    /\ setbacks < MaxSetbacks /\ setbacks' = setbacks + 1
    /\ (\E a \in processed[s] : b < a) /\ StoreCursor(s, b)

RepairTimestamps ==
    /\ repairs < MaxRepairs /\ repairs' = repairs + 1
    /\ DeleteTimestamps /\ UNCHANGED <<processed, jobVars, setbacks>>

-----------------------------------------------------------------------------
(* One iteration of a job.  While the monitor is not synced none begins,   *)
(* but it may count as synced before a side is indexed at all.             *)

Highest(times) == {t \in times : \A u \in times : u <= t}

Lowest(times) == {t \in times : \A u \in times : t <= u}

\* The cursors whose processed block has a timestamp; also those of other
\* contracts of the same chain, if their addresses are greater.
TimesOf(s) == {BlockTime[s][b] : b \in processed[s] \cap timestamps[s]}

CursorTimes == (UNION {TimesOf(s) : s \in Sides}) \cup OtherTimes

\* A side has not been indexed: it has no row, or one at StartBlock - 1.
Indexed(s) == ~(processed[s] \subseteq {0})

\* The minimum of no cursor is NULL, and the iteration fails.
FindMinProcessedTime ==
    /\ jobPc = "idle" /\ job \in UnknownJobs
    /\ minTime' \in Lowest(CursorTimes)
    /\ early' = IF \A s \in Sides : Indexed(s) THEN early ELSE early \cup {"alerts"}
    /\ jobPc' = "query"
    /\ UNCHANGED <<tables, job, alerts, metric, setbacks, repairs>>

BeginWithQuery ==
    /\ jobPc = "idle" /\ job \notin UnknownJobs
    /\ jobPc' = "query"
    /\ UNCHANGED <<tables, job, minTime, alerts, metric, early, setbacks, repairs>>

RunQuery ==
    /\ jobPc = "query"
    /\ alerts' = Found(minTime)
    /\ jobPc' = "reset" /\ minTime' = 0
    /\ UNCHANGED <<tables, job, metric, early, setbacks, repairs>>

\* An error or the timeout: the metric keeps its values.
QueryFails ==
    /\ jobPc = "query"
    /\ jobPc' = "idle" /\ minTime' = 0 /\ early' = early \ {"alerts"}
    /\ UNCHANGED <<tables, job, alerts, metric, setbacks, repairs>>

ResetMetric ==
    /\ jobPc = "reset"
    /\ metric' = {} /\ early' = early \ {"metric"}
    /\ jobPc' = "set"
    /\ UNCHANGED <<tables, job, minTime, alerts, setbacks, repairs>>

SetMetric ==
    /\ jobPc = "set"
    /\ metric' = metric \cup alerts /\ alerts' = {}
    /\ early' = IF "alerts" \in early THEN {"metric"} ELSE early
    /\ jobPc' = "idle"
    /\ UNCHANGED <<tables, job, minTime, setbacks, repairs>>

\* The monitor is restarted; what it does again changes no row.
Restart ==
    /\ setbacks < MaxSetbacks /\ setbacks' = setbacks + 1
    /\ jobPc' = "idle" /\ minTime' = 0 /\ alerts' = {} /\ metric' = {}
    /\ early' = {}
    /\ UNCHANGED <<tables, job, repairs>>

-----------------------------------------------------------------------------

Indexing ==
    \/ \E l \in Logs : HandlerStep(l)
    \/ \E s \in Sides, b \in Blocks :
         TimestampStep(s, b) \/ RecordProcessed(s, b) \/ StoreOldCursor(s, b)

Job ==
    \/ FindMinProcessedTime \/ BeginWithQuery \/ RunQuery \/ QueryFails
    \/ ResetMetric \/ SetMetric

Next == Indexing \/ Job \/ RepairTimestamps \/ Restart

Spec == Init /\ [][Next]_vars

\* Both sides are indexed to the end (StoredCursorCatchesUp of
\* ContractMonitor), the monitor stays synced, so the ticker begins the job
\* again and again, and its query does not fail every time.
Fairness ==
    /\ WF_vars(\E l \in Logs : HandlerStep(l))
    /\ WF_vars(\E s \in Sides, b \in Blocks :
                 (b = MaxBlock \/ HasLogs(s, b)) /\ TimestampStep(s, b))
    /\ WF_vars(\E s \in Sides : RecordProcessed(s, MaxBlock))
    /\ WF_vars(FindMinProcessedTime \/ BeginWithQuery \/ ResetMetric \/ SetMetric)
    /\ SF_vars(RunQuery)

FairSpec == Spec /\ Fairness

-----------------------------------------------------------------------------
(* Properties *)

\* The types of the variables; a job reports only rows of the tables.
TypeOK ==
    /\ messages \subseteq Messages /\ rows \subseteq Logs
    /\ timestamps \in [Sides -> SUBSET Blocks]
    /\ processed \in [Sides -> {{}} \cup {{b} : b \in Blocks}]
    /\ job \in Jobs /\ jobPc \in {"idle", "query", "reset", "set"}
    /\ minTime \in Nat /\ alerts \subseteq rows /\ metric \subseteq rows
    /\ early \subseteq {"alerts", "metric"}
    /\ setbacks \in 0..MaxSetbacks /\ repairs \in 0..MaxRepairs

IsSent(m) == \E k \in Logs : k.kind \in SentKinds /\ k.msg = m

\* The help text of alert_unknown_message_confirmation ("Shows found unknown
\* AMB message confirmation sent by some validator.") and the like: a message
\* that was sent is never reported as unknown, however far one side is ahead
\* of the other, and whatever happens between the two queries of the job.
NoFalseUnknown ==
    job \in UnknownJobs => \A l \in alerts \cup metric : ~IsSent(l.msg)

\* The same of all that comes from iterations that began when both sides were
\* indexed, even if a side is set back afterwards, as long as fix_block_timestamps
\* is not run: it may delete the timestamp of a processed block and so hide a side
\* from FindMinProcessedTime.  A side that has no row yet, or one at StartBlock - 1
\* without a timestamp, is hidden from it too; what such an iteration reports is
\* gone with the next one.
NoFalseUnknownOnceIndexed ==
    repairs = 0 /\ job \in UnknownJobs =>
      /\ "alerts" \notin early => \A l \in alerts : ~IsSent(l.msg)
      /\ "metric" \notin early => \A l \in metric : ~IsSent(l.msg)

\* What the history of both chains calls for.
Happened(kind, m) == \E l \in OfKind(kind) : l.msg = m

Reportable(kind) == {l \in OfKind(kind) : l.block >= AlertStart[l.side]}

ToForeign(l) == l.side = "home"

Due ==
    CASE job = "unknown_message_confirmation" -> {l \in Reportable("signed") : ~IsSent(l.msg)}
      [] job = "unknown_message_execution" -> {l \in Reportable("executed") : ~IsSent(l.msg)}
      [] job = "unknown_information_signature" -> {l \in Reportable("info_signed") : ~IsSent(l.msg)}
      [] job = "unknown_information_execution" -> {l \in Reportable("info_executed") : ~IsSent(l.msg)}
      [] job = "stuck_message_confirmation" ->
           {l \in Reportable("sent") :
              \/ ToForeign(l) /\ ~Happened("collected", l.msg)
              \/ /\ ~Happened("executed", l.msg)
                 /\ ToForeign(l) => l.msg.whitelisted /\ l.msg.dataType = 0}
      [] job = "stuck_erc_to_native_message_confirmation" ->
           {l \in Reportable("sent") :
              \/ ToForeign(l) /\ ~Happened("collected", l.msg)
              \/ ~ToForeign(l) /\ ~Happened("executed", l.msg) /\ l.msg.value # 0}
      [] job = "failed_message_execution" ->
           {l \in Reportable("executed") :
              l.data = "failed" /\ IsSent(l.msg) /\ l.msg.dataType # 192}
      [] job = "stuck_information_request" ->
           {l \in Reportable("info_sent") : ~Happened("info_executed", l.msg)}
      [] job = "failed_information_request" ->
           {l \in Reportable("info_executed") : l.data = "failed" /\ IsSent(l.msg)}
      [] job = "different_information_signatures" ->
           {l \in Reportable("info_sent") :
              Cardinality({k.data : k \in {k \in OfKind("info_signed") : k.msg = l.msg}}) > 1}

\* When both chains are indexed, what a job reports settles on exactly what
\* their history calls for: nothing is dropped by a join, hidden by the time
\* limit, or kept from an earlier iteration.
MetricSettles == <>[](metric \subseteq Due) /\ []<>(metric = Due)

\* An unknown confirmation or execution is eventually reported (help texts of
\* the metrics), which FindMinProcessedTime may defer but not suppress.
UnknownIsReported == job \in UnknownJobs => <>(metric = Due)
=============================================================================
