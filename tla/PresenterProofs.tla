--------------------------- MODULE PresenterProofs ---------------------------
(***************************************************************************)
(* What the presenter shows is right for every history, although its       *)
(* queries see the tables at different times: rows are never deleted, so   *)
(* what was stored when a request began is still there for every query.    *)
(***************************************************************************)
EXTENDS Presenter, FiniteSetTheorems, WellFoundedInduction, TLAPS

vars == <<bridgeTables, requestVars>>

Next ==
    \/ TablesNext /\ UNCHANGED requestVars
    \/ RequestNext /\ UNCHANGED bridgeTables

-----------------------------------------------------------------------------
(* What the tables keep *)

\* The tables hold what the logs have brought.
TablesOK ==
    /\ rows \subseteq Logs
    /\ messages \subseteq {l.msg : l \in Logs}
    /\ timestamps \in [Sides -> SUBSET Blocks]

\* A timestamp of a block with logs is not deleted, nor is a row.
Keeps ==
    /\ rows \subseteq rows' /\ messages \subseteq messages'
    /\ \A l \in Logs : HasTimestamp(l) => HasTimestamp(l)'

LEMMA LogTypes ==
    ASSUME NEW l \in Logs
    PROVE  /\ l \in Log /\ l.side \in Sides /\ l.block \in Blocks
           /\ l.block \in Nat /\ l.data \in STRING
<1>1. l \in Log
  BY LogsAssumption
<1> QED
  BY <1>1, SizesAssumption DEF Log, Blocks

LEMMA TablesStart == TablesInit => TablesOK
BY SizesAssumption DEF TablesInit, TablesOK, Blocks

LEMMA TablesStep == TablesOK /\ TablesNext => TablesOK' /\ Keeps
<1> SUFFICES ASSUME TablesOK, TablesNext PROVE TablesOK' /\ Keeps
  OBVIOUS
<1> USE DEF TablesOK, Keeps, HasTimestamp
<1>1. ASSUME NEW l \in Logs, EnsureMessage(l) PROVE TablesOK' /\ Keeps
  BY <1>1 DEF EnsureMessage
<1>2. ASSUME NEW l \in Logs, EnsureRow(l) PROVE TablesOK' /\ Keeps
  BY <1>2 DEF EnsureRow
<1>3. ASSUME NEW s \in Sides, NEW b \in Blocks, StoreTimestamp(s, b) PROVE TablesOK' /\ Keeps
  <2>1. timestamps' = [timestamps EXCEPT ![s] = @ \cup {b}] /\ UNCHANGED <<messages, rows>>
    BY <1>3 DEF StoreTimestamp
  <2>2. ASSUME NEW l \in Logs, HasTimestamp(l) PROVE HasTimestamp(l)'
    BY <2>1, <2>2, LogTypes
  <2> QED
    BY <2>1, <2>2
<1>4. ASSUME DeleteTimestamps PROVE TablesOK' /\ Keeps
  <2>1. /\ timestamps' = [s \in Sides |-> {b \in timestamps[s] : HasLogs(s, b)}]
        /\ UNCHANGED <<messages, rows>>
    BY <1>4 DEF DeleteTimestamps
  <2>2. ASSUME NEW l \in Logs, HasTimestamp(l) PROVE HasTimestamp(l)'
    BY <2>1, <2>2, LogTypes DEF HasLogs
  <2> QED
    BY <2>1, <2>2
<1> QED
  BY <1>1, <1>2, <1>3, <1>4 DEF TablesNext

-----------------------------------------------------------------------------
(* Types, and what is known of the tables as they were before *)

BeforeOK ==
    /\ before.messages \subseteq messages /\ before.rows \subseteq rows
    /\ before.stamped \subseteq Logs
    /\ \A l \in before.stamped : HasTimestamp(l)

BaseInv ==
    /\ TablesOK /\ RequestTypeOK /\ BeforeOK
    /\ required \in Nat /\ IsFiniteSet(validators)

\* The parts of a snapshot, and that it is one of the present tables.
LEMMA StoredNow ==
    ASSUME TablesOK, NEW ls \in SUBSET Logs, before' = StoredOf(ls), UNCHANGED bridgeTables
    PROVE  /\ BeforeOK' /\ before'.messages \subseteq messages
           /\ before'.rows = rows \cap ls /\ before'.stamped \subseteq Logs
           /\ \A l \in ls : HasTimestamp(l) => l \in before'.stamped
           /\ before'.messages = messages \cap {l.msg : l \in ls}
BY DEF StoredOf, BeforeOK, HasTimestamp, bridgeTables

LEMMA ValidatorsTypes ==
    ASSUME TablesOK, NEW s
    PROVE  ActiveValidators(s) \subseteq STRING /\ IsFiniteSet(ActiveValidators(s))
<1> DEFINE added == {k \in Table("added") : k.side = s /\
                       ~\E l \in Table("removed") : l.data = k.data /\ Precedes(k, l)}
           f == [k \in added |-> k.data]
<1>1. added \subseteq Logs
  BY DEF TablesOK, Table
<1>2. ActiveValidators(s) = {k.data : k \in added}
  BY DEF ActiveValidators
<1>3. IsFiniteSet(added)
  BY <1>1, SizesAssumption, FS_Subset
<1>4. f \in Surjection(added, ActiveValidators(s))
  BY <1>2 DEF Surjection
<1>5. IsFiniteSet(ActiveValidators(s))
  BY <1>3, <1>4, FS_Surjection
<1> QED
  BY <1>1, <1>2, <1>5, LogTypes

\* What a request has read stays a part of the tables.
LEMMA BaseTables ==
    ASSUME BaseInv, TablesNext, UNCHANGED requestVars PROVE BaseInv'
<1>1. TablesOK' /\ Keeps
  BY TablesStep DEF BaseInv
<1>2. RequestTypeOK'
  BY <1>1 DEF BaseInv, RequestTypeOK, Keeps, requestVars
<1>3. BeforeOK'
  BY <1>1 DEF BaseInv, BeforeOK, Keeps, requestVars, HasTimestamp
<1> QED
  BY <1>1, <1>2, <1>3 DEF BaseInv, requestVars

\* The queries for the events of a message or of an information request.
LEMMA QueriesOfOwn ==
    /\ own.kind \in InformationKinds =>
         /\ EventQueries = <<"info_sent", "info_signed", "info_executed">>
         /\ Len(EventQueries) = 3
    /\ own.kind \notin InformationKinds =>
         /\ EventQueries = <<"sent", "signed", "collected", "executed">>
         /\ Len(EventQueries) = 4
    /\ Len(EventQueries) \in 3..4
<1> DEFINE i == <<"info_sent", "info_signed", "info_executed">>
           m == <<"sent", "signed", "collected", "executed">>
<1>1. Len(i) = 3 /\ Len(m) = 4
  OBVIOUS
<1>2. EventQueries = IF own.kind \in InformationKinds THEN i ELSE m
  BY DEF EventQueries
<1> HIDE DEF i, m
<1>3. Len(EventQueries) \in 3..4
  BY <1>1, <1>2
<1> QED
  BY <1>1, <1>2, <1>3 DEF i, m

\* A query is followed by the next one, and the last one by the timestamps.
LEMMA QueryStep ==
    ASSUME QueryEvents, query \in 1..4
    PROVE  query' \in 1..4 /\ pc' \in {"events", "enrich"}
<1> DEFINE n == Len(EventQueries)
<1>1. n \in 3..4
  BY QueriesOfOwn
<1>2. /\ pc = "events"
      /\ \/ query < n /\ query' = query + 1 /\ pc' = pc
         \/ query' = 1 /\ pc' = "enrich"
  BY DEF QueryEvents
<1> HIDE DEF n
<1>3. query' \in 1..4
  BY <1>1, <1>2
<1> QED
  BY <1>2, <1>3

LEMMA BaseSearch ==
    ASSUME BaseInv, UNCHANGED bridgeTables, SearchNext PROVE BaseInv'
<1> USE DEF bridgeTables
<1>1. TablesOK'
  BY DEF BaseInv, TablesOK
<1> USE DEF BaseInv, RequestTypeOK, BeforeOK, Answered, HasTimestamp
<1>2. ASSUME NEW p \in Searches, FilterLogs(p) PROVE BaseInv'
  <2>1. LogsOfSearch(p) \subseteq Logs
    BY DEF LogsOfSearch
  <2> QED
    BY <1>1, <1>2, <2>1 DEF FilterLogs
<1>3. ASSUME NEW l \in Followed, NextLog(l) PROVE BaseInv'
  <2>1. l \in Logs /\ {k \in Logs : k.msg = l.msg} \subseteq Logs
    BY SearchesAssumption
  <2>2. BeforeOK' /\ before'.rows \subseteq rows
    BY <1>3, <2>1, StoredNow DEF NextLog
  <2> QED
    BY <1>1, <1>3, <2>1, <2>2 DEF NextLog
<1>4. ASSUME GetByLogID PROVE BaseInv'
  BY <1>1, <1>4 DEF GetByLogID, Continue
<1>5. ASSUME GetMessage PROVE BaseInv'
  BY <1>1, <1>5 DEF GetMessage, Continue
<1>6. ASSUME QueryEvents PROVE BaseInv'
  <2> DEFINE kind == EventQueries[query]
             found == {l \in Table(kind) : l.msg = own.msg}
  <2>1. PICK read \in RowsRead(kind, found) :
          events' = events \cup read /\ unstamped' = unstamped \cup read
    BY <1>6 DEF QueryEvents
  <2>2. read \subseteq rows
    BY DEF RowsRead, OneRow, Table
  <2>3. query' \in 1..4 /\ pc' \in {"events", "enrich"}
    BY <1>6, QueryStep
  <2> QED
    BY <1>1, <1>6, <2>1, <2>2, <2>3 DEF QueryEvents
<1>7. ASSUME EnrichEvent PROVE BaseInv'
  <2>1. unstamped' \subseteq unstamped /\ pc' \in {"enrich", "found", "dropped"}
    BY <1>7 DEF EnrichEvent
  <2> QED
    BY <1>1, <1>7, <2>1 DEF EnrichEvent
<1> QED
  BY <1>2, <1>3, <1>4, <1>5, <1>6, <1>7 DEF SearchNext

LEMMA BaseEnd ==
    ASSUME BaseInv, UNCHANGED bridgeTables, EndRequest PROVE BaseInv'
<1>1. TablesOK'
  BY DEF BaseInv, TablesOK, bridgeTables
<1>2. BeforeOK'
  BY StoredNow DEF BaseInv, EndRequest
<1>3. pc' = "idle" /\ logs' = {} /\ own' = NoLog /\ query' = 1 /\ required' = 0
  BY DEF EndRequest
<1>4. events' = {} /\ unstamped' = {} /\ validators' = {} /\ pending' = {} /\ shown' = {}
  BY DEF EndRequest
<1>5. query' \in 1..4
  BY <1>3
<1>6. RequestTypeOK'
  BY <1>2, <1>3, <1>4, <1>5 DEF RequestTypeOK, BeforeOK, Answered
<1> QED
  BY <1>1, <1>2, <1>3, <1>4, <1>6, FS_EmptySet DEF BaseInv

LEMMA BasePage ==
    ASSUME BaseInv, UNCHANGED bridgeTables, PageNext \/ Respond \/ RequestFails PROVE BaseInv'
<1> USE DEF bridgeTables
<1>1. TablesOK'
  BY DEF BaseInv, TablesOK
<1> USE DEF BaseInv, RequestTypeOK, BeforeOK, Answered, HasTimestamp
<1>2. ASSUME GetRequiredSignatures PROVE BaseInv'
  <2>1. ToForeignLogs({"sent", "signed", "executed"}) \subseteq Logs
    BY DEF ToForeignLogs
  <2>2. BeforeOK'
    BY <1>2, <2>1, StoredNow DEF GetRequiredSignatures
  <2> QED
    BY <1>1, <1>2, <2>2, SignaturesAssumption DEF GetRequiredSignatures
<1>3. ASSUME FindValidators PROVE BaseInv'
  BY <1>1, <1>3, ValidatorsTypes DEF FindValidators
<1>4. ASSUME FindPending PROVE BaseInv'
  BY <1>1, <1>4 DEF FindPending
<1>5. ASSUME FindSignatures PROVE BaseInv'
  BY <1>1, <1>5 DEF FindSignatures
<1>6. ASSUME ListValidators PROVE BaseInv'
  <2>1. OfKind("signed") \subseteq Logs
    BY DEF OfKind
  <2>2. BeforeOK'
    BY <1>6, <2>1, StoredNow DEF ListValidators
  <2> QED
    BY <1>1, <1>6, <2>2, ValidatorsTypes DEF ListValidators
<1>7. ASSUME ListMoreValidators PROVE BaseInv'
  <2>1. validators' \subseteq STRING /\ IsFiniteSet(validators')
    BY <1>7, ValidatorsTypes, FS_Union DEF ListMoreValidators
  <2> QED
    BY <1>1, <1>7, <2>1 DEF ListMoreValidators
<1>8. ASSUME GetLatest PROVE BaseInv'
  <2>1. PICK v \in validators : validators' = {v} /\ shown' \in OneRow(LatestSigned(v))
    BY <1>8 DEF GetLatest
  <2>2. IsFiniteSet({v})
    BY FS_Singleton
  <2>3. shown' \subseteq rows
    BY <2>1 DEF OneRow, LatestSigned, SignedBy, Table
  <2> QED
    BY <1>1, <1>8, <2>1, <2>2, <2>3 DEF GetLatest
<1>9. ASSUME GetConfirmationTime PROVE BaseInv'
  BY <1>1, <1>9 DEF GetConfirmationTime
<1>10. ASSUME EndRequest PROVE BaseInv'
  BY <1>10, BaseEnd
<1> QED
  BY <1>2, <1>3, <1>4, <1>5, <1>6, <1>7, <1>8, <1>9, <1>10 DEF PageNext, Respond, RequestFails

LEMMA BaseStart == TablesInit /\ RequestInit => BaseInv
<1> SUFFICES ASSUME TablesInit, RequestInit PROVE BaseInv
  OBVIOUS
<1>1. TablesOK
  BY TablesStart
<1>2. /\ pc = "idle" /\ logs = {} /\ own = NoLog /\ query = 1 /\ required = 0
      /\ events = {} /\ unstamped = {} /\ validators = {} /\ pending = {} /\ shown = {}
      /\ before = StoredOf({})
  BY DEF RequestInit
<1>3. before.messages = {} /\ before.rows = {} /\ before.stamped = {}
  BY <1>2 DEF StoredOf
<1>4. RequestTypeOK /\ BeforeOK
  <2>1. query \in 1..4
    BY <1>2
  <2> QED
    BY <1>2, <1>3, <2>1 DEF RequestTypeOK, BeforeOK, Answered
<1> QED
  BY <1>1, <1>2, <1>4, FS_EmptySet DEF BaseInv

-----------------------------------------------------------------------------
(* A search *)

SearchPcs == {"logs", "row", "message", "events", "enrich", "found", "dropped"}
PagePcs == {"validators", "pending", "signatures", "unsigned", "more validators",
            "latest", "confirmation", "listed"}

\* A log is among the events, or another one of its kind of which only one is read.
Covered(l) ==
    l \in events \/ \E k \in events : k.kind = l.kind /\ k.kind \notin {"signed", "info_signed"}

OwnOK ==
    pc \in {"row", "message", "events", "enrich", "found", "dropped"} =>
      own \in Logs /\ \A l \in before.rows : l.msg = own.msg

FoundOK ==
    pc \in {"message", "events", "enrich", "found"} => own \in rows /\ own.kind \in SearchedKinds

EventsOK ==
    /\ pc \notin {"events", "enrich", "found", "dropped"} => events = {}
    /\ \A l \in events : l.msg = own.msg

\* What the queries up to now have read.
CoveredOK ==
    /\ pc # "events" => query = 1
    /\ pc = "events" =>
         \A l \in before.rows \cup {own}, i \in 1..4 :
             i < query /\ EventQueries[i] = l.kind => Covered(l)
    /\ pc \in {"enrich", "found"} => \A l \in before.rows \cup {own} : Covered(l)

SearchInv == OwnOK /\ FoundOK /\ EventsOK /\ CoveredOK /\ FoundUnlessNew

LEMMA SearchTables ==
    ASSUME BaseInv, SearchInv, TablesNext, UNCHANGED requestVars PROVE SearchInv'
<1>1. Keeps
  BY TablesStep DEF BaseInv
<1>2. /\ pc' = pc /\ own' = own /\ query' = query /\ events' = events /\ before' = before
      /\ rows \subseteq rows'
  BY <1>1 DEF requestVars, Keeps
<1>3. OwnOK' /\ FoundOK' /\ EventsOK'
  BY <1>2 DEF SearchInv, OwnOK, FoundOK, EventsOK
<1>4. CoveredOK'
  BY <1>2 DEF SearchInv, CoveredOK, Covered, EventQueries
<1>5. FoundUnlessNew'
  BY <1>2 DEF SearchInv, FoundUnlessNew
<1> QED
  BY <1>3, <1>4, <1>5 DEF SearchInv

\* Every event of the message of the log that is followed is of one of the queries.
LEMMA KindQueried ==
    ASSUME own \in Logs, own.kind \in SearchedKinds, NEW l \in Logs, l.msg = own.msg
    PROVE  \E i \in 1..Len(EventQueries) : EventQueries[i] = l.kind
<1>1. l.kind \in Kinds /\ own.kind \in Kinds
  BY LogsAssumption DEF Log
<1>2. l.kind \notin ValidatorKinds
  <2>1. own.kind \notin ValidatorKinds
    BY DEF SearchedKinds, SentKinds, ValidatorKinds
  <2>2. own.msg # NoMessage
    BY <2>1, LogsAssumption
  <2> QED
    BY <2>2, LogsAssumption
<1>3. CASE own.kind \in InformationKinds
  <2>1. l.kind \in {"info_sent", "info_signed", "info_executed"}
    BY <1>3, RequestsAssumption DEF InformationKinds
  <2>2. EventQueries = <<"info_sent", "info_signed", "info_executed">> /\ Len(EventQueries) = 3
    BY <1>3, QueriesOfOwn
  <2>3. 1 \in 1..3 /\ 2 \in 1..3 /\ 3 \in 1..3
    OBVIOUS
  <2> QED
    BY <2>1, <2>2, <2>3
<1>4. CASE own.kind \notin InformationKinds
  <2>1. l.kind \notin InformationKinds
    BY <1>4, RequestsAssumption
  <2>2. l.kind \in {"sent", "signed", "collected", "executed"}
    BY <1>1, <1>2, <2>1 DEF Kinds, SentKinds, ValidatorKinds, InformationKinds
  <2>3. EventQueries = <<"sent", "signed", "collected", "executed">> /\ Len(EventQueries) = 4
    BY <1>4, QueriesOfOwn
  <2>4. 1 \in 1..4 /\ 2 \in 1..4 /\ 3 \in 1..4 /\ 4 \in 1..4
    OBVIOUS
  <2> QED
    BY <2>2, <2>3, <2>4
<1> QED
  BY <1>3, <1>4

\* A query covers what was stored of its kind, and leaves the rest covered.
LEMMA QueryCovers ==
    ASSUME BaseInv, SearchInv, QueryEvents, UNCHANGED bridgeTables
    PROVE  SearchInv'
<1> DEFINE kind == EventQueries[query]
           found == {l \in Table(kind) : l.msg = own.msg}
<1>1. PICK read \in RowsRead(kind, found) :
        events' = events \cup read /\ unstamped' = unstamped \cup read
  BY DEF QueryEvents
<1>2. /\ pc = "events" /\ own' = own /\ before' = before
      /\ \/ query < Len(EventQueries) /\ query' = query + 1 /\ pc' = pc
         \/ query >= Len(EventQueries) /\ query' = 1 /\ pc' = "enrich"
  <2>1. Len(EventQueries) \in 3..4 /\ query \in 1..4
    BY QueriesOfOwn DEF BaseInv, RequestTypeOK
  <2> DEFINE n == Len(EventQueries)
  <2>2. /\ pc = "events" /\ own' = own /\ before' = before
        /\ \/ query < n /\ query' = query + 1 /\ pc' = pc
           \/ ~(query < n) /\ query' = 1 /\ pc' = "enrich"
    BY DEF QueryEvents
  <2> HIDE DEF n
  <2>3. n \in 3..4
    BY <2>1 DEF n
  <2>4. ~(query < n) <=> query >= n
    BY <2>1, <2>3
  <2> QED
    BY <2>2, <2>4 DEF n
<1>3. own \in Logs /\ own \in rows /\ own.kind \in SearchedKinds
  BY <1>2 DEF SearchInv, OwnOK, FoundOK
<1>4. \A l \in before.rows \cup {own} : l \in rows /\ l \in Logs /\ l.msg = own.msg
  BY <1>2, <1>3 DEF BaseInv, TablesOK, BeforeOK, SearchInv, OwnOK
<1>5. read \subseteq found
  BY DEF RowsRead, OneRow
<1>6. ASSUME NEW l \in before.rows \cup {own}, l.kind = kind PROVE Covered(l)'
  <2>1. l \in found
    BY <1>4, <1>6 DEF Table
  <2>2. CASE kind \in {"signed", "info_signed"}
    BY <1>1, <2>1, <2>2 DEF RowsRead, Covered
  <2>3. CASE kind \notin {"signed", "info_signed"}
    <3>1. read \in {{k} : k \in found}
      BY <2>1, <2>3 DEF RowsRead, OneRow
    <3>2. PICK k \in found : read = {k}
      BY <3>1
    <3>3. k \in events' /\ k.kind = l.kind /\ k.kind \notin {"signed", "info_signed"}
      BY <1>1, <1>6, <2>3, <3>2 DEF Table
    <3> QED
      BY <3>3 DEF Covered
  <2> QED
    BY <2>2, <2>3
<1>7. ASSUME NEW l \in before.rows \cup {own}, Covered(l) PROVE Covered(l)'
  BY <1>1, <1>7 DEF Covered
<1>8. EventQueries' = EventQueries
  BY <1>2 DEF EventQueries
<1>9. ASSUME NEW l \in before.rows \cup {own}, NEW i \in 1..4, i <= query,
             EventQueries[i] = l.kind
      PROVE  Covered(l)'
  <2>1. CASE i = query
    BY <1>6, <1>9, <2>1
  <2>2. CASE i # query
    <3>1. query \in 1..4
      BY DEF BaseInv, RequestTypeOK
    <3>2. i < query
      BY <1>9, <2>2, <3>1
    <3> QED
      BY <1>2, <1>7, <1>9, <3>2 DEF SearchInv, CoveredOK
  <2> QED
    BY <2>1, <2>2
<1> HIDE DEF kind, found
<1>10. query \in 1..4 /\ Len(EventQueries) \in 3..4
  BY QueriesOfOwn DEF BaseInv, RequestTypeOK
<1>11. CoveredOK'
  <2>1. CASE query < Len(EventQueries) /\ query' = query + 1 /\ pc' = pc
    <3>1. ASSUME NEW l \in before.rows \cup {own}, NEW i \in 1..4, i < query + 1,
                 EventQueries[i] = l.kind
          PROVE  Covered(l)'
      <4>1. i <= query
        BY <1>10, <3>1
      <4> QED
        BY <1>9, <3>1, <4>1
    <3> QED
      BY <1>2, <1>8, <2>1, <3>1 DEF CoveredOK
  <2>2. CASE query >= Len(EventQueries) /\ query' = 1 /\ pc' = "enrich"
    <3>1. ASSUME NEW l \in before.rows \cup {own} PROVE Covered(l)'
      <4>1. PICK i \in 1..Len(EventQueries) : EventQueries[i] = l.kind
        BY <1>3, <1>4, KindQueried
      <4>2. i \in 1..4 /\ i <= query
        BY <1>10, <2>2, <4>1
      <4> QED
        BY <1>9, <4>1, <4>2
    <3> QED
      BY <1>2, <2>2, <3>1 DEF CoveredOK
  <2> QED
    BY <1>2, <2>1, <2>2
<1>12. UNCHANGED <<own, before>> /\ pc' \in {"events", "enrich"}
  BY <1>2
<1>13. EventsOK'
  BY <1>1, <1>5, <1>12 DEF SearchInv, EventsOK, found
<1>14. OwnOK'
  BY <1>3, <1>4, <1>12 DEF OwnOK
<1>15. FoundOK'
  <2>1. rows' = rows
    BY DEF bridgeTables
  <2> QED
    BY <1>3, <1>12, <2>1 DEF FoundOK
<1>16. FoundUnlessNew'
  BY <1>12 DEF FoundUnlessNew
<1> QED
  BY <1>11, <1>13, <1>14, <1>15, <1>16 DEF SearchInv

\* An event that has no timestamp is newer than the timestamps of before.
LEMMA EnrichKeeps ==
    ASSUME BaseInv, SearchInv, EnrichEvent, UNCHANGED bridgeTables
    PROVE  SearchInv'
<1>1. /\ pc = "enrich" /\ pc' \in {"enrich", "found", "dropped"}
      /\ own' = own /\ query' = query /\ events' = events /\ before' = before /\ rows' = rows
  BY DEF EnrichEvent, bridgeTables
<1>2. PICK l \in unstamped : pc' = "dropped" => ~HasTimestamp(l)
  BY DEF EnrichEvent
<1>3. l \in rows /\ l.msg = own.msg
  BY <1>2 DEF BaseInv, RequestTypeOK, SearchInv, EventsOK
<1>4. FoundUnlessNew'
  BY <1>1, <1>2, <1>3 DEF BaseInv, BeforeOK, FoundUnlessNew
<1>5. OwnOK' /\ FoundOK' /\ EventsOK'
  BY <1>1 DEF SearchInv, OwnOK, FoundOK, EventsOK
<1>6. CoveredOK'
  BY <1>1 DEF SearchInv, CoveredOK, Covered
<1> QED
  BY <1>4, <1>5, <1>6 DEF SearchInv

LEMMA SearchSteps ==
    ASSUME BaseInv, SearchInv, SearchNext, UNCHANGED bridgeTables
    PROVE  SearchInv'
<1>1. ASSUME NEW p \in Searches, FilterLogs(p) PROVE SearchInv'
  <2>1. pc = "idle" /\ pc' = "logs" /\ UNCHANGED <<own, query, events, before>>
    BY <1>1 DEF FilterLogs
  <2> QED
    BY <2>1 DEF SearchInv, OwnOK, FoundOK, EventsOK, CoveredOK, FoundUnlessNew
<1>2. ASSUME NEW l \in Followed, NextLog(l) PROVE SearchInv'
  <2>1. /\ pc = "logs" /\ pc' = "row" /\ own' = l /\ UNCHANGED <<query, events>>
        /\ before' = StoredOf({k \in Logs : k.msg = l.msg}) /\ l \in Logs
    BY <1>2, SearchesAssumption DEF NextLog
  <2>2. events = {} /\ query = 1
    BY <2>1 DEF SearchInv, EventsOK, CoveredOK
  <2>3. OwnOK'
    BY <2>1 DEF StoredOf, OwnOK
  <2> QED
    BY <2>1, <2>2, <2>3 DEF SearchInv, FoundOK, EventsOK, CoveredOK, FoundUnlessNew
<1>3. ASSUME GetByLogID PROVE SearchInv'
  <2>1. /\ pc = "row" /\ UNCHANGED <<own, query, events, before, rows>>
        /\ pc' = IF own \in rows /\ own.kind \in SearchedKinds THEN "message" ELSE "dropped"
    BY <1>3 DEF GetByLogID, Continue, bridgeTables
  <2>2. before.rows \subseteq rows
    BY DEF BaseInv, BeforeOK
  <2>3. OwnOK' /\ FoundOK' /\ FoundUnlessNew'
    BY <2>1, <2>2 DEF SearchInv, OwnOK, FoundOK, FoundUnlessNew
  <2>4. EventsOK' /\ CoveredOK'
    BY <2>1 DEF SearchInv, EventsOK, CoveredOK
  <2> QED
    BY <2>3, <2>4 DEF SearchInv
<1>4. ASSUME GetMessage PROVE SearchInv'
  <2>1. /\ pc = "message" /\ UNCHANGED <<own, query, events, before, rows, messages>>
        /\ pc' = IF own.msg \in messages THEN "events" ELSE "dropped"
    BY <1>4 DEF GetMessage, Continue, bridgeTables
  <2>2. before.messages \subseteq messages
    BY DEF BaseInv, BeforeOK
  <2>3. OwnOK' /\ FoundOK' /\ FoundUnlessNew'
    BY <2>1, <2>2 DEF SearchInv, OwnOK, FoundOK, FoundUnlessNew
  <2>4. EventsOK'
    BY <2>1 DEF SearchInv, EventsOK
  <2>5. CoveredOK'
    <3>1. query = 1 /\ \A i \in 1..4 : ~(i < 1)
      BY <2>1 DEF SearchInv, CoveredOK
    <3> QED
      BY <2>1, <3>1 DEF CoveredOK
  <2> QED
    BY <2>3, <2>4, <2>5 DEF SearchInv
<1> QED
  BY <1>1, <1>2, <1>3, <1>4, QueryCovers, EnrichKeeps DEF SearchNext

\* Between searches nothing is left of one.
LEMMA SearchEnds ==
    ASSUME SearchInv, PageNext \/ EndRequest, UNCHANGED bridgeTables
    PROVE  SearchInv'
<1>1. ASSUME EndRequest PROVE SearchInv'
  <2>1. pc' = "idle" /\ query' = 1 /\ events' = {}
    BY <1>1 DEF EndRequest
  <2> QED
    BY <2>1 DEF SearchInv, OwnOK, FoundOK, EventsOK, CoveredOK, FoundUnlessNew
<1>2. ASSUME PageNext PROVE SearchInv'
  <2>1. pc \in PagePcs \cup {"idle"} /\ pc' \in PagePcs /\ UNCHANGED <<own, query, events>>
    BY <1>2 DEF PageNext, PagePcs, GetRequiredSignatures, FindValidators, FindPending,
                FindSignatures, ListValidators, ListMoreValidators, GetLatest,
                GetConfirmationTime
  <2>2. /\ pc \notin {"events", "enrich", "found", "dropped"} => events = {}
        /\ pc # "events" => query = 1
    BY DEF SearchInv, EventsOK, CoveredOK
  <2>3. events = {} /\ query = 1
    BY <2>1, <2>2 DEF PagePcs
  <2>4. events' = {} /\ query' = 1 /\ pc' \in PagePcs
    BY <2>1, <2>3
  <2> QED
    BY <2>4 DEF SearchInv, OwnOK, FoundOK, EventsOK, CoveredOK, FoundUnlessNew, PagePcs
<1> QED
  BY <1>1, <1>2

-----------------------------------------------------------------------------
(* The page of messages without signatures *)

\* An executed row is not deleted, so a message that is missing stays executed.
PendingOK ==
    pc = "signatures" =>
      /\ \A m \in before.messages :
           m.direction = "home_to_foreign" /\ ~Has("executed", m) => m \in pending
      /\ \A m \in pending : \A l \in before.rows : l.msg = m => l.kind # "executed"

\* More rows, more signers.
LEMMA MoreSigners ==
    ASSUME IsFiniteSet(validators), NEW m, NEW R, NEW S, R \subseteq S
    PROVE  /\ Cardinality(ListedSigners(m, R)) \in Nat
           /\ Cardinality(ListedSigners(m, S)) \in Nat
           /\ Cardinality(ListedSigners(m, R)) <= Cardinality(ListedSigners(m, S))
<1>1. ListedSigners(m, R) \subseteq ListedSigners(m, S) /\ ListedSigners(m, S) \subseteq validators
  BY DEF ListedSigners
<1>2. IsFiniteSet(ListedSigners(m, S))
  BY <1>1, FS_Subset
<1>3. IsFiniteSet(ListedSigners(m, R))
  BY <1>1, <1>2, FS_Subset
<1> QED
  BY <1>1, <1>2, <1>3, FS_Subset, FS_CardinalityType

\* What the page counts are the listed signers.
LEMMA CountedAreListed ==
    ASSUME NEW m
    PROVE  SignersOf(m, Table("signed")) \cap validators = ListedSigners(m, rows)
<1>1. ASSUME NEW v \in validators
      PROVE  v \in SignersOf(m, Table("signed")) <=> v \in ListedSigners(m, rows)
  <2>1. v \in {s.signer : s \in {s \in UploadedSignatures : s.msg = m}}
          <=> [msg |-> m, signer |-> v] \in UploadedSignatures
    <3>1. ASSUME [msg |-> m, signer |-> v] \in UploadedSignatures
          PROVE  v \in {s.signer : s \in {s \in UploadedSignatures : s.msg = m}}
      BY <3>1
    <3>2. ASSUME NEW s \in UploadedSignatures, s.msg = m, s.signer = v
          PROVE  [msg |-> m, signer |-> v] \in UploadedSignatures
      <4>1. s = [msg |-> s.msg, signer |-> s.signer]
        BY SignaturesAssumption
      <4> QED
        BY <3>2, <4>1
    <3> QED
      BY <3>1, <3>2
  <2>2. v \in {l.data : l \in {l \in Table("signed") : l.kind = "signed" /\ l.msg = m}}
          <=> \E l \in rows : l.kind = "signed" /\ l.msg = m /\ l.data = v
    BY DEF Table
  <2> QED
    BY <2>1, <2>2 DEF SignersOf, ListedSigners
<1>2. ListedSigners(m, rows) \subseteq validators
  BY DEF ListedSigners
<1> QED
  BY <1>1, <1>2

LEMMA UnsignedFound ==
    ASSUME BaseInv, PendingOK, FindSignatures, UNCHANGED bridgeTables
    PROVE  UnsignedAreShown'
<1>1. /\ pc = "signatures" /\ UNCHANGED <<messages, rows, validators, required, before>>
      /\ shown' = {m \in pending : LacksSignatures(m, Table("signed"))}
  BY DEF FindSignatures, bridgeTables
<1>2. shown' = {m \in pending : Cardinality(ListedSigners(m, rows)) < required}
  BY <1>1, CountedAreListed DEF LacksSignatures
<1>3. \A m : ListedSigners(m, rows)' = ListedSigners(m, rows)
  BY <1>1 DEF ListedSigners
<1>4. \A m : ListedSigners(m, before.rows)' = ListedSigners(m, before.rows)
  BY <1>1 DEF ListedSigners
<1>5. \A m : Has("executed", m)' <=> Has("executed", m)
  BY <1>1 DEF Has, Table
<1>6. ASSUME NEW m \in before.messages, m.direction = "home_to_foreign",
             ~Has("executed", m), Cardinality(ListedSigners(m, rows)) < required
      PROVE  m \in shown'
  BY <1>1, <1>2, <1>6 DEF PendingOK
<1>7. ASSUME NEW m \in shown'
      PROVE  /\ \A l \in before.rows : l.msg = m => l.kind # "executed"
             /\ Cardinality(ListedSigners(m, before.rows)) < required
  <2>1. m \in pending /\ Cardinality(ListedSigners(m, rows)) < required
    BY <1>2
  <2>2. Cardinality(ListedSigners(m, before.rows)) <= Cardinality(ListedSigners(m, rows))
    BY MoreSigners DEF BaseInv, BeforeOK
  <2>3. Cardinality(ListedSigners(m, before.rows)) \in Nat
        /\ Cardinality(ListedSigners(m, rows)) \in Nat /\ required \in Nat
    BY MoreSigners DEF BaseInv, BeforeOK
  <2>4. Cardinality(ListedSigners(m, before.rows)) < required
    BY <2>1, <2>2, <2>3
  <2> QED
    BY <1>1, <2>1, <2>4 DEF PendingOK
<1> QED
  BY <1>1, <1>3, <1>4, <1>5, <1>6, <1>7 DEF UnsignedAreShown

LEMMA UnsignedTables ==
    ASSUME BaseInv, PendingOK, UnsignedAreShown, TablesNext, UNCHANGED requestVars
    PROVE  PendingOK' /\ UnsignedAreShown'
<1>1. rows \subseteq rows'
  BY TablesStep DEF BaseInv, Keeps
<1>2. UNCHANGED <<pc, validators, required, pending, shown, before>>
  BY DEF requestVars
<1>3. \A m : Has("executed", m) => Has("executed", m)'
  BY <1>1 DEF Has, Table
<1>4. PendingOK'
  BY <1>2, <1>3 DEF PendingOK
<1>5. \A m : /\ ListedSigners(m, rows)' = ListedSigners(m, rows')
             /\ ListedSigners(m, before.rows)' = ListedSigners(m, before.rows)
  BY <1>2 DEF ListedSigners
<1>6. ASSUME NEW m, Cardinality(ListedSigners(m, rows)') < required
      PROVE  Cardinality(ListedSigners(m, rows)) < required
  <2>1. /\ Cardinality(ListedSigners(m, rows)) <= Cardinality(ListedSigners(m, rows'))
        /\ Cardinality(ListedSigners(m, rows)) \in Nat
        /\ Cardinality(ListedSigners(m, rows')) \in Nat /\ required \in Nat
    BY <1>1, MoreSigners DEF BaseInv
  <2>2. Cardinality(ListedSigners(m, rows')) < required
    BY <1>5, <1>6
  <2> QED
    BY <2>1, <2>2
<1>7. UnsignedAreShown'
  BY <1>2, <1>3, <1>5, <1>6 DEF UnsignedAreShown
<1> QED
  BY <1>4, <1>7

-----------------------------------------------------------------------------
(* The page of validators *)

\* Of the signed logs of a validator, one has the last block.
LEMMA LatestExists ==
    ASSUME NEW S \in SUBSET Logs, S # {}
    PROVE  \E l \in S : \A k \in S : k.block <= l.block
<1> DEFINE R == OpToRel(<, Nat)
           T == {MaxBlock - l.block : l \in S}
<1>1. \A l \in S : l.block \in Nat /\ l.block <= MaxBlock /\ MaxBlock \in Nat
  BY LogTypes, SizesAssumption DEF Blocks
<1>2. T \subseteq Nat /\ T # {}
  BY <1>1
<1>3. IsWellFoundedOn(R, Nat)
  BY NatLessThanWellFounded, Zenon
<1>4. \A x, y \in Nat : y < x => <<y, x>> \in R
  BY DEF OpToRel
<1> HIDE DEF R, T
<1>5. PICK x \in T : \A y \in T : ~(<<y, x>> \in R)
  BY <1>2, <1>3, WFMin
<1>6. PICK l \in S : x = MaxBlock - l.block
  BY <1>5 DEF T
<1>7. ASSUME NEW k \in S PROVE k.block <= l.block
  <2>1. MaxBlock - k.block \in T
    BY DEF T
  <2>2. ~(MaxBlock - k.block < MaxBlock - l.block)
    BY <1>2, <1>4, <1>5, <1>6, <2>1
  <2> QED
    BY <1>1, <2>2
<1> QED
  BY <1>7

\* The rows of before are signatures, and the confirmation is one of the latest.
ConfirmationOK ==
    /\ pc \in {"more validators", "latest", "confirmation", "listed"} =>
         before.rows \subseteq OfKind("signed")
    /\ pc \in {"confirmation", "listed"} =>
         \A k \in before.rows : (k.side = "home" /\ k.data \in validators) =>
             \E l \in shown : l.data = k.data /\ l.block >= k.block

LEMMA LatestFound ==
    ASSUME BaseInv, ConfirmationOK, GetLatest, UNCHANGED bridgeTables
    PROVE  ConfirmationOK'
<1>1. pc = "latest" /\ pc' \in {"confirmation", "listed"} /\ before' = before
  BY DEF GetLatest
<1>2. PICK v \in validators : validators' = {v} /\ shown' \in OneRow(LatestSigned(v))
  BY DEF GetLatest
<1>3. before.rows \subseteq rows /\ rows \subseteq Logs /\ before.rows \subseteq OfKind("signed")
  BY <1>1 DEF BaseInv, BeforeOK, TablesOK, ConfirmationOK
<1>4. ASSUME NEW k \in before.rows, k.side = "home", k.data = v
      PROVE  \E l \in shown' : l.data = k.data /\ l.block >= k.block
  <2>1. k \in SignedBy(v) /\ SignedBy(v) \in SUBSET Logs
    BY <1>3, <1>4 DEF SignedBy, Table, OfKind
  <2>2. LatestSigned(v) # {}
    BY <2>1, LatestExists DEF LatestSigned
  <2>3. PICK l \in LatestSigned(v) : shown' = {l}
    BY <1>2, <2>2 DEF OneRow
  <2>4. l.data = v /\ k.block <= l.block /\ l \in Logs /\ k \in Logs
    BY <1>3, <2>1 DEF LatestSigned, SignedBy
  <2>5. l.block >= k.block
    BY <2>4, LogTypes
  <2> QED
    BY <1>4, <2>3, <2>4, <2>5
<1> QED
  BY <1>1, <1>2, <1>3, <1>4 DEF ConfirmationOK, OfKind

-----------------------------------------------------------------------------
(* Both pages *)

PageInv == PendingOK /\ UnsignedAreShown /\ ConfirmationOK

LEMMA PageTables ==
    ASSUME BaseInv, PageInv, TablesNext, UNCHANGED requestVars PROVE PageInv'
<1>1. ConfirmationOK'
  BY DEF PageInv, ConfirmationOK, requestVars, OfKind
<1> QED
  BY <1>1, UnsignedTables DEF PageInv

LEMMA PageSteps ==
    ASSUME BaseInv, PageInv, PageNext, UNCHANGED bridgeTables PROVE PageInv'
<1>1. ASSUME GetRequiredSignatures PROVE PageInv'
  <2>1. pc' = "validators"
    BY <1>1 DEF GetRequiredSignatures
  <2> QED
    BY <2>1 DEF PageInv, PendingOK, UnsignedAreShown, ConfirmationOK
<1>2. ASSUME FindValidators PROVE PageInv'
  <2>1. pc' = "pending"
    BY <1>2 DEF FindValidators
  <2> QED
    BY <2>1 DEF PageInv, PendingOK, UnsignedAreShown, ConfirmationOK
<1>3. ASSUME FindPending PROVE PageInv'
  <2>1. /\ pc' = "signatures" /\ before' = before /\ UNCHANGED <<messages, rows>>
        /\ pending' = {m \in messages : ~Has("executed", m) /\ m.direction = "home_to_foreign"}
    BY <1>3 DEF FindPending, bridgeTables
  <2>2. before.messages \subseteq messages /\ before.rows \subseteq rows
    BY DEF BaseInv, BeforeOK
  <2>3. PendingOK'
    BY <2>1, <2>2 DEF PendingOK, Has, Table
  <2> QED
    BY <2>1, <2>3 DEF PageInv, UnsignedAreShown, ConfirmationOK
<1>4. ASSUME FindSignatures PROVE PageInv'
  <2>1. pc' = "unsigned"
    BY <1>4 DEF FindSignatures
  <2> QED
    BY <1>4, <2>1, UnsignedFound DEF PageInv, PendingOK, ConfirmationOK
<1>5. ASSUME ListValidators PROVE PageInv'
  <2>1. pc' = "more validators" /\ before'.rows \subseteq OfKind("signed")
    BY <1>5 DEF ListValidators, StoredOf
  <2>2. OfKind("signed")' = OfKind("signed")
    BY DEF OfKind
  <2> QED
    BY <2>1, <2>2 DEF PageInv, PendingOK, UnsignedAreShown, ConfirmationOK
<1>6. ASSUME ListMoreValidators PROVE PageInv'
  <2>1. pc = "more validators" /\ pc' = "latest" /\ before' = before
    BY <1>6 DEF ListMoreValidators
  <2> QED
    BY <2>1 DEF PageInv, PendingOK, UnsignedAreShown, ConfirmationOK, OfKind
<1>7. ASSUME GetLatest PROVE PageInv'
  <2>1. pc' \in {"listed", "confirmation"}
    BY <1>7 DEF GetLatest
  <2> QED
    BY <1>7, <2>1, LatestFound DEF PageInv, PendingOK, UnsignedAreShown
<1>8. ASSUME GetConfirmationTime PROVE PageInv'
  <2>1. pc = "confirmation" /\ pc' = "listed" /\ UNCHANGED <<validators, shown, before>>
    BY <1>8 DEF GetConfirmationTime
  <2> QED
    BY <2>1 DEF PageInv, PendingOK, UnsignedAreShown, ConfirmationOK, OfKind
<1> QED
  BY <1>1, <1>2, <1>3, <1>4, <1>5, <1>6, <1>7, <1>8 DEF PageNext

\* A search and the end of a request leave the pages.
LEMMA PageEnds ==
    ASSUME SearchNext \/ EndRequest PROVE PageInv'
<1>1. pc' \notin PagePcs
  BY DEF SearchNext, EndRequest, PagePcs, FilterLogs, NextLog, GetByLogID, GetMessage,
         Continue, QueryEvents, EnrichEvent
<1> QED
  BY <1>1 DEF PagePcs, PageInv, PendingOK, UnsignedAreShown, ConfirmationOK

-----------------------------------------------------------------------------
(* The invariant *)

PresenterInv == BaseInv /\ SearchInv /\ PageInv /\ SearchIsBounded

\* The logs that the accepted parameters of a search select.
LEMMA BoundedSearch ==
    ASSUME NEW p \in Searches, FilterLogs(p) PROVE SearchIsBounded'
<1>1. logs' = LogsOfSearch(p) /\ ~Refused(p)
  BY DEF FilterLogs
<1>2. p \in Search /\ MaxDifference \in Nat
  BY SearchesAssumption
<1>3. SUFFICES ASSUME NEW k \in LogsOfSearch(p), NEW l \in LogsOfSearch(p), k.tx # l.tx
               PROVE  k.side = l.side /\ k.block - l.block <= MaxDifference
  BY <1>1 DEF SearchIsBounded
<1>4. k \in Logs /\ l \in Logs
  BY DEF LogsOfSearch
<1>5. Tx(p) = {}
  BY <1>3 DEF LogsOfSearch
<1>6. PICK c \in Chain(p), from \in FromBlock(p), to \in ToBlock(p) : TRUE
  BY <1>1, <1>5 DEF Refused
<1>7. k.side = c /\ l.side = c
  BY <1>6 DEF LogsOfSearch
<1>8. FromBlock(p) \subseteq Nat /\ ToBlock(p) \subseteq Nat
  BY <1>2 DEF Search, FromBlock, ToBlock
<1>9. from \in Nat /\ to \in Nat /\ from <= l.block /\ k.block <= to
  BY <1>6, <1>8 DEF LogsOfSearch
<1>10. ~(to - from > MaxDifference)
  BY <1>1, <1>6 DEF Refused
<1> QED
  BY <1>2, <1>4, <1>7, <1>9, <1>10, LogTypes

LEMMA InvStart == TablesInit /\ RequestInit => PresenterInv
<1> SUFFICES ASSUME TablesInit, RequestInit PROVE PresenterInv
  OBVIOUS
<1>1. pc = "idle" /\ logs = {} /\ query = 1 /\ events = {}
  BY DEF RequestInit
<1>2. SearchInv
  BY <1>1 DEF SearchInv, OwnOK, FoundOK, EventsOK, CoveredOK, FoundUnlessNew
<1>3. PageInv
  BY <1>1 DEF PageInv, PendingOK, UnsignedAreShown, ConfirmationOK
<1> QED
  BY <1>1, <1>2, <1>3, BaseStart DEF PresenterInv, SearchIsBounded

\* Whatever is stored meanwhile, and whatever a request does.
LEMMA InvStep == PresenterInv /\ [Next]_vars => PresenterInv'
<1> SUFFICES ASSUME PresenterInv, [Next]_vars PROVE PresenterInv'
  OBVIOUS
<1>0. BaseInv /\ SearchInv /\ PageInv /\ SearchIsBounded
  BY DEF PresenterInv
<1>1. CASE TablesNext /\ UNCHANGED requestVars
  <2>1. SearchIsBounded'
    BY <1>0, <1>1 DEF SearchIsBounded, requestVars
  <2> QED
    BY <1>0, <1>1, <2>1, BaseTables, SearchTables, PageTables DEF PresenterInv
<1>2. CASE SearchNext /\ UNCHANGED bridgeTables
  <2>1. ASSUME logs' = logs \/ logs' = {} PROVE SearchIsBounded'
    BY <1>0, <2>1 DEF SearchIsBounded
  <2>2. SearchIsBounded'
    BY <1>2, <2>1, BoundedSearch DEF SearchNext, NextLog, GetByLogID, GetMessage, Continue,
       QueryEvents, EnrichEvent
  <2> QED
    BY <1>0, <1>2, <2>2, BaseSearch, SearchSteps, PageEnds DEF PresenterInv
<1>3. CASE PageNext /\ UNCHANGED bridgeTables
  <2>1. logs' = logs
    BY <1>3 DEF PageNext, GetRequiredSignatures, FindValidators, FindPending, FindSignatures,
                ListValidators, ListMoreValidators, GetLatest, GetConfirmationTime
  <2>2. SearchIsBounded'
    BY <1>0, <2>1 DEF SearchIsBounded
  <2> QED
    BY <1>0, <1>3, <2>2, BasePage, SearchEnds, PageSteps DEF PresenterInv
<1>4. CASE (Respond \/ RequestFails) /\ UNCHANGED bridgeTables
  <2>1. EndRequest
    BY <1>4 DEF Respond, RequestFails
  <2>2. SearchIsBounded'
    BY <2>1 DEF EndRequest, SearchIsBounded
  <2> QED
    BY <1>0, <1>4, <2>1, <2>2, BaseEnd, SearchEnds, PageEnds DEF PresenterInv
<1>5. CASE UNCHANGED vars
  <2>1. UNCHANGED <<bridgeTables, requestVars>>
    BY <1>5 DEF vars
  <2> USE DEF bridgeTables, requestVars
  <2>2. BaseInv'
    BY <1>0, <2>1 DEF BaseInv, TablesOK, RequestTypeOK, BeforeOK, HasTimestamp
  <2>3. OwnOK' /\ FoundOK' /\ EventsOK' /\ FoundUnlessNew'
    BY <1>0, <2>1 DEF SearchInv, OwnOK, FoundOK, EventsOK, FoundUnlessNew
  <2>4. CoveredOK'
    BY <1>0, <2>1 DEF SearchInv, CoveredOK, Covered, EventQueries
  <2>5. PendingOK' /\ ConfirmationOK'
    BY <1>0, <2>1 DEF PageInv, PendingOK, ConfirmationOK, OfKind, Has, Table
  <2>6. UnsignedAreShown'
    BY <1>0, <2>1 DEF PageInv, UnsignedAreShown, ListedSigners, Has, Table
  <2>7. SearchIsBounded'
    BY <1>0, <2>1 DEF SearchIsBounded
  <2> QED
    BY <2>2, <2>3, <2>4, <2>5, <2>6, <2>7 DEF PresenterInv, SearchInv, PageInv
<1> QED
  BY <1>1, <1>2, <1>3, <1>4, <1>5 DEF Next, RequestNext

\* What the queries of a request have read stays true of the tables while both
\* sides are indexed and timestamps are repaired.
THEOREM PresenterInvariant == RequestSpec => []PresenterInv
<1>1. TablesInit /\ RequestInit => PresenterInv
  BY InvStart
<1>2. PresenterInv /\ [Next]_vars => PresenterInv'
  BY InvStep
<1> QED
  BY <1>1, <1>2, PTL DEF RequestSpec, Next, vars

-----------------------------------------------------------------------------
(* The theorems *)

\* What a request has read and kept are rows, messages and answers of its kind,
\* whatever is stored meanwhile (presenter.go).
THEOREM RequestTypes == RequestSpec => []RequestTypeOK
<1>1. PresenterInv => RequestTypeOK
  BY DEF PresenterInv, BaseInv
<1> QED
  BY <1>1, PresenterInvariant, PTL

\* The parameters that GetFilterMiddleware accepts select the logs of one
\* transaction, or of a bounded number of blocks of one chain.
THEOREM SearchesAreBounded == RequestSpec => []SearchIsBounded
<1>1. PresenterInv => SearchIsBounded
  BY DEF PresenterInv
<1> QED
  BY <1>1, PresenterInvariant, PTL

\* searchForMessagesInLogs misses a stored message only while one of its events
\* has no timestamp, whenever fix_block_timestamps is run.
THEOREM SearchesFind == RequestSpec => []FoundUnlessNew
<1>1. PresenterInv => FoundUnlessNew
  BY DEF PresenterInv, SearchInv
<1> QED
  BY <1>1, PresenterInvariant, PTL

\* A result of a search shows the related events that were stored before
\* (buildMessageEvents, buildInformationRequestEvents).
THEOREM ResultsAreComplete == RequestSpec => []ShowsWhatWasStored
<1>1. PresenterInv => ShowsWhatWasStored
  BY DEF PresenterInv, SearchInv, CoveredOK, Covered, ShowsWhatWasStored
<1> QED
  BY <1>1, PresenterInvariant, PTL

\* GetMessagesWithMissingSignatures misses no message that lacks signatures.
THEOREM UnsignedPage == RequestSpec => []UnsignedAreShown
<1>1. PresenterInv => UnsignedAreShown
  BY DEF PresenterInv, PageInv
<1> QED
  BY <1>1, PresenterInvariant, PTL

\* GetBridgeValidators shows a confirmation as late as the latest one stored before.
THEOREM ValidatorsPage == RequestSpec => []LatestIsShown
<1>1. PresenterInv => LatestIsShown
  BY DEF PresenterInv, PageInv, ConfirmationOK, LatestIsShown
<1> QED
  BY <1>1, PresenterInvariant, PTL
=============================================================================
