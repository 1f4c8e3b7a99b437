------------------------------- MODULE Presenter -------------------------------
(***************************************************************************)
(* The HTTP API of the monitor (presenter), which reads the tables of a    *)
(* bridge, query by query and without a transaction, while both sides are  *)
(* indexed.  One request is followed: a search for the messages of some    *)
(* logs, the page of messages that lack signatures, or the page of         *)
(* validators.  Of a search, one of the logs is followed, and of the       *)
(* validators, one of them; what is done for the others only reads.        *)
(***************************************************************************)
EXTENDS BridgeTables, Sequences

CONSTANTS
    Searches,            \* parameters of search requests
    Followed,            \* bound: the logs that are followed
    MaxDifference,       \* between the last and the first block, 10000
    RequiredSignatures,  \* what the contract of the foreign side may answer
    UploadedSignatures   \* the signatures that come with a request

Routes == {"/chain/block", "/chain/tx", "/tx", "/"}

\* A parameter is a set of at most one value: {} when the request leaves it out.
\* Those of the path come before those of the same name in the query.
Search == [route: Routes, chain: SUBSET STRING, tx: SUBSET STRING,
           block: SUBSET Nat, from: SUBSET Nat, to: SUBSET Nat]

ASSUME SearchesAssumption ==
    /\ Searches \subseteq Search /\ MaxDifference \in Nat /\ Followed \subseteq Logs
    /\ \A p \in Searches :
         \A param \in {"chain", "tx", "block", "from", "to"} :
           \A a, b \in p[param] : a = b
InformationKinds == {"info_sent", "info_signed", "info_executed"}

\* An information request is not a message.
ASSUME RequestsAssumption ==
    \A k, l \in Logs :
        k.msg = l.msg => (k.kind \in InformationKinds <=> l.kind \in InformationKinds)
ASSUME SignaturesAssumption ==
    /\ RequiredSignatures \subseteq Nat
    /\ UploadedSignatures \subseteq [msg: Messages, signer: STRING]

VARIABLES
    pc,
    logs,        \* the logs found by the parameters
    own,         \* the log that is followed
    query,       \* the next query for related events
    events,      \* the related events
    unstamped,   \* those of them whose timestamp has not been read
    required,    \* answers to the queries of the page of unsigned messages
    validators,  \* and of the page of validators
    pending,
    shown,       \* the messages, or the latest confirmation of the validator
    before       \* what was stored when the request began

requestVars == <<pc, logs, own, query, events, unstamped, required, validators,
                 pending, shown, before>>

NoLog == [side |-> "none", msg |-> NoMessage]

-----------------------------------------------------------------------------
(* The parameters of a search (presenter/http/middleware/filter.go) *)

Chain(p) == IF p.route = "/tx" THEN {} ELSE p.chain

Tx(p) == IF p.route = "/chain/block" THEN {} ELSE p.tx

\* blockNumber replaces both blocks, of which one alone is ignored.
FromBlock(p) ==
    CASE p.route \in {"/chain/tx", "/tx"} -> {}
      [] p.block # {} -> p.block
      [] OTHER -> IF p.to = {} THEN {} ELSE p.from

ToBlock(p) ==
    CASE p.route \in {"/chain/tx", "/tx"} -> {}
      [] p.block # {} -> p.block
      [] OTHER -> IF p.from = {} THEN {} ELSE p.to

RefusedForOrder(p) == \E from \in FromBlock(p), to \in ToBlock(p) : from > to

\* An unknown chain, too many blocks, or blocks or a chain missing.
Refused(p) ==
    \/ ~(Chain(p) \subseteq Sides)
    \/ \E from \in FromBlock(p), to \in ToBlock(p) : from > to \/ to - from > MaxDifference
    \/ Tx(p) = {} /\ {} \in {Chain(p), FromBlock(p), ToBlock(p)}

\* Logs.Find; logs are in their table before they are handled.
LogsOfSearch(p) ==
    {l \in Logs :
       /\ Chain(p) \subseteq {l.side} /\ Tx(p) \subseteq {l.tx}
       /\ \A from \in FromBlock(p) : from <= l.block
       /\ \A to \in ToBlock(p) : l.block <= to}

-----------------------------------------------------------------------------
(* A request begins and ends *)

\* What is stored that has to do with some logs.
StoredOf(ls) ==
    [messages |-> messages \cap {l.msg : l \in ls}, rows |-> rows \cap ls,
     stamped |-> {l \in ls : l.block \in timestamps[l.side]}]

RequestInit ==
    /\ pc = "idle" /\ logs = {} /\ own = NoLog /\ query = 1
    /\ events = {} /\ unstamped = {}
    /\ required = 0 /\ validators = {} /\ pending = {} /\ shown = {}
    /\ before = StoredOf({})

EndRequest ==
    /\ pc' = "idle" /\ logs' = {} /\ own' = NoLog /\ query' = 1
    /\ events' = {} /\ unstamped' = {}
    /\ required' = 0 /\ validators' = {} /\ pending' = {} /\ shown' = {}
    /\ before' = StoredOf({})

Answered == {"found", "dropped", "unsigned", "listed"}

\* The answer is sent.
Respond == pc \in Answered /\ EndRequest

\* A query or the node fails: of a search, nothing of this log is shown; of a
\* page, an error.
RequestFails == pc \notin Answered \cup {"idle"} /\ EndRequest

-----------------------------------------------------------------------------
(* A search *)

FilterLogs(p) ==
    /\ pc = "idle" /\ ~Refused(p)
    /\ logs' = LogsOfSearch(p)
    /\ pc' = "logs"
    /\ UNCHANGED <<own, query, events, unstamped, required, validators, pending, shown, before>>

\* searchForMessagesInLogs comes to a log.
NextLog(l) ==
    /\ pc = "logs" /\ l \in logs
    /\ own' = l /\ logs' = {}
    /\ before' = StoredOf({k \in Logs : k.msg = l.msg})
    /\ pc' = "row"
    /\ UNCHANGED <<query, events, unstamped, required, validators, pending, shown>>

\* Nothing is searched by the logs of collected signatures and of validators.
SearchedKinds == SentKinds \cup {"signed", "executed", "info_signed", "info_executed"}

Continue(found, next) ==
    /\ pc' = IF found THEN next ELSE "dropped"
    /\ UNCHANGED <<logs, own, query, events, unstamped, required, validators, pending,
                   shown, before>>

\* The one of the search tasks that finds a row of the log.
GetByLogID == pc = "row" /\ Continue(own \in rows /\ own.kind \in SearchedKinds, "message")

GetMessage == pc = "message" /\ Continue(own.msg \in messages, "events")

\* buildMessageEvents and buildInformationRequestEvents.
EventQueries ==
    IF own.kind \in InformationKinds
    THEN <<"info_sent", "info_signed", "info_executed">>
    ELSE <<"sent", "signed", "collected", "executed">>

OneRow(found) == IF found = {} THEN {{}} ELSE {{l} : l \in found}

OneRowEach(kind, found) == OneRow(found)

\* One row of a message, which may be any if there are more, or all signatures.
RowsRead(kind, found) ==
    IF kind \in {"signed", "info_signed"} THEN {found} ELSE OneRow(found)

QueryEvents ==
    /\ pc = "events"
    /\ LET kind == EventQueries[query]
       IN  \E read \in RowsRead(kind, {l \in Table(kind) : l.msg = own.msg}) :
             /\ events' = events \cup read
             /\ unstamped' = unstamped \cup read
    /\ IF query < Len(EventQueries) THEN query' = query + 1 /\ pc' = pc
       ELSE query' = 1 /\ pc' = "enrich"
    /\ UNCHANGED <<logs, own, required, validators, pending, shown, before>>

HasTimestamp(l) == l.block \in timestamps[l.side]

\* enrichEvents takes the events in the order of the queries.
EnrichEvent ==
    /\ pc = "enrich"
    /\ \E l \in unstamped :
         /\ \A k \in unstamped, i, j \in DOMAIN EventQueries :
              EventQueries[i] = k.kind /\ EventQueries[j] = l.kind => j <= i
         /\ unstamped' = IF HasTimestamp(l) THEN unstamped \ {l} ELSE {}
         /\ pc' = IF ~HasTimestamp(l) THEN "dropped"
                  ELSE IF unstamped' = {} THEN "found" ELSE pc
    /\ UNCHANGED <<logs, own, query, events, required, validators, pending, shown, before>>

-----------------------------------------------------------------------------
(* The page of messages without signatures *)

\* Validators that were added and not removed since; the contract adds none twice.
ActiveValidators(s) ==
    {k.data : k \in {k \in Table("added") : k.side = s /\
        ~\E l \in Table("removed") : l.data = k.data /\ Precedes(k, l)}}

ToForeignLogs(kinds) ==
    {l \in Logs : l.kind \in kinds /\ l.msg.direction = "home_to_foreign"}

GetRequiredSignatures ==
    /\ pc = "idle" /\ required' \in RequiredSignatures
    /\ before' = StoredOf(ToForeignLogs({"sent", "signed", "executed"}))
    /\ pc' = "validators"
    /\ UNCHANGED <<logs, own, query, events, unstamped, validators, pending, shown>>

FindValidators ==
    /\ pc = "validators"
    /\ validators' = ActiveValidators("foreign")
    /\ pc' = "pending"
    /\ UNCHANGED <<logs, own, query, events, unstamped, required, pending, shown, before>>

\* FindPendingMessages; those to the home side are left out.
FindPending ==
    /\ pc = "pending"
    /\ pending' = {m \in messages : ~Has("executed", m) /\ m.direction = "home_to_foreign"}
    /\ pc' = "signatures"
    /\ UNCHANGED <<logs, own, query, events, unstamped, required, validators, shown, before>>

\* makeSignersMap: signers of the table, and of the uploaded signatures.
SignersOf(m, signed) ==
    {l.data : l \in {l \in signed : l.kind = "signed" /\ l.msg = m}}
      \cup {s.signer : s \in {s \in UploadedSignatures : s.msg = m}}

\* Fewer than required signed, whoever they are.
LacksSigners(m, signed) == Cardinality(SignersOf(m, signed)) < required

\* Fewer validators than required signed.
LacksSignatures(m, signed) == Cardinality(SignersOf(m, signed) \cap validators) < required

\* The links to the transactions of the messages, which come last, are left out.
FindSignatures ==
    /\ pc = "signatures"
    /\ shown' = {m \in pending : LacksSignatures(m, Table("signed"))}
    /\ pc' = "unsigned"
    /\ UNCHANGED <<logs, own, query, events, unstamped, required, validators, pending, before>>

-----------------------------------------------------------------------------
(* The page of validators *)

ListValidators ==
    /\ pc = "idle"
    /\ validators' = ActiveValidators("home")
    /\ before' = StoredOf(OfKind("signed"))
    /\ pc' = "more validators"
    /\ UNCHANGED <<logs, own, query, events, unstamped, required, pending, shown>>

\* Where those of the foreign side are meant, the home side is asked again.
ListMoreValidators ==
    /\ pc = "more validators"
    /\ validators' = validators \cup ActiveValidators("home")
    /\ pc' = "latest"
    /\ UNCHANGED <<logs, own, query, events, unstamped, required, pending, shown, before>>

SignedBy(v) == {l \in Table("signed") : l.side = "home" /\ l.data = v}

LatestSigned(v) == {l \in SignedBy(v) : \A k \in SignedBy(v) : k.block <= l.block}

\* One of the validators; who has not signed is listed without a confirmation.
GetLatest ==
    /\ pc = "latest"
    /\ \E v \in validators :
         /\ validators' = {v}
         /\ shown' \in OneRow(LatestSigned(v))
    /\ pc' = IF shown' = {} THEN "listed" ELSE "confirmation"
    /\ UNCHANGED <<logs, own, query, events, unstamped, required, pending, before>>

\* Without a timestamp, the page fails.
GetConfirmationTime ==
    /\ pc = "confirmation" /\ \A l \in shown : HasTimestamp(l)
    /\ pc' = "listed"
    /\ UNCHANGED <<logs, own, query, events, unstamped, required, validators, pending,
                   shown, before>>

-----------------------------------------------------------------------------

SearchNext ==
    \/ \E p \in Searches : FilterLogs(p)
    \/ \E l \in Followed : NextLog(l)
    \/ GetByLogID \/ GetMessage \/ QueryEvents \/ EnrichEvent

PageNext ==
    \/ GetRequiredSignatures \/ FindValidators \/ FindPending \/ FindSignatures
    \/ ListValidators \/ ListMoreValidators \/ GetLatest \/ GetConfirmationTime

RequestNext == SearchNext \/ PageNext \/ Respond \/ RequestFails

RequestSpec ==
    /\ TablesInit /\ RequestInit
    /\ [][ \/ TablesNext /\ UNCHANGED requestVars
           \/ RequestNext /\ UNCHANGED bridgeTables ]_<<bridgeTables, requestVars>>

-----------------------------------------------------------------------------
(* Properties *)

\* The types of the variables; what is read are rows.
RequestTypeOK ==
    /\ pc \in Answered \cup {"idle", "logs", "row", "message", "events", "enrich",
          "validators", "pending", "signatures", "more validators", "latest", "confirmation"}
    /\ logs \subseteq Logs /\ own \in Logs \cup {NoLog} /\ query \in 1..4
    /\ events \subseteq rows /\ unstamped \subseteq events
    /\ required \in RequiredSignatures \cup {0} /\ validators \subseteq STRING
    /\ pending \subseteq messages /\ shown \subseteq messages \cup rows
    /\ before.messages \subseteq messages /\ before.rows \subseteq rows
    /\ before.stamped \subseteq Logs

\* However the parameters of a search are combined, it reads the logs of one
\* transaction, or those of not more than MaxDifference + 1 blocks of one chain.
SearchIsBounded ==
    \A k, l \in logs :
        k.tx = l.tx \/ (k.side = l.side /\ k.block - l.block <= MaxDifference)

\* A search finds the message of a log whose row was stored when it came to the
\* log, although the events are read one after the other while more of them are
\* handled, and although fix_block_timestamps may be run meanwhile: it misses the
\* message only as long as an event of the message has no timestamp yet.
FoundUnlessNew ==
    pc = "dropped" =>
      \/ own \notin before.rows \/ own.msg \notin before.messages
      \/ own.kind \notin SearchedKinds
      \/ \E l \in rows \ before.stamped : l.msg = own.msg

\* The related events of a search result are not older than the search, and the
\* log itself is one of them; of two sent or executed logs of one message, only
\* one is shown, and a result may be without its log ("tx event not found in
\* related events").
ShowsWhatWasStored ==
    pc = "found" =>
      \A l \in before.rows \cup {own} :
          l \in events \/ \E k \in events : k.kind = l.kind /\ k.kind \notin {"signed", "info_signed"}

\* The listed validators that signed a message.
ListedSigners(m, signed) ==
    {v \in validators : \/ [msg |-> m, signer |-> v] \in UploadedSignatures
                        \/ \E l \in signed : l.kind = "signed" /\ l.msg = m /\ l.data = v}

\* The page of messages without signatures, whose queries see the tables at
\* different times, misses no message that was stored before and is not executed
\* nor signed by enough of the validators it lists; and it shows none that was
\* executed or signed by enough of them before.
UnsignedAreShown ==
    pc = "unsigned" =>
      /\ {m \in before.messages : /\ m.direction = "home_to_foreign" /\ ~Has("executed", m)
                                  /\ Cardinality(ListedSigners(m, rows)) < required} \subseteq shown
      /\ \A m \in shown :
           /\ \A l \in before.rows : l.msg = m => l.kind # "executed"
           /\ Cardinality(ListedSigners(m, before.rows)) < required

\* The page of validators shows a confirmation of the validator, and none that is
\* older than the latest one stored before.
LatestIsShown ==
    pc = "listed" =>
      \A k \in before.rows : (k.side = "home" /\ k.data \in validators) =>
          \E l \in shown : l.data = k.data /\ l.block >= k.block
=============================================================================
