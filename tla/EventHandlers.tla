---------------------------- MODULE EventHandlers ----------------------------
(***************************************************************************)
(* The event handlers (monitor/handlers.go) of one side of a bridge and    *)
(* the tables they write (repository/postgres, db/migrations).  Two        *)
(* programs may handle the same logs at the same time: the monitor, which  *)
(* handles all logs in chain order and repeats some of them after an error *)
(* or a restart, and reprocess_block_range, which handles a range of logs  *)
(* again.  A handler is a few statements, none of them in a transaction    *)
(* with the next one.                                                      *)
(*                                                                         *)
(* A log is named by its place in History.  A message hash stands for the  *)
(* content it is computed from.                                            *)
(***************************************************************************)
EXTENDS Naturals, Sequences, FiniteSets

CONSTANTS
    History,       \* the logs of one side, in chain order
    Addresses,     \* senders, recipients, signers and validators
    Blacklisted,   \* blacklisted_senders of the tokens
    MaxReplays     \* bound: failures, restarts, runs of reprocess_block_range

SentEvents == {"request", "information", "payment", "transfer"}
RowEvents == {"signed", "executed", "retrieved"}
Events == SentEvents \cup RowEvents \cup {"added", "removed"}

Steps == {"start", "message", "sent", "remove"}

Indices == 1..Len(History)

\* who is the sender, recipient, signer or validator of the event; a payment
\* is an ERC_TO_NATIVE request, a transfer one of its tokens to the bridge.
Log == [block: Nat \ {0}, tx: STRING, event: Events, who: Addresses, value: Nat]

ASSUME HistoryAssumption ==
    /\ Addresses \subseteq STRING /\ History \in Seq(Log)
    /\ \A i, j \in Indices : i <= j => History[i].block <= History[j].block
ASSUME TransactionAssumption ==
    \A i, j \in Indices :
        History[i].tx = History[j].tx => History[i].block = History[j].block
ASSUME ReplaysAssumption == MaxReplays \in Nat

Workers == {"monitor", "reprocess"}

VARIABLES
    savedTo,      \* logs up to this block are in the table logs
    messages,     \* messages, erc_to_native_messages and information_requests
    sent,         \* sent_messages and sent_information_requests
    rows,         \* signed_, collected_, executed_ messages and information requests
    validators,   \* bridge_validators: the log that added, the log that removed
    pos,          \* the log each program handles next
    until,        \* the last log it handles
    step,         \* "start" of a handler, or the statement it comes to
    held,         \* the log it got from an earlier statement of the handler
    handled,      \* logs whose handler has completed
    replays,
    replayed      \* logs that reprocess_block_range was run for

tables == <<messages, sent, rows, validators>>
vars == <<savedTo, tables, pos, until, step, held, handled, replays, replayed>>

NoLog == 0

-----------------------------------------------------------------------------
(* Queries *)

Hash(i) == <<History[i].who, History[i].value, History[i].tx>>

LogsBeforeLastBlock(tx, event) ==
    {i \in Indices : /\ History[i].block < savedTo
                     /\ History[i].tx = tx /\ History[i].event = event}

\* Logs.Find: what the table has of a transaction.
LogsIn(tx, event) ==
    {i \in Indices : /\ History[i].block <= savedTo
                     /\ History[i].tx = tx /\ History[i].event = event}

FindPayments(i) == LogsIn(History[i].tx, "payment")

\* The transfer of a payment is the last one of its value.
LastOf(i, transfers) ==
    LET same == {k \in transfers : History[k].value = History[i].value}
    IN  IF same = {} THEN {i} ELSE {k \in same : \A j \in same : j <= k}

FindTransfers(i) == LogsIn(History[i].tx, "transfer")

\* Rows of a validator that have no removed_log_id.
ActiveRows(who) ==
    {v \in validators : History[v.added].who = who /\ v.removed = NoLog}

\* Tables with a unique index besides the one on log_id.
UniqueEvents == {"information", "signed", "retrieved"}

Key(i) == IF History[i].event \in SentEvents THEN Hash(i)
          ELSE <<History[i].who, History[i].value>>

SameKey(i) == {j \in sent \cup rows : History[j].event = History[i].event /\ Key(j) = Key(i)}

KeyExists(i) == History[i].event \in UniqueEvents /\ SameKey(i) # {}

\* ON CONFLICT (log_id) leaves the conflict with the row of another log alone.
KeyConflict(i) == History[i].event \in UniqueEvents /\ SameKey(i) \ {i} # {}

-----------------------------------------------------------------------------
(* Upserts *)

\* ON CONFLICT (bridge_id, msg_hash): a row of messages keeps its values.
EnsureMessage(hash, sender) ==
    messages' = IF \E m \in messages : m.hash = hash THEN messages
                ELSE messages \cup {[hash |-> hash, sender |-> sender]}

\* A row of erc_to_native_messages takes the new sender.
EnsureMessageSender(hash, sender) ==
    messages' = {m \in messages : m.hash # hash} \cup {[hash |-> hash, sender |-> sender]}

EnsureValidatorOnce(added, removed) ==
    validators' = IF \E v \in validators : v.added = added THEN validators
                  ELSE validators \cup {[added |-> added, removed |-> removed]}

\* ON CONFLICT (log_id): an addition that is handled again is not removed.
EnsureValidator(added, removed) ==
    validators' = {v \in validators : v.added # added}
                    \cup {[added |-> added, removed |-> removed]}

-----------------------------------------------------------------------------
(* The two programs *)

Init ==
    /\ savedTo = 0
    /\ messages = {} /\ sent = {} /\ rows = {} /\ validators = {}
    /\ pos = [w \in Workers |-> 1]
    /\ until = [w \in Workers |-> IF w = "monitor" THEN Len(History) ELSE 0]
    /\ step = [w \in Workers |-> "start"] /\ held = [w \in Workers |-> NoLog]
    /\ handled = {} /\ replays = 0 /\ replayed = {}

\* The fetcher saves the logs of a range in one statement.
SaveLogs ==
    \E i \in Indices :
        /\ History[i].block > savedTo
        /\ savedTo' = History[i].block
        /\ UNCHANGED <<tables, pos, until, step, held, handled, replays, replayed>>

Handles(w, s, events) ==
    /\ pos[w] <= until[w] /\ step[w] = s
    /\ History[pos[w]].block <= savedTo
    /\ History[pos[w]].event \in events

Done(w) ==
    /\ handled' = handled \cup {pos[w]}
    /\ pos' = [pos EXCEPT ![w] = @ + 1]
    /\ step' = [step EXCEPT ![w] = "start"]
    /\ held' = [held EXCEPT ![w] = NoLog]
    /\ UNCHANGED <<savedTo, until, replayed>>

GoTo(w, s, i) ==
    /\ step' = [step EXCEPT ![w] = s]
    /\ held' = [held EXCEPT ![w] = i]
    /\ UNCHANGED <<savedTo, pos, until, handled, replayed>>

BlockStart(i) ==
    {k \in 1..i : /\ History[k].block = History[i].block
                  /\ \A j \in 1..(k - 1) : History[j].block < History[i].block}

SkipLog(w) == Done(w) /\ UNCHANGED tables

ResumeHandler(w) ==
    /\ held' = [held EXCEPT ![w] = NoLog]
    /\ UNCHANGED <<savedTo, tables, pos, until, step, handled, replayed>>

SkipAfterError(w) ==
    /\ pos' = [pos EXCEPT ![w] = @ + 1]
    /\ step' = [step EXCEPT ![w] = "start"]
    /\ held' = [held EXCEPT ![w] = NoLog]
    /\ UNCHANGED <<savedTo, tables, until, handled, replayed>>

\* The batch of the block is handled again from its first log.
RetryBatch(w) ==
    /\ \E k \in BlockStart(pos[w]) : pos' = [pos EXCEPT ![w] = k]
    /\ step' = [step EXCEPT ![w] = "start"]
    /\ held' = [held EXCEPT ![w] = NoLog]
    /\ UNCHANGED <<savedTo, tables, until, handled, replayed>>

\* The handlers of AMB messages, of ERC_TO_NATIVE requests of the home side and
\* of information requests know the sender from the log and its transaction.
EnsureRequest(w) ==
    /\ Handles(w, "start", {"request", "information"})
    /\ EnsureMessage(Hash(pos[w]), History[pos[w]].who)
    /\ GoTo(w, "sent", NoLog)
    /\ UNCHANGED <<sent, rows, validators>>

\* HandleErcToNativeTransfer: a payment in the same transaction has its own log.
HandleTransfer(w) ==
    /\ Handles(w, "start", {"transfer"})
    /\ IF History[pos[w]].who \in Blacklisted \/ FindPayments(pos[w]) # {}
       THEN Done(w)
       ELSE GoTo(w, "message", pos[w])
    /\ UNCHANGED tables

\* HandleErcToNativeUserRequestForAffirmation: who paid is found in the transfers.
HandlePayment(w) ==
    /\ Handles(w, "start", {"payment"})
    /\ \E k \in LastOf(pos[w], FindTransfers(pos[w])) : GoTo(w, "message", k)
    /\ UNCHANGED tables

EnsureErcToNativeMessage(w) ==
    /\ Handles(w, "message", {"transfer", "payment"})
    /\ EnsureMessageSender(Hash(pos[w]), History[held[w]].who)
    /\ GoTo(w, "sent", NoLog)
    /\ UNCHANGED <<sent, rows, validators>>

EnsureSent(w) ==
    /\ Handles(w, "sent", SentEvents)
    /\ ~KeyConflict(pos[w])
    /\ sent' = sent \cup {pos[w]}
    /\ Done(w)
    /\ UNCHANGED <<messages, rows, validators>>

EnsureRow(w) ==
    /\ Handles(w, "start", RowEvents)
    /\ ~KeyConflict(pos[w])
    /\ rows' = rows \cup {pos[w]}
    /\ Done(w)
    /\ UNCHANGED <<messages, sent, validators>>

HandleValidatorAdded(w) ==
    /\ Handles(w, "start", {"added"})
    /\ EnsureValidator(pos[w], NoLog)
    /\ Done(w)
    /\ UNCHANGED <<messages, sent, rows>>

GetActiveValidator(w) ==
    /\ Handles(w, "start", {"removed"})
    /\ LET active == ActiveRows(History[pos[w]].who)
       IN  IF active = {} THEN Done(w)
           ELSE \E v \in active : GoTo(w, "remove", v.added)
    /\ UNCHANGED tables

EnsureRemoved(w) ==
    /\ Handles(w, "remove", {"removed"})
    /\ EnsureValidator(held[w], pos[w])
    /\ Done(w)
    /\ UNCHANGED <<messages, sent, rows>>

\* A statement or a request to a node fails, among others on a unique index.
Fails(w) ==
    /\ Handles(w, step[w], Events)
    /\ replays < MaxReplays /\ replays' = replays + 1
    /\ RetryBatch(w)

HandleLog(w) ==
    /\ \/ EnsureRequest(w) \/ HandleTransfer(w) \/ HandlePayment(w)
       \/ EnsureErcToNativeMessage(w) \/ EnsureSent(w) \/ EnsureRow(w)
       \/ HandleValidatorAdded(w) \/ GetActiveValidator(w) \/ EnsureRemoved(w)
    /\ UNCHANGED replays

\* The monitor continues after the stored processed block, which may be old.
Restart ==
    /\ replays < MaxReplays /\ replays' = replays + 1
    /\ \E i \in 1..pos["monitor"] :
         /\ i \in Indices
         /\ \E k \in BlockStart(i) : pos' = [pos EXCEPT !["monitor"] = k]
    /\ step' = [step EXCEPT !["monitor"] = "start"]
    /\ held' = [held EXCEPT !["monitor"] = NoLog]
    /\ UNCHANGED <<savedTo, tables, until, handled, replayed>>

\* reprocess_block_range is run for blocks that the monitor has processed.
Reprocess ==
    /\ replays < MaxReplays /\ replays' = replays + 1
    /\ pos["reprocess"] > until["reprocess"]
    /\ \E i, j \in Indices :
         /\ i <= j /\ j < pos["monitor"] /\ i \in BlockStart(i)
         /\ j + 1 \in Indices => j + 1 \in BlockStart(j + 1)
         /\ pos' = [pos EXCEPT !["reprocess"] = i]
         /\ until' = [until EXCEPT !["reprocess"] = j]
         /\ replayed' = replayed \cup i..j
    /\ UNCHANGED <<savedTo, tables, step, held, handled>>

Next ==
    \/ SaveLogs \/ Restart \/ Reprocess
    \/ \E w \in Workers : HandleLog(w) \/ Fails(w)

Spec == Init /\ [][Next]_vars

\* The failures are bounded, so the monitor gets on with its handlers.
FairSpec == Spec /\ WF_vars(SaveLogs) /\ WF_vars(HandleLog("monitor"))

-----------------------------------------------------------------------------
(* Properties *)

\* The types of the variables; a program that is inside a handler is at a log.
TypeOK ==
    /\ savedTo \in Nat
    /\ messages \subseteq [hash: Addresses \X Nat \X STRING, sender: Addresses]
    /\ sent \subseteq Indices /\ rows \subseteq Indices
    /\ validators \subseteq [added: Indices, removed: Indices \cup {NoLog}]
    /\ pos \in [Workers -> 1..(Len(History) + 1)]
    /\ until \in [Workers -> 0..Len(History)]
    /\ step \in [Workers -> Steps]
    /\ held \in [Workers -> Indices \cup {NoLog}]
    /\ \A w \in Workers : step[w] # "start" => pos[w] <= until[w]
    /\ \A w \in Workers : step[w] \in {"message", "remove"} => held[w] # NoLog
    /\ handled \subseteq Indices /\ replayed \subseteq Indices
    /\ replays \in 0..MaxReplays

InTransaction(i, event) ==
    {k \in Indices : History[k].tx = History[i].tx /\ History[k].event = event}

\* A payment through the bridge contract is one message: the transfer of its
\* tokens, in the same transaction, is not taken for a message of its own
\* (len(logs) > 0 in HandleErcToNativeTransfer).
OneMessagePerPayment ==
    \A i \in sent : History[i].event = "transfer" => InTransaction(i, "payment") = {}

\* The messages are those of the history, with the sender it tells: what the last
\* writer of a row found in the logs table (repo.Logs.Find) was all there is.
MessagesTellSender ==
    \A m \in messages : \E i \in Indices :
        /\ History[i].event \in SentEvents /\ m.hash = Hash(i)
        /\ \E k \in LastOf(i, IF History[i].event = "payment"
                              THEN InTransaction(i, "transfer") ELSE {}) :
             m.sender = History[k].who

NeedsRow(i) ==
    \/ History[i].event \in RowEvents \cup {"request", "information", "payment"}
    \/ /\ History[i].event = "transfer" /\ History[i].who \notin Blacklisted
       /\ InTransaction(i, "payment") = {}

\* A handler that has completed leaves a row with its message, whatever failed
\* before and whoever else handles the log.
HandledAreStored ==
    \A i \in handled : NeedsRow(i) =>
        /\ i \in sent \cup rows
        /\ i \in sent => \E m \in messages : m.hash = Hash(i)

KindOf == [request |-> "sent", payment |-> "sent", transfer |-> "sent",
           information |-> "info_sent", signed |-> "signed", executed |-> "executed",
           retrieved |-> "info_executed"]

\* The tables tell which message was sent; what the other rows refer to is not
\* followed here, but it was sent on the other side.
MessageOf(i) ==
    [hash |-> Hash(i),
     direction |-> IF History[i].event \in SentEvents THEN "home_to_foreign"
                                                     ELSE "foreign_to_home"]

LogOf(i) ==
    [side |-> "home", block |-> History[i].block, index |-> i, tx |-> History[i].tx,
     kind |-> KindOf[History[i].event], msg |-> MessageOf(i), data |-> History[i].who]

LastBlock == IF History = <<>> THEN 0 ELSE History[Len(History)].block

\* The side as one of the two that BridgeTables has, without its validators.
Tables == INSTANCE BridgeTables WITH
    Messages <- {MessageOf(i) : i \in Indices},
    NoMessage <- [hash |-> <<>>, direction |-> "none"],
    Logs <- {LogOf(i) : i \in {j \in Indices : NeedsRow(j)}},
    MaxBlock <- LastBlock,
    BlockTime <- [s \in {"home", "foreign"} |-> [b \in 0..LastBlock |-> b]],
    messages <- {[hash |-> m.hash, direction |-> "home_to_foreign"] : m \in messages},
    rows <- {LogOf(i) : i \in sent \cup rows},
    timestamps <- [s \in {"home", "foreign"} |-> {}]

\* The alert jobs and the presenter see what BridgeTables lets them rely on: a log
\* gets its row when all logs before it have theirs, a sent message is stored
\* before its row, and nothing is taken away, although two programs handle the
\* logs, and handle them again after errors and restarts.
ImplementsTables == Tables!TablesSpec

EventsOf(who) ==
    {i \in Indices : History[i].event \in {"added", "removed"} /\ History[i].who = who}

Additions(who) == {i \in EventsOf(who) : History[i].event = "added"}

\* After the events of the logs that the monitor has handled.
IsValidator(who) ==
    \E i \in Additions(who) :
        /\ i < pos["monitor"]
        /\ \A j \in EventsOf(who) : j < pos["monitor"] => j <= i

\* The contract adds nobody who is a validator.
AddedApart(who) ==
    \A i, j \in Additions(who) :
        i < j => \E k \in EventsOf(who) \ Additions(who) : i < k /\ k < j

\* There is one addition, and what is reprocessed of the validator comes after it.
AddedOnce(who) ==
    \A a \in Additions(who) :
        /\ \A b \in Additions(who) : a = b
        /\ \A r \in EventsOf(who) \cap replayed : a < r

\* The active rows are the validators of the chain: at every log, as long as nothing
\* was repeated, and when the monitor has handled all logs, whatever failed, was
\* restarted or reprocessed meanwhile.  After a repetition this holds only for
\* validators who were added once and whose addition was not reprocessed: for
\* others Ensure may leave or make active a row of the past.
ActiveAreValidators ==
    \A who \in Addresses :
        (\/ replays = 0 /\ AddedApart(who)
         \/ pos["monitor"] > Len(History) /\ AddedOnce(who))
          => ((ActiveRows(who) # {}) = IsValidator(who))

\* The monitor gets to the end of the logs: nothing it stored the first time
\* makes it fail for ever when it handles a log again.
AllAreHandled == <>[](pos["monitor"] > Len(History))
=============================================================================
