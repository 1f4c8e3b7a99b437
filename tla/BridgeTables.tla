----------------------------- MODULE BridgeTables -----------------------------
(***************************************************************************)
(* The tables of a bridge as the alert jobs and the presenter see them:    *)
(* filled by the handlers of both sides while they are read.  Each side is *)
(* indexed on its own; of its indexing pipeline only what Indexer promises *)
(* is used: logs are handled in chain order.                               *)
(*                                                                         *)
(* A row of the tables sent_, signed_, collected_ and executed_messages    *)
(* (or _information_requests) belongs to one log and is named by it, and   *)
(* so is what a log changes in bridge_validators.                          *)
(***************************************************************************)
EXTENDS Naturals, FiniteSets

CONSTANTS
    Messages,       \* the messages and information requests
    NoMessage,      \* of a log that adds or removes a validator
    Logs,           \* the logs of both sides
    MaxBlock,       \* bound: last block of both chains; 0 precedes the first
    BlockTime       \* the timestamp of each block of each side

Sides == {"home", "foreign"}
Blocks == 0..MaxBlock
SentKinds == {"sent", "info_sent"}
ValidatorKinds == {"added", "removed"}
Kinds == SentKinds \cup ValidatorKinds
           \cup {"signed", "collected", "executed", "info_signed", "info_executed"}

\* data is the status of an execution, who signed a message, what was signed of
\* an information request, or a validator.
Log == [side: Sides, block: Blocks \ {0}, index: Nat, tx: STRING, kind: Kinds,
        msg: Messages \cup {NoMessage}, data: STRING]

TimeOf(l) == BlockTime[l.side][l.block]

ASSUME SizesAssumption == MaxBlock \in Nat /\ IsFiniteSet(Logs)
ASSUME LogsAssumption ==
    /\ Logs \subseteq Log
    /\ \A l \in Logs :
         /\ l.side = "foreign" => l.kind \in {"sent", "executed"} \cup ValidatorKinds
         /\ l.kind = "sent" => (l.side = "home") = (l.msg.direction = "home_to_foreign")
         /\ l.kind \in ValidatorKinds <=> l.msg = NoMessage
ASSUME TimeAssumption ==
    /\ BlockTime \in [Sides -> [Blocks -> Nat]]
    /\ \A s \in Sides : \A b, c \in Blocks : b < c => BlockTime[s][b] < BlockTime[s][c]
\* A message is signed and executed after it was sent, by the clocks of the chains.
ASSUME CausalityAssumption ==
    \A k, l \in Logs :
        (k.kind \in SentKinds /\ k.msg = l.msg) => TimeOf(k) <= TimeOf(l)

VARIABLES
    messages,     \* messages (erc_to_native_messages, information_requests)
    rows,         \* logs with a row in one of the other tables
    timestamps    \* block_timestamps of each side

bridgeTables == <<messages, rows, timestamps>>

-----------------------------------------------------------------------------
(* Queries *)

OfKind(kind) == {l \in Logs : l.kind = kind}

\* The rows of the table of a kind of event.
Table(kind) == {l \in rows : l.kind = kind}

Has(kind, m) == \E l \in Table(kind) : l.msg = m

Precedes(k, l) ==
    /\ k.side = l.side
    /\ \/ k.block < l.block
       \/ k.block = l.block /\ k.index < l.index

-----------------------------------------------------------------------------
(* The handlers of both sides *)

TablesInit == messages = {} /\ rows = {} /\ timestamps = [s \in Sides |-> {}]

\* Logs are handled one after the other, in chain order.
IsNext(l) == l \notin rows /\ \A k \in Logs : Precedes(k, l) => k \in rows

EnsureMessageOfLog(l) ==
    /\ IsNext(l)
    /\ messages' = messages \cup {l.msg}
    /\ UNCHANGED <<rows, timestamps>>

\* First statement of a handler of a sent message or information request.
EnsureMessage(l) ==
    /\ IsNext(l) /\ l.kind \in SentKinds
    /\ messages' = messages \cup {l.msg}
    /\ UNCHANGED <<rows, timestamps>>

EnsureRowOfKnown(l) ==
    /\ IsNext(l) /\ (l.msg # NoMessage => l.msg \in messages)
    /\ rows' = rows \cup {l}
    /\ UNCHANGED <<messages, timestamps>>

\* The last or only statement of a handler.
EnsureRow(l) ==
    /\ IsNext(l) /\ (l.kind \in SentKinds => l.msg \in messages)
    /\ rows' = rows \cup {l}
    /\ UNCHANGED <<messages, timestamps>>

HandledBefore(s, b) == \A l \in Logs : (l.side = s /\ l.block < b) => l \in rows

HasLogs(s, b) == \E l \in Logs : l.side = s /\ l.block = b

\* While the logs of a block are handled its timestamp is stored.
StoreTimestamp(s, b) ==
    /\ HandledBefore(s, b) /\ b \notin timestamps[s]
    /\ timestamps' = [timestamps EXCEPT ![s] = @ \cup {b}]
    /\ UNCHANGED <<messages, rows>>

DeleteAllTimestamps ==
    /\ timestamps' = [s \in Sides |-> {}]
    /\ UNCHANGED <<messages, rows>>

\* fix_block_timestamps deletes the timestamps of blocks without logs.
DeleteTimestamps ==
    /\ timestamps' = [s \in Sides |->
                         {b \in timestamps[s] : HasLogs(s, b)}]
    /\ UNCHANGED <<messages, rows>>

TablesNext ==
    \/ \E l \in Logs : EnsureMessage(l) \/ EnsureRow(l)
    \/ \E s \in Sides, b \in Blocks : StoreTimestamp(s, b)
    \/ DeleteTimestamps

\* What the readers of the tables rely on; EventHandlers implements it.
TablesSpec == TablesInit /\ [][TablesNext]_bridgeTables
=============================================================================
