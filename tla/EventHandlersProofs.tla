-------------------------- MODULE EventHandlersProofs --------------------------
(***************************************************************************)
(* What the handlers store, for every history: a payment is one message,   *)
(* messages tell their sender, what was handled is stored, the active      *)
(* validators are those of the chain.                                      *)
(***************************************************************************)
EXTENDS EventHandlers, FiniteSetTheorems, TLAPS

SenderLogs(i) ==
    LastOf(i, IF History[i].event = "payment" THEN InTransaction(i, "transfer") ELSE {})

IsOwnMessage(i) == History[i].event = "transfer" => InTransaction(i, "payment") = {}

HasMessage(i) == \E m \in messages : m.hash = Hash(i)

\* What a handler has learned and stored when it comes to its next statement.
HandlersKnow ==
    \A w \in Workers :
        /\ step[w] = "message" =>
             /\ History[pos[w]].event \in {"transfer", "payment"}
             /\ IsOwnMessage(pos[w]) /\ held[w] \in SenderLogs(pos[w])
        /\ step[w] = "sent" =>
             /\ History[pos[w]].event \in SentEvents
             /\ IsOwnMessage(pos[w]) /\ HasMessage(pos[w])

SentHaveMessage ==
    \A i \in sent : /\ History[i].event \in SentEvents
                    /\ IsOwnMessage(i) /\ HasMessage(i)

HandledHaveRow == \A i \in handled : NeedsRow(i) => i \in sent \cup rows

Inv ==
    /\ TypeOK
    /\ HandlersKnow /\ SentHaveMessage /\ HandledHaveRow /\ MessagesTellSender

\* A log of the history has its fields.
LEMMA LogTypes ==
    ASSUME NEW i \in Indices
    PROVE  /\ i \in Nat \ {0}
           /\ History[i].block \in Nat \ {0} /\ History[i].tx \in STRING
           /\ History[i].event \in Events /\ History[i].who \in Addresses
           /\ Hash(i) \in Addresses \X Nat \X STRING
<1>1. Len(History) \in Nat /\ i \in Nat \ {0}
  BY HistoryAssumption DEF Indices
<1>2. History[i] \in Log
  BY HistoryAssumption DEF Indices
<1> QED
  BY <1>1, <1>2 DEF Log, Hash

\* A program is at a log whenever a statement of a handler runs.
LEMMA AtALog ==
    ASSUME TypeOK, NEW w \in Workers, NEW s, NEW events, Handles(w, s, events)
    PROVE  pos[w] \in Indices /\ pos[w] \in Nat /\ step[w] = s /\ History[pos[w]].event \in events
<1>1. Len(History) \in Nat /\ pos[w] \in 1..(Len(History) + 1) /\ until[w] \in 0..Len(History)
  BY HistoryAssumption DEF TypeOK
<1> QED
  BY <1>1 DEF Handles, Indices

\* The batch of a block begins at a log not after any of its logs.
LEMMA BatchBegins ==
    ASSUME NEW i \in Indices, NEW k \in BlockStart(i)
    PROVE  k \in Indices /\ k <= i
<1>1. Len(History) \in Nat /\ k \in 1..i
  BY HistoryAssumption DEF BlockStart
<1> QED
  BY <1>1 DEF Indices

-----------------------------------------------------------------------------
(* Types *)

\* Both programs start with types that fit, on empty tables.
LEMMA InitType == Init => TypeOK
<1>1. Len(History) \in Nat /\ MaxReplays \in Nat
  BY HistoryAssumption, ReplaysAssumption
<1> QED
  BY <1>1 DEF Init, TypeOK, Workers, Steps, NoLog

\* A handler that has finished leaves the program at the next log.
LEMMA DoneType ==
    ASSUME TypeOK, NEW w \in Workers, NEW s, NEW events, Handles(w, s, events), Done(w)
    PROVE  /\ pos' \in [Workers -> 1..(Len(History) + 1)]
           /\ step' \in [Workers -> Steps]
           /\ held' \in [Workers -> Indices \cup {NoLog}]
           /\ \A v \in Workers : step'[v] # "start" => pos'[v] <= until'[v]
           /\ \A v \in Workers : step'[v] \in {"message", "remove"} => held'[v] # NoLog
           /\ handled' \subseteq Indices
<1>1. pos[w] \in Indices /\ pos[w] + 1 \in 1..(Len(History) + 1)
  BY AtALog, HistoryAssumption DEF Indices
<1> QED
  BY <1>1 DEF TypeOK, Done, Steps

\* A handler that goes on is at one of its statements.
LEMMA GoToType ==
    ASSUME TypeOK, NEW w \in Workers, NEW s, NEW events, Handles(w, s, events),
           NEW t \in Steps, NEW i \in Indices \cup {NoLog},
           t \in {"message", "remove"} => i # NoLog, GoTo(w, t, i)
    PROVE  /\ step' \in [Workers -> Steps]
           /\ held' \in [Workers -> Indices \cup {NoLog}]
           /\ \A v \in Workers : step'[v] # "start" => pos'[v] <= until'[v]
           /\ \A v \in Workers : step'[v] \in {"message", "remove"} => held'[v] # NoLog
<1>1. pos[w] <= until[w]
  BY DEF Handles
<1> QED
  BY <1>1 DEF TypeOK, GoTo

\* Both upserts of a message add a row of the type.
LEMMA MessageType ==
    ASSUME TypeOK, NEW i \in Indices, NEW a \in Addresses,
           EnsureMessage(Hash(i), a) \/ EnsureMessageSender(Hash(i), a)
    PROVE  messages' \subseteq [hash: Addresses \X Nat \X STRING, sender: Addresses]
<1>1. [hash |-> Hash(i), sender |-> a] \in [hash: Addresses \X Nat \X STRING, sender: Addresses]
  BY LogTypes
<1> QED
  BY <1>1 DEF TypeOK, EnsureMessage, EnsureMessageSender

\* The upsert of a validator writes a row.
LEMMA ValidatorType ==
    ASSUME TypeOK, NEW i \in Indices, NEW j \in Indices \cup {NoLog}, EnsureValidator(i, j)
    PROVE  validators' \subseteq [added: Indices, removed: Indices \cup {NoLog}]
BY DEF TypeOK, EnsureValidator

\* A batch that is handled again from the log k.
LEMMA RewindType ==
    ASSUME TypeOK, NEW w \in Workers, NEW k \in Indices,
           pos' = [pos EXCEPT ![w] = k],
           step' = [step EXCEPT ![w] = "start"], held' = [held EXCEPT ![w] = NoLog],
           UNCHANGED until
    PROVE  /\ pos' \in [Workers -> 1..(Len(History) + 1)]
           /\ step' \in [Workers -> Steps]
           /\ held' \in [Workers -> Indices \cup {NoLog}]
           /\ \A v \in Workers : step'[v] # "start" => pos'[v] <= until'[v]
           /\ \A v \in Workers : step'[v] \in {"message", "remove"} => held'[v] # NoLog
<1>1. k \in 1..(Len(History) + 1)
  BY HistoryAssumption DEF Indices
<1> QED
  BY <1>1 DEF TypeOK, Steps

\* Every statement of a handler keeps the types.
LEMMA HandleLogType ==
    ASSUME TypeOK, NEW w \in Workers, HandleLog(w)
    PROVE  TypeOK'
<1> USE HistoryAssumption
<1>u. UNCHANGED replays
  BY DEF HandleLog
<1>1. CASE EnsureRequest(w)
  <2>1. pos[w] \in Indices /\ History[pos[w]].who \in Addresses
    BY <1>1, AtALog, LogTypes DEF EnsureRequest
  <2>2. messages' \subseteq [hash: Addresses \X Nat \X STRING, sender: Addresses]
    BY <1>1, <2>1, MessageType DEF EnsureRequest
  <2>3. Handles(w, "start", {"request", "information"}) /\ GoTo(w, "sent", NoLog)
    BY <1>1 DEF EnsureRequest
  <2>4. "sent" \in Steps /\ NoLog \in Indices \cup {NoLog}
        /\ ("sent" \in {"message", "remove"} => NoLog # NoLog)
    BY DEF Steps
  <2>5. /\ step' \in [Workers -> Steps]
        /\ held' \in [Workers -> Indices \cup {NoLog}]
        /\ \A v \in Workers : step'[v] # "start" => pos'[v] <= until'[v]
        /\ \A v \in Workers : step'[v] \in {"message", "remove"} => held'[v] # NoLog
    BY <2>3, <2>4, GoToType
  <2> QED
    BY <1>1, <1>u, <2>2, <2>5 DEF TypeOK, EnsureRequest, GoTo
<1>2. CASE HandleTransfer(w)
  <2>1. pos[w] \in Indices /\ pos[w] # NoLog
    BY <1>2, AtALog, LogTypes DEF HandleTransfer, NoLog
  <2>2. Handles(w, "start", {"transfer"}) /\ (Done(w) \/ GoTo(w, "message", pos[w]))
    BY <1>2 DEF HandleTransfer
  <2>3. CASE Done(w)
    BY <1>2, <1>u, <2>2, <2>3, DoneType DEF TypeOK, Done, HandleTransfer, tables
  <2>4. CASE GoTo(w, "message", pos[w])
    <3>1. "message" \in Steps
      BY DEF Steps
    <3> QED
      BY <1>2, <1>u, <2>1, <2>2, <2>4, <3>1, GoToType DEF TypeOK, GoTo, HandleTransfer, tables
  <2> QED
    BY <2>2, <2>3, <2>4
<1>3. CASE HandlePayment(w)
  <2>1. pos[w] \in Indices
    BY <1>3, AtALog DEF HandlePayment
  <2>2. PICK k \in LastOf(pos[w], FindTransfers(pos[w])) : GoTo(w, "message", k)
    BY <1>3 DEF HandlePayment
  <2>3. k \in Indices /\ k # NoLog
    <3>1. k \in Indices
      BY <2>1, <2>2 DEF LastOf, FindTransfers, LogsIn
    <3> QED
      BY <3>1, LogTypes DEF NoLog
  <2>4. "message" \in Steps /\ Handles(w, "start", {"payment"})
    BY <1>3 DEF Steps, HandlePayment
  <2> QED
    BY <1>3, <1>u, <2>2, <2>3, <2>4, GoToType DEF TypeOK, GoTo, HandlePayment, tables
<1>4. CASE EnsureErcToNativeMessage(w)
  <2>1. pos[w] \in Indices /\ step[w] = "message"
    BY <1>4, AtALog DEF EnsureErcToNativeMessage
  <2>2. held[w] \in Indices
    BY <2>1 DEF TypeOK
  <2>3. messages' \subseteq [hash: Addresses \X Nat \X STRING, sender: Addresses]
    BY <1>4, <2>1, <2>2, LogTypes, MessageType DEF EnsureErcToNativeMessage
  <2>4. "sent" \in Steps /\ Handles(w, "message", {"transfer", "payment"})
        /\ GoTo(w, "sent", NoLog)
    BY <1>4 DEF Steps, EnsureErcToNativeMessage
  <2> QED
    BY <1>4, <1>u, <2>3, <2>4, GoToType DEF TypeOK, GoTo, EnsureErcToNativeMessage
<1>5. CASE EnsureSent(w)
  <2>1. pos[w] \in Indices /\ Handles(w, "sent", SentEvents) /\ Done(w)
    BY <1>5, AtALog DEF EnsureSent
  <2> QED
    BY <1>5, <1>u, <2>1, DoneType DEF TypeOK, Done, EnsureSent
<1>6. CASE EnsureRow(w)
  <2>1. pos[w] \in Indices /\ Handles(w, "start", RowEvents) /\ Done(w)
    BY <1>6, AtALog DEF EnsureRow
  <2> QED
    BY <1>6, <1>u, <2>1, DoneType DEF TypeOK, Done, EnsureRow
<1>7. CASE HandleValidatorAdded(w)
  <2>1. pos[w] \in Indices /\ Handles(w, "start", {"added"}) /\ Done(w)
    BY <1>7, AtALog DEF HandleValidatorAdded
  <2>2. validators' \subseteq [added: Indices, removed: Indices \cup {NoLog}]
    BY <1>7, <2>1, ValidatorType DEF HandleValidatorAdded
  <2> QED
    BY <1>7, <1>u, <2>1, <2>2, DoneType DEF TypeOK, Done, HandleValidatorAdded
<1>8. CASE GetActiveValidator(w)
  <2>1. Handles(w, "start", {"removed"})
    BY <1>8 DEF GetActiveValidator
  <2>2. CASE Done(w)
    BY <1>8, <1>u, <2>1, <2>2, DoneType DEF TypeOK, Done, GetActiveValidator, tables
  <2>3. ASSUME NEW v \in ActiveRows(History[pos[w]].who), GoTo(w, "remove", v.added)
        PROVE  TypeOK'
    <3>1. v.added \in Indices /\ v.added # NoLog
      BY LogTypes DEF ActiveRows, TypeOK, NoLog
    <3>2. "remove" \in Steps
      BY DEF Steps
    <3> QED
      BY <1>8, <1>u, <2>1, <2>3, <3>1, <3>2, GoToType DEF TypeOK, GoTo, GetActiveValidator, tables
  <2> QED
    BY <1>8, <2>2, <2>3 DEF GetActiveValidator
<1>9. CASE EnsureRemoved(w)
  <2>1. pos[w] \in Indices /\ Handles(w, "remove", {"removed"}) /\ Done(w) /\ step[w] = "remove"
    BY <1>9, AtALog DEF EnsureRemoved
  <2>2. held[w] \in Indices
    BY <2>1 DEF TypeOK
  <2>3. validators' \subseteq [added: Indices, removed: Indices \cup {NoLog}]
    BY <1>9, <2>1, <2>2, ValidatorType DEF EnsureRemoved
  <2> QED
    BY <1>9, <1>u, <2>1, <2>3, DoneType DEF TypeOK, Done, EnsureRemoved
<1> QED
  BY <1>1, <1>2, <1>3, <1>4, <1>5, <1>6, <1>7, <1>8, <1>9 DEF HandleLog

\* Every step keeps the types.
LEMMA NextType == TypeOK /\ [Next]_vars => TypeOK'
<1> SUFFICES ASSUME TypeOK, [Next]_vars PROVE TypeOK'
  OBVIOUS
<1>r. \A r \in 0..MaxReplays : r < MaxReplays => r + 1 \in 0..MaxReplays
  BY ReplaysAssumption
<1>1. CASE SaveLogs
  <2>1. savedTo' \in Nat
    BY <1>1, LogTypes DEF SaveLogs
  <2> QED
    BY <1>1, <2>1 DEF SaveLogs, TypeOK, tables
<1>2. CASE Restart
  <2>1. PICK i \in Indices :
          \E k \in BlockStart(i) : pos' = [pos EXCEPT !["monitor"] = k]
    BY <1>2 DEF Restart
  <2>2. PICK k \in BlockStart(i) : pos' = [pos EXCEPT !["monitor"] = k]
    BY <2>1
  <2>3. k \in Indices /\ "monitor" \in Workers
    BY <2>2, BatchBegins DEF Workers
  <2>4. /\ pos' \in [Workers -> 1..(Len(History) + 1)]
        /\ step' \in [Workers -> Steps]
        /\ held' \in [Workers -> Indices \cup {NoLog}]
        /\ \A v \in Workers : step'[v] # "start" => pos'[v] <= until'[v]
        /\ \A v \in Workers : step'[v] \in {"message", "remove"} => held'[v] # NoLog
    BY <1>2, <2>2, <2>3, RewindType DEF Restart
  <2>5. replays' \in 0..MaxReplays
    BY <1>2, <1>r DEF Restart, TypeOK
  <2> QED
    BY <1>2, <2>4, <2>5 DEF Restart, TypeOK, tables
<1>3. CASE Reprocess
  <2>1. PICK i \in Indices, j \in Indices :
          /\ pos' = [pos EXCEPT !["reprocess"] = i]
          /\ until' = [until EXCEPT !["reprocess"] = j]
          /\ replayed' = replayed \cup i..j
    BY <1>3 DEF Reprocess
  <2>2. i \in 1..(Len(History) + 1) /\ j \in 0..Len(History) /\ i..j \subseteq Indices
    BY HistoryAssumption DEF Indices
  <2>3. "reprocess" \in Workers /\ step["reprocess"] = "start"
    <3>1. "reprocess" \in Workers /\ pos["reprocess"] > until["reprocess"]
      BY <1>3 DEF Reprocess, Workers
    <3>2. pos["reprocess"] \in Nat /\ until["reprocess"] \in Nat
      BY <3>1, HistoryAssumption DEF TypeOK
    <3> QED
      BY <3>1, <3>2 DEF TypeOK
  <2>4. replays' \in 0..MaxReplays
    BY <1>3, <1>r DEF Reprocess, TypeOK
  <2> QED
    BY <1>3, <2>1, <2>2, <2>3, <2>4 DEF Reprocess, TypeOK, tables
<1>4. ASSUME NEW w \in Workers, HandleLog(w) PROVE TypeOK'
  BY <1>4, HandleLogType
<1>5. ASSUME NEW w \in Workers, Fails(w) PROVE TypeOK'
  <2>1. pos[w] \in Indices
    <3>1. Handles(w, step[w], Events)
      BY <1>5 DEF Fails
    <3> QED
      BY <3>1, AtALog
  <2>2. PICK k \in BlockStart(pos[w]) : pos' = [pos EXCEPT ![w] = k]
    BY <1>5 DEF Fails, RetryBatch
  <2>3. /\ pos' \in [Workers -> 1..(Len(History) + 1)]
        /\ step' \in [Workers -> Steps]
        /\ held' \in [Workers -> Indices \cup {NoLog}]
        /\ \A v \in Workers : step'[v] # "start" => pos'[v] <= until'[v]
        /\ \A v \in Workers : step'[v] \in {"message", "remove"} => held'[v] # NoLog
    BY <1>5, <2>1, <2>2, BatchBegins, RewindType DEF Fails, RetryBatch
  <2>4. replays' \in 0..MaxReplays
    BY <1>5, <1>r DEF Fails, TypeOK
  <2> QED
    BY <1>5, <2>3, <2>4 DEF Fails, RetryBatch, TypeOK, tables
<1>6. CASE UNCHANGED vars
  BY <1>6 DEF vars, tables, TypeOK
<1> QED
  BY <1>1, <1>2, <1>3, <1>4, <1>5, <1>6 DEF Next

\* The tables and both programs keep their types, for every history, blacklist
\* and number of repetitions.
THEOREM TypeCorrect == Spec => []TypeOK
BY InitType, NextType, PTL DEF Spec

-----------------------------------------------------------------------------
(* What is stored *)

\* The logs of a transaction are in one block, which is saved as a whole; so
\* Logs.Find misses none of them.
LEMMA FindIsComplete ==
    ASSUME NEW i \in Indices, History[i].block <= savedTo, NEW event
    PROVE  LogsIn(History[i].tx, event) = InTransaction(i, event)
<1>1. \A k \in Indices : History[k].tx = History[i].tx => History[k].block <= savedTo
  BY TransactionAssumption
<1> QED
  BY <1>1 DEF LogsIn, InTransaction

\* No upsert of a message removes another, and it stores its own.
LEMMA MessagesStay ==
    ASSUME NEW h, NEW a, EnsureMessage(h, a) \/ EnsureMessageSender(h, a)
    PROVE  /\ \A m \in messages : \E n \in messages' : n.hash = m.hash
           /\ \E n \in messages' : n.hash = h
           /\ \A n \in messages' : n \in messages \/ (n.hash = h /\ n.sender = a)
<1> DEFINE new == [hash |-> h, sender |-> a]
<1>1. new.hash = h /\ new.sender = a
  OBVIOUS
<1>2. CASE EnsureMessage(h, a)
  BY <1>1, <1>2 DEF EnsureMessage
<1>3. CASE EnsureMessageSender(h, a)
  <2>1. messages' = {m \in messages : m.hash # h} \cup {new}
    BY <1>3 DEF EnsureMessageSender
  <2> QED
    BY <1>1, <2>1
<1> QED
  BY <1>2, <1>3

\* A statement that stores the message of the log i, for the sender of SenderLogs.
LEMMA EnsureMessageKeeps ==
    ASSUME Inv, NEW w \in Workers, NEW k \in SenderLogs(pos[w]),
           pos[w] \in Indices, History[pos[w]].event \in SentEvents, IsOwnMessage(pos[w]),
           \/ EnsureMessage(Hash(pos[w]), History[k].who)
           \/ EnsureMessageSender(Hash(pos[w]), History[k].who),
           GoTo(w, "sent", NoLog), UNCHANGED <<sent, rows>>
    PROVE  HandlersKnow' /\ SentHaveMessage' /\ HandledHaveRow' /\ MessagesTellSender'
<1>1. /\ \A m \in messages : \E n \in messages' : n.hash = m.hash
      /\ \E n \in messages' : n.hash = Hash(pos[w])
      /\ \A n \in messages' : 
           n \in messages \/ (n.hash = Hash(pos[w]) /\ n.sender = History[k].who)
  BY MessagesStay
<1>2. \A i : HasMessage(i) => HasMessage(i)'
  BY <1>1 DEF HasMessage
<1>3. HasMessage(pos[w])'
  BY <1>1 DEF HasMessage, GoTo
<1>4. step' = [step EXCEPT ![w] = "sent"] /\ held' = [held EXCEPT ![w] = NoLog]
      /\ pos' = pos /\ handled' = handled
  BY DEF GoTo
<1>5. HandlersKnow'
  <2> SUFFICES ASSUME NEW v \in Workers
               PROVE /\ step'[v] = "message" =>
                          /\ History[pos[v]].event \in {"transfer", "payment"}
                          /\ IsOwnMessage(pos[v]) /\ held'[v] \in SenderLogs(pos[v])
                     /\ step'[v] = "sent" =>
                          /\ History[pos[v]].event \in SentEvents
                          /\ IsOwnMessage(pos[v]) /\ HasMessage(pos[v])'
    BY <1>4 DEF HandlersKnow, IsOwnMessage, SenderLogs, HasMessage
  <2>1. CASE v = w
    BY <1>3, <1>4, <2>1 DEF Inv, TypeOK, HasMessage
  <2>2. CASE v # w
    <3>1. step'[v] = step[v] /\ held'[v] = held[v]
      BY <1>4, <2>2 DEF Inv, TypeOK
    <3>2. HasMessage(pos[v]) => HasMessage(pos[v])'
      BY <1>1, <1>4 DEF HasMessage
    <3> QED
      BY <3>1, <3>2 DEF Inv, HandlersKnow
  <2> QED
    BY <2>1, <2>2
<1>6. SentHaveMessage'
  BY <1>2 DEF Inv, SentHaveMessage, IsOwnMessage
<1>7. HandledHaveRow'
  BY <1>4 DEF Inv, HandledHaveRow, NeedsRow
<1>8. MessagesTellSender'
  BY <1>1 DEF Inv, MessagesTellSender, SenderLogs
<1> QED
  BY <1>5, <1>6, <1>7, <1>8

\* A handler that completes with what its event requires.
LEMMA DoneKeeps ==
    ASSUME Inv, NEW w \in Workers, pos[w] \in Indices, Done(w), UNCHANGED messages,
           \/ sent' = sent
           \/ /\ sent' = sent \cup {pos[w]} /\ History[pos[w]].event \in SentEvents
              /\ IsOwnMessage(pos[w]) /\ HasMessage(pos[w]),
           rows \subseteq rows', NeedsRow(pos[w]) => pos[w] \in sent' \cup rows'
    PROVE  HandlersKnow' /\ SentHaveMessage' /\ HandledHaveRow' /\ MessagesTellSender'
<1>1. \A i : HasMessage(i)' <=> HasMessage(i)
  BY DEF HasMessage
<1>2. HandlersKnow'
  <2> SUFFICES ASSUME NEW v \in Workers
               PROVE /\ step'[v] = "message" =>
                          /\ History[pos'[v]].event \in {"transfer", "payment"}
                          /\ IsOwnMessage(pos'[v]) /\ held'[v] \in SenderLogs(pos'[v])
                     /\ step'[v] = "sent" =>
                          /\ History[pos'[v]].event \in SentEvents
                          /\ IsOwnMessage(pos'[v]) /\ HasMessage(pos[v])'
    BY DEF HandlersKnow, IsOwnMessage, SenderLogs, HasMessage
  <2>1. CASE v = w
    BY <2>1 DEF Inv, TypeOK, Done
  <2>2. CASE v # w
    <3>1. step'[v] = step[v] /\ held'[v] = held[v] /\ pos'[v] = pos[v]
      BY <2>2 DEF Inv, TypeOK, Done
    <3> QED
      BY <3>1 DEF Inv, HandlersKnow, HasMessage
  <2> QED
    BY <2>1, <2>2
<1>3. SentHaveMessage'
  BY <1>1 DEF Inv, SentHaveMessage, IsOwnMessage
<1>4. HandledHaveRow'
  BY DEF Inv, HandledHaveRow, NeedsRow, Done
<1>5. MessagesTellSender'
  BY DEF Inv, MessagesTellSender
<1> QED
  BY <1>2, <1>3, <1>4, <1>5

\* A program that goes elsewhere without a change of the tables.
LEMMA MoveKeeps ==
    ASSUME Inv, UNCHANGED <<messages, sent, rows, handled>>,
           \A w \in Workers :
             \/ step'[w] \notin {"message", "sent"}
             \/ step'[w] = step[w] /\ held'[w] = held[w] /\ pos'[w] = pos[w]
             \/ /\ step'[w] = "message" /\ pos'[w] = pos[w]
                /\ History[pos[w]].event \in {"transfer", "payment"}
                /\ IsOwnMessage(pos[w]) /\ held'[w] \in SenderLogs(pos[w])
    PROVE  HandlersKnow' /\ SentHaveMessage' /\ HandledHaveRow' /\ MessagesTellSender'
<1>1. HandlersKnow'
  BY DEF Inv, HandlersKnow, HasMessage, IsOwnMessage, SenderLogs
<1>2. SentHaveMessage' /\ HandledHaveRow'
  BY DEF Inv, SentHaveMessage, HandledHaveRow, IsOwnMessage, HasMessage, NeedsRow
<1>3. MessagesTellSender'
  BY DEF Inv, MessagesTellSender
<1> QED
  BY <1>1, <1>2, <1>3

\* Every statement of a handler keeps the invariant.
LEMMA HandleLogKeeps ==
    ASSUME Inv, NEW w \in Workers, HandleLog(w)
    PROVE  HandlersKnow' /\ SentHaveMessage' /\ HandledHaveRow' /\ MessagesTellSender'
<1> USE DEF Inv
<1>1. CASE EnsureRequest(w)
  <2>1. pos[w] \in Indices /\ History[pos[w]].event \in {"request", "information"}
    BY <1>1, AtALog DEF EnsureRequest
  <2>2. pos[w] \in SenderLogs(pos[w]) /\ IsOwnMessage(pos[w])
        /\ History[pos[w]].event \in SentEvents
    BY <2>1 DEF SenderLogs, LastOf, IsOwnMessage, SentEvents
  <2> QED
    BY <1>1, <2>1, <2>2, EnsureMessageKeeps DEF EnsureRequest
<1>2. CASE HandleTransfer(w)
  <2>1. pos[w] \in Indices /\ History[pos[w]].event = "transfer"
        /\ History[pos[w]].block <= savedTo
    BY <1>2, AtALog DEF HandleTransfer, Handles
  <2>2. FindPayments(pos[w]) = InTransaction(pos[w], "payment")
    BY <2>1, FindIsComplete DEF FindPayments
  <2>3. CASE History[pos[w]].who \in Blacklisted \/ FindPayments(pos[w]) # {}
    <3>1. ~NeedsRow(pos[w])
      BY <2>1, <2>2, <2>3 DEF NeedsRow, RowEvents
    <3> QED
      BY <1>2, <2>1, <2>3, <3>1, DoneKeeps DEF HandleTransfer, tables
  <2>4. CASE ~(History[pos[w]].who \in Blacklisted \/ FindPayments(pos[w]) # {})
    <3>1. GoTo(w, "message", pos[w]) /\ UNCHANGED tables
      BY <1>2, <2>4 DEF HandleTransfer
    <3>2. pos[w] \in SenderLogs(pos[w]) /\ IsOwnMessage(pos[w])
      BY <2>1, <2>2, <2>4 DEF SenderLogs, LastOf, IsOwnMessage
    <3>3. \A v \in Workers : v # w => step'[v] = step[v] /\ held'[v] = held[v] /\ pos'[v] = pos[v]
      BY <3>1 DEF GoTo, TypeOK
    <3>4. step'[w] = "message" /\ held'[w] = pos[w] /\ pos'[w] = pos[w]
      BY <3>1 DEF GoTo, TypeOK
    <3> QED
      BY <2>1, <3>1, <3>2, <3>3, <3>4, MoveKeeps DEF GoTo, tables
  <2> QED
    BY <2>3, <2>4
<1>3. CASE HandlePayment(w)
  <2>1. pos[w] \in Indices /\ History[pos[w]].event = "payment"
        /\ History[pos[w]].block <= savedTo
    BY <1>3, AtALog DEF HandlePayment, Handles
  <2>2. FindTransfers(pos[w]) = InTransaction(pos[w], "transfer")
    BY <2>1, FindIsComplete DEF FindTransfers
  <2>3. PICK k \in LastOf(pos[w], FindTransfers(pos[w])) : GoTo(w, "message", k)
    BY <1>3 DEF HandlePayment
  <2>4. k \in SenderLogs(pos[w]) /\ IsOwnMessage(pos[w])
    BY <2>1, <2>2, <2>3 DEF SenderLogs, IsOwnMessage
  <2>5. \A v \in Workers : v # w => step'[v] = step[v] /\ held'[v] = held[v] /\ pos'[v] = pos[v]
    BY <2>3 DEF GoTo, TypeOK
  <2>6. step'[w] = "message" /\ held'[w] = k /\ pos'[w] = pos[w]
    BY <2>3 DEF GoTo, TypeOK
  <2> QED
    BY <1>3, <2>1, <2>3, <2>4, <2>5, <2>6, MoveKeeps DEF HandlePayment, GoTo, tables
<1>4. CASE EnsureErcToNativeMessage(w)
  <2>1. pos[w] \in Indices /\ step[w] = "message"
        /\ History[pos[w]].event \in {"transfer", "payment"}
    BY <1>4, AtALog DEF EnsureErcToNativeMessage
  <2>2. held[w] \in SenderLogs(pos[w]) /\ IsOwnMessage(pos[w])
        /\ History[pos[w]].event \in SentEvents
    BY <2>1 DEF HandlersKnow, SentEvents
  <2> QED
    BY <1>4, <2>1, <2>2, EnsureMessageKeeps DEF EnsureErcToNativeMessage
<1>5. CASE EnsureSent(w)
  <2>1. pos[w] \in Indices /\ step[w] = "sent"
    BY <1>5, AtALog DEF EnsureSent
  <2>2. History[pos[w]].event \in SentEvents /\ IsOwnMessage(pos[w]) /\ HasMessage(pos[w])
    BY <2>1 DEF HandlersKnow
  <2> QED
    BY <1>5, <2>1, <2>2, DoneKeeps DEF EnsureSent
<1>6. CASE EnsureRow(w)
  <2>1. pos[w] \in Indices
    BY <1>6, AtALog DEF EnsureRow
  <2> QED
    BY <1>6, <2>1, DoneKeeps DEF EnsureRow
<1>7. CASE HandleValidatorAdded(w)
  <2>1. pos[w] \in Indices /\ History[pos[w]].event = "added"
    BY <1>7, AtALog DEF HandleValidatorAdded
  <2>2. ~NeedsRow(pos[w])
    BY <2>1 DEF NeedsRow, RowEvents
  <2> QED
    BY <1>7, <2>1, <2>2, DoneKeeps DEF HandleValidatorAdded
<1>8. CASE GetActiveValidator(w)
  <2>1. pos[w] \in Indices /\ History[pos[w]].event = "removed"
    BY <1>8, AtALog DEF GetActiveValidator
  <2>2. ~NeedsRow(pos[w])
    BY <2>1 DEF NeedsRow, RowEvents
  <2>3. CASE Done(w)
    BY <1>8, <2>1, <2>2, <2>3, DoneKeeps DEF GetActiveValidator, tables
  <2>4. ASSUME NEW v \in ActiveRows(History[pos[w]].who), GoTo(w, "remove", v.added)
        PROVE  HandlersKnow' /\ SentHaveMessage' /\ HandledHaveRow' /\ MessagesTellSender'
    <3>1. \A u \in Workers : \/ step'[u] = "remove"
                             \/ step'[u] = step[u] /\ held'[u] = held[u] /\ pos'[u] = pos[u]
      BY <2>4 DEF GoTo, TypeOK
    <3> QED
      BY <1>8, <2>4, <3>1, MoveKeeps DEF GetActiveValidator, GoTo, tables
  <2> QED
    BY <1>8, <2>3, <2>4 DEF GetActiveValidator
<1>9. CASE EnsureRemoved(w)
  <2>1. pos[w] \in Indices /\ History[pos[w]].event = "removed"
    BY <1>9, AtALog DEF EnsureRemoved
  <2>2. ~NeedsRow(pos[w])
    BY <2>1 DEF NeedsRow, RowEvents
  <2> QED
    BY <1>9, <2>1, <2>2, DoneKeeps DEF EnsureRemoved
<1> QED
  BY <1>1, <1>2, <1>3, <1>4, <1>5, <1>6, <1>7, <1>8, <1>9 DEF HandleLog

\* Every step keeps the invariant.
LEMMA NextInv == Inv /\ [Next]_vars => Inv'
<1> SUFFICES ASSUME Inv, [Next]_vars PROVE Inv'
  OBVIOUS
<1> DEFINE Kept == HandlersKnow' /\ SentHaveMessage' /\ HandledHaveRow' /\ MessagesTellSender'
<1>t. TypeOK'
  BY NextType DEF Inv
<1>1. ASSUME SaveLogs PROVE Kept
  BY <1>1, MoveKeeps DEF SaveLogs, tables
<1>2. ASSUME Restart PROVE Kept
  <2>1. \A w \in Workers : \/ step'[w] = "start"
                           \/ step'[w] = step[w] /\ held'[w] = held[w] /\ pos'[w] = pos[w]
    BY <1>2 DEF Restart, Inv, TypeOK
  <2> QED
    BY <1>2, <2>1, MoveKeeps DEF Restart, tables
<1>3. ASSUME Reprocess PROVE Kept
  <2>1. step["reprocess"] = "start"
    <3>1. "reprocess" \in Workers /\ pos["reprocess"] > until["reprocess"]
      BY <1>3 DEF Reprocess, Workers
    <3>2. pos["reprocess"] \in Nat /\ until["reprocess"] \in Nat
      BY <3>1, HistoryAssumption DEF Inv, TypeOK
    <3> QED
      BY <3>1, <3>2 DEF Inv, TypeOK
  <2>2. \A w \in Workers : \/ step'[w] = "start"
                           \/ step'[w] = step[w] /\ held'[w] = held[w] /\ pos'[w] = pos[w]
    BY <1>3, <2>1 DEF Reprocess, Inv, TypeOK
  <2> QED
    BY <1>3, <2>2, MoveKeeps DEF Reprocess, tables
<1>4. ASSUME NEW w \in Workers, HandleLog(w) PROVE Kept
  BY <1>4, HandleLogKeeps
<1>5. ASSUME NEW w \in Workers, Fails(w) PROVE Kept
  <2>1. \A v \in Workers : \/ step'[v] = "start"
                           \/ step'[v] = step[v] /\ held'[v] = held[v] /\ pos'[v] = pos[v]
    BY <1>5 DEF Fails, RetryBatch, Inv, TypeOK
  <2> QED
    BY <1>5, <2>1, MoveKeeps DEF Fails, RetryBatch, tables
<1>6. ASSUME UNCHANGED vars PROVE Kept
  BY <1>6, MoveKeeps DEF vars, tables
<1> QED
  BY <1>t, <1>1, <1>2, <1>3, <1>4, <1>5, <1>6 DEF Next, Inv

\* The tables start empty.
LEMMA InitInv == Init => Inv
<1>1. Init => HandlersKnow /\ SentHaveMessage /\ HandledHaveRow /\ MessagesTellSender
  BY DEF Init, HandlersKnow, SentHaveMessage, HandledHaveRow, MessagesTellSender
<1> QED
  BY <1>1, InitType DEF Inv

\* The invariant of the tables and of the handlers of both programs.
THEOREM Invariance == Spec => []Inv
BY InitInv, NextInv, PTL DEF Spec

\* A payment through the bridge contract is one message, whatever the history,
\* the errors and the runs of reprocess_block_range.
THEOREM PaymentsOnce == Spec => []OneMessagePerPayment
<1>1. Inv => OneMessagePerPayment
  BY DEF Inv, SentHaveMessage, IsOwnMessage, OneMessagePerPayment
<1> QED
  BY <1>1, Invariance, PTL

\* A stored message is one of the history, with the sender it tells.
THEOREM SendersTold == Spec => []MessagesTellSender
<1>1. Inv => MessagesTellSender
  BY DEF Inv
<1> QED
  BY <1>1, Invariance, PTL

\* A log whose handler has completed has its row, and a sent one its message.
THEOREM HandledStored == Spec => []HandledAreStored
<1>1. Inv => HandledAreStored
  BY DEF Inv, HandledHaveRow, SentHaveMessage, HasMessage, HandledAreStored
<1> QED
  BY <1>1, Invariance, PTL

-----------------------------------------------------------------------------
(* The validators *)

\* A handler of a removal holds an addition of the same validator.
HoldsAddition ==
    \A w \in Workers : step[w] = "remove" =>
        /\ History[pos[w]].event = "removed"
        /\ held[w] \in Additions(History[pos[w]].who)

\* bridge_validators has one row for an addition, and none for another log.
RowsOfAdditions ==
    \A v \in validators :
        /\ History[v.added].event = "added"
        /\ \A u \in validators : u.added = v.added => u = v

\* What is being reprocessed was recorded, in whole blocks.
RecordsReplay ==
    /\ \A i \in Indices :
         pos["reprocess"] <= i /\ i <= until["reprocess"] => i \in replayed
    /\ \A r \in replayed : \A k \in Indices :
         k <= r /\ History[k].block = History[r].block => k \in replayed

\* The active row of a validator is that of the latest event, up to the log p.
FollowsEvents(who, p) ==
    /\ \A v \in ActiveRows(who) : \A j \in EventsOf(who) : j < p => j <= v.added
    /\ \A i \in Additions(who) :
         (i < p /\ \A j \in EventsOf(who) : j < p => j <= i) => ActiveRows(who) # {}

\* As long as nothing was repeated only the monitor has handled logs.
FirstTime ==
    replays = 0 =>
      /\ until["reprocess"] = 0
      /\ \A v \in validators : v.added < pos["monitor"]
      /\ \A who \in Addresses : AddedApart(who) => FollowsEvents(who, pos["monitor"])
      /\ step["monitor"] = "remove" =>
           \E v \in ActiveRows(History[pos["monitor"]].who) : v.added = held["monitor"]

\* The only addition is active after it was handled, unless a removal follows that
\* the monitor has handled too.
OnlyAddition ==
    \A who \in Addresses : AddedOnce(who) => \A a \in Additions(who) :
        /\ (a < pos["monitor"] /\ \A j \in EventsOf(who) : j <= a) => ActiveRows(who) # {}
        /\ (\E j \in EventsOf(who) : a < j /\ j < pos["monitor"]) => ActiveRows(who) = {}

ValidatorsInv ==
    /\ TypeOK
    /\ HoldsAddition /\ RowsOfAdditions /\ RecordsReplay /\ FirstTime /\ OnlyAddition

\* A statement on bridge_validators: of an addition, or of a removal.
Adds(w) ==
    /\ Handles(w, "start", {"added"})
    /\ EnsureValidator(pos[w], NoLog)
    /\ Done(w)

Removes(w) ==
    /\ Handles(w, "remove", {"removed"})
    /\ EnsureValidator(held[w], pos[w])
    /\ Done(w)

\* No other statement changes bridge_validators.
LEMMA ValidatorWrites ==
    ASSUME [Next]_vars
    PROVE  validators' = validators \/ \E w \in Workers : Adds(w) \/ Removes(w)
<1>1. CASE SaveLogs \/ Restart \/ Reprocess \/ UNCHANGED vars
  BY <1>1 DEF SaveLogs, Restart, Reprocess, vars, tables
<1>2. ASSUME NEW w \in Workers, Fails(w) PROVE validators' = validators
  BY <1>2 DEF Fails, RetryBatch, tables
<1>3. ASSUME NEW w \in Workers, HandleLog(w)
      PROVE  validators' = validators \/ Adds(w) \/ Removes(w)
  <2>1. CASE HandleValidatorAdded(w)
    BY <2>1 DEF HandleValidatorAdded, Adds
  <2>2. CASE EnsureRemoved(w)
    BY <2>2 DEF EnsureRemoved, Removes
  <2>3. CASE EnsureRequest(w) \/ HandleTransfer(w) \/ HandlePayment(w)
               \/ EnsureErcToNativeMessage(w) \/ EnsureSent(w) \/ EnsureRow(w)
               \/ GetActiveValidator(w)
    BY <2>3 DEF EnsureRequest, HandleTransfer, HandlePayment, EnsureErcToNativeMessage,
          EnsureSent, EnsureRow, GetActiveValidator, tables
  <2> QED
    BY <1>3, <2>1, <2>2, <2>3 DEF HandleLog
<1> QED
  BY <1>1, <1>2, <1>3 DEF Next

\* What an upsert leaves active.
LEMMA ActiveAfter ==
    ASSUME NEW i \in Indices, NEW j \in Indices \cup {NoLog}, EnsureValidator(i, j), NEW who
    PROVE  /\ j = NoLog /\ History[i].who = who => ActiveRows(who)' # {}
           /\ \A v \in ActiveRows(who) : v.added # i => v \in ActiveRows(who)'
           /\ \A v \in ActiveRows(who)' :
                \/ v \in ActiveRows(who) /\ v.added # i
                \/ v.added = i /\ j = NoLog /\ History[i].who = who
<1> DEFINE new == [added |-> i, removed |-> j]
<1>1. new.added = i /\ new.removed = j
  OBVIOUS
<1>2. validators' = {v \in validators : v.added # i} \cup {new}
  BY DEF EnsureValidator
<1> HIDE DEF new
<1>3. ASSUME NEW v \in ActiveRows(who)'
      PROVE  \/ v \in ActiveRows(who) /\ v.added # i
             \/ v.added = i /\ j = NoLog /\ History[i].who = who
  BY <1>1, <1>2 DEF ActiveRows
<1>4. \A v \in ActiveRows(who) : v.added # i => v \in ActiveRows(who)'
  BY <1>2 DEF ActiveRows
<1>5. j = NoLog /\ History[i].who = who => ActiveRows(who)' # {}
  BY <1>1, <1>2 DEF ActiveRows
<1> QED
  BY <1>3, <1>4, <1>5

\* A statement on bridge_validators is of an addition and writes its row.
LEMMA WritesAt ==
    ASSUME TypeOK, HoldsAddition, NEW w \in Workers, Adds(w) \/ Removes(w)
    PROVE  /\ pos[w] \in Indices /\ pos[w] \in Nat /\ pos[w] # NoLog /\ pos[w] <= until[w]
           /\ pos' = [pos EXCEPT ![w] = @ + 1] /\ UNCHANGED <<until, replayed>>
           /\ Adds(w) => /\ pos[w] \in Additions(History[pos[w]].who)
                         /\ EnsureValidator(pos[w], NoLog)
           /\ Removes(w) => /\ pos[w] \in EventsOf(History[pos[w]].who)
                            /\ History[pos[w]].event = "removed"
                            /\ held[w] \in Additions(History[pos[w]].who)
                            /\ EnsureValidator(held[w], pos[w])
<1>1. /\ Done(w) /\ pos[w] <= until[w]
      /\ \/ Handles(w, "start", {"added"})
         \/ Handles(w, "remove", {"removed"})
  BY DEF Adds, Removes, Handles
<1>2. pos[w] \in Indices /\ pos[w] # NoLog
  BY <1>1, AtALog, LogTypes DEF NoLog
<1>3. pos[w] \in Nat
  BY <1>2, LogTypes
<1>4. Adds(w) => pos[w] \in Additions(History[pos[w]].who)
  BY <1>2, AtALog DEF Adds, Additions, EventsOf
<1>5. Removes(w) => /\ History[pos[w]].event = "removed" /\ step[w] = "remove"
                    /\ pos[w] \in EventsOf(History[pos[w]].who)
  BY <1>2, AtALog DEF Removes, EventsOf
<1> QED
  BY <1>1, <1>2, <1>3, <1>4, <1>5 DEF Adds, Removes, HoldsAddition, Done

\* Both upserts keep one row for an addition.
LEMMA RowsOfAdditionsStep ==
    ASSUME TypeOK, HoldsAddition, RowsOfAdditions, [Next]_vars
    PROVE  RowsOfAdditions'
<1>1. CASE validators' = validators
  BY <1>1 DEF RowsOfAdditions
<1>2. ASSUME NEW w \in Workers, Adds(w) \/ Removes(w) PROVE RowsOfAdditions'
  <2>1. PICK i \in Indices, j \in Indices \cup {NoLog} :
          EnsureValidator(i, j) /\ History[i].event = "added"
    <3>1. CASE Adds(w)
      BY <3>1, WritesAt DEF Additions
    <3>2. CASE Removes(w)
      BY <3>2, WritesAt DEF Additions, EventsOf
    <3> QED
      BY <1>2, <3>1, <3>2
  <2> DEFINE new == [added |-> i, removed |-> j]
  <2>2. new.added = i
    OBVIOUS
  <2>3. validators' = {v \in validators : v.added # i} \cup {new}
    BY <2>1 DEF EnsureValidator
  <2> HIDE DEF new
  <2> QED
    BY <2>1, <2>2, <2>3 DEF RowsOfAdditions
<1> QED
  BY <1>1, <1>2, ValidatorWrites

\* A program that is in the handler of a removal was there before, or has just
\* found an active row.
LEMMA HoldsAdditionStep ==
    ASSUME TypeOK, HoldsAddition, RowsOfAdditions, [Next]_vars
    PROVE  HoldsAddition'
<1>1. ASSUME NEW w \in Workers
      PROVE  \/ step'[w] # "remove"
             \/ step'[w] = step[w] /\ held'[w] = held[w] /\ pos'[w] = pos[w]
             \/ GetActiveValidator(w)
  <2>1. CASE SaveLogs \/ UNCHANGED vars
    BY <2>1 DEF SaveLogs, vars
  <2>2. CASE Restart
    BY <2>2 DEF Restart, TypeOK
  <2>3. CASE Reprocess
    <3>1. CASE w = "reprocess"
      <4>1. pos["reprocess"] > until["reprocess"] /\ step' = step
        BY <2>3 DEF Reprocess
      <4>2. pos["reprocess"] \in Nat /\ until["reprocess"] \in Nat
        BY <3>1, HistoryAssumption DEF TypeOK
      <4> QED
        BY <3>1, <4>1, <4>2 DEF TypeOK
    <3> QED
      BY <2>3, <3>1 DEF Reprocess, TypeOK
  <2>4. ASSUME NEW v \in Workers, Fails(v)
        PROVE  \/ step'[w] # "remove"
               \/ step'[w] = step[w] /\ held'[w] = held[w] /\ pos'[w] = pos[w]
    BY <2>4 DEF Fails, RetryBatch, TypeOK
  <2>5. ASSUME NEW v \in Workers, HandleLog(v)
        PROVE  \/ step'[w] # "remove"
               \/ step'[w] = step[w] /\ held'[w] = held[w] /\ pos'[w] = pos[w]
               \/ GetActiveValidator(w)
    <3>1. \/ Done(v) \/ GetActiveValidator(v)
          \/ \E s \in {"message", "sent"} : \E i : GoTo(v, s, i)
      BY <2>5 DEF HandleLog, EnsureRequest, HandleTransfer, HandlePayment,
            EnsureErcToNativeMessage, EnsureSent, EnsureRow, HandleValidatorAdded,
            EnsureRemoved
    <3>2. GetActiveValidator(v) => Done(v) \/ \E i : GoTo(v, "remove", i)
      BY DEF GetActiveValidator
    <3>3. CASE v = w
      BY <3>1, <3>3 DEF Done, GoTo, TypeOK
    <3>4. CASE v # w
      BY <3>1, <3>2, <3>4 DEF Done, GoTo, TypeOK
    <3> QED
      BY <3>3, <3>4
  <2> QED
    BY <2>1, <2>2, <2>3, <2>4, <2>5 DEF Next
<1> SUFFICES ASSUME NEW w \in Workers, step'[w] = "remove"
             PROVE  /\ History[pos'[w]].event = "removed"
                    /\ held'[w] \in Additions(History[pos'[w]].who)
  BY DEF HoldsAddition, Additions, EventsOf
<1>2. CASE step'[w] = step[w] /\ held'[w] = held[w] /\ pos'[w] = pos[w]
  BY <1>2 DEF HoldsAddition
<1>3. CASE GetActiveValidator(w)
  <2>1. pos[w] \in Indices /\ History[pos[w]].event = "removed"
    BY <1>3, AtALog DEF GetActiveValidator
  <2>2. PICK v \in ActiveRows(History[pos[w]].who) : GoTo(w, "remove", v.added)
    BY <1>3 DEF GetActiveValidator, Done, TypeOK
  <2>3. v.added \in Additions(History[pos[w]].who)
    BY <2>2 DEF ActiveRows, RowsOfAdditions, Additions, EventsOf, TypeOK
  <2> QED
    BY <2>1, <2>2, <2>3 DEF GoTo, TypeOK
<1> QED
  BY <1>1, <1>2, <1>3

\* A batch that is handled again, and a range that is reprocessed, are of whole
\* blocks.
LEMMA RecordsReplayStep ==
    ASSUME TypeOK, RecordsReplay, [Next]_vars
    PROVE  RecordsReplay'
<1>0. "reprocess" \in Workers /\ Len(History) \in Nat
      /\ pos["reprocess"] \in Nat /\ until["reprocess"] \in 0..Len(History)
  BY HistoryAssumption DEF TypeOK, Workers
<1>b. \A i \in Indices : i \in Nat /\ History[i].block \in Nat
  BY LogTypes
<1>1. CASE Reprocess
  <2>1. PICK i \in Indices, j \in Indices :
          /\ i <= j /\ i \in BlockStart(i)
          /\ pos' = [pos EXCEPT !["reprocess"] = i]
          /\ until' = [until EXCEPT !["reprocess"] = j]
          /\ replayed' = replayed \cup i..j
    BY <1>1 DEF Reprocess
  <2>2. pos'["reprocess"] = i /\ until'["reprocess"] = j /\ i \in Nat /\ j \in Nat
    BY <1>0, <1>b, <2>1 DEF TypeOK
  <2>3. ASSUME NEW r \in i..j, NEW k \in Indices, k <= r, History[k].block = History[r].block
        PROVE  k \in i..j
    <3>1. r \in Indices /\ k \in Nat
      BY <1>0, <1>b, <2>1, <2>2 DEF Indices
    <3>2. CASE k < i
      <4>1. History[k].block < History[i].block
        BY <2>1, <2>2, <3>1, <3>2 DEF BlockStart, Indices
      <4>2. History[i].block <= History[r].block
        BY <2>1, <2>2, <3>1, HistoryAssumption
      <4>3. History[i].block \in Nat /\ History[r].block \in Nat
        BY <1>b, <3>1
      <4> QED
        BY <2>3, <4>1, <4>2, <4>3
    <3>3. CASE i <= k
      BY <2>2, <2>3, <3>1, <3>3
    <3> QED
      BY <2>2, <3>1, <3>2, <3>3
  <2>4. \A r \in replayed' : \A k \in Indices :
           k <= r /\ History[k].block = History[r].block => k \in replayed'
    BY <2>1, <2>3 DEF RecordsReplay
  <2>5. \A k \in Indices : i <= k /\ k <= j => k \in replayed'
    BY <1>b, <2>1, <2>2
  <2> QED
    BY <2>2, <2>4, <2>5 DEF RecordsReplay
<1>2. CASE Fails("reprocess")
  <2>1. pos["reprocess"] \in Indices /\ pos["reprocess"] <= until["reprocess"]
    BY <1>0, <1>2, AtALog DEF Fails, Handles
  <2>2. PICK k \in BlockStart(pos["reprocess"]) : pos' = [pos EXCEPT !["reprocess"] = k]
    BY <1>2 DEF Fails, RetryBatch
  <2>3. /\ pos'["reprocess"] = k /\ UNCHANGED <<until, replayed>>
        /\ k \in Indices /\ k <= pos["reprocess"]
        /\ History[k].block = History[pos["reprocess"]].block
    <3>1. k \in Indices /\ k <= pos["reprocess"]
      BY <2>1, <2>2, BatchBegins
    <3>2. History[k].block = History[pos["reprocess"]].block
      BY <2>2 DEF BlockStart
    <3>3. pos'["reprocess"] = k /\ UNCHANGED <<until, replayed>>
      BY <1>0, <1>2, <2>2 DEF Fails, RetryBatch, TypeOK
    <3> QED
      BY <3>1, <3>2, <3>3
  <2>4. pos["reprocess"] \in replayed
    BY <1>0, <2>1 DEF RecordsReplay
  <2>5. ASSUME NEW i \in Indices, k <= i, i <= until["reprocess"]
        PROVE  i \in replayed
    <3>1. CASE pos["reprocess"] <= i
      BY <2>5, <3>1 DEF RecordsReplay
    <3>2. CASE i < pos["reprocess"]
      <4>1. History[k].block <= History[i].block
            /\ History[i].block <= History[pos["reprocess"]].block
        BY <1>b, <2>1, <2>3, <2>5, <3>2, HistoryAssumption
      <4>2. History[i].block = History[pos["reprocess"]].block
        BY <1>b, <2>1, <2>3, <4>1
      <4> QED
        BY <1>0, <1>b, <2>4, <3>2, <4>2 DEF RecordsReplay
    <3> QED
      BY <1>0, <1>b, <3>1, <3>2
  <2> QED
    BY <2>3, <2>5 DEF RecordsReplay
<1>3. CASE UNCHANGED <<until, replayed>> /\ pos'["reprocess"] \in {pos["reprocess"], pos["reprocess"] + 1}
  <2>1. \A i \in Indices : pos'["reprocess"] <= i => pos["reprocess"] <= i
    BY <1>0, <1>3, <1>b
  <2> QED
    BY <1>3, <2>1 DEF RecordsReplay
<1>4. ASSUME NEW w \in Workers, HandleLog(w)
      PROVE  <<until, replayed>>' = <<until, replayed>>
             /\ pos'["reprocess"] \in {pos["reprocess"], pos["reprocess"] + 1}
  <2>1. Done(w) \/ \E s, i : GoTo(w, s, i)
    BY <1>4 DEF HandleLog, EnsureRequest, HandleTransfer, HandlePayment,
          EnsureErcToNativeMessage, EnsureSent, EnsureRow, HandleValidatorAdded,
          GetActiveValidator, EnsureRemoved
  <2> QED
    BY <1>0, <2>1 DEF Done, GoTo, TypeOK
<1>5. CASE SaveLogs \/ Restart \/ Fails("monitor") \/ UNCHANGED vars
  BY <1>0, <1>3, <1>5 DEF SaveLogs, Restart, Fails, RetryBatch, TypeOK, vars
<1> QED
  BY <1>1, <1>2, <1>3, <1>4, <1>5 DEF Next, Workers

\* What handling a log does to bridge_validators: a removal finds no active row, or
\* an upsert is made, or the log is no event of a validator.
LEMMA EventStep ==
    ASSUME TypeOK, NEW w \in Workers, HandleLog(w)
    PROVE  /\ pos[w] \in Indices /\ pos[w] <= until[w] /\ UNCHANGED <<until, replayed>>
           /\ \/ Adds(w) \/ Removes(w)
              \/ validators' = validators /\ pos' = pos
              \/ /\ validators' = validators /\ pos' = [pos EXCEPT ![w] = @ + 1]
                 /\ History[pos[w]].event # "added"
                 /\ History[pos[w]].event = "removed" =>
                      ActiveRows(History[pos[w]].who) = {}
<1>1. PICK s, events : Handles(w, s, events)
  BY DEF HandleLog, EnsureRequest, HandleTransfer, HandlePayment,
        EnsureErcToNativeMessage, EnsureSent, EnsureRow, HandleValidatorAdded,
        GetActiveValidator, EnsureRemoved
<1>2. pos[w] \in Indices /\ pos[w] <= until[w]
  BY <1>1, AtALog DEF Handles
<1>3. CASE HandleValidatorAdded(w) \/ EnsureRemoved(w)
  BY <1>2, <1>3 DEF HandleValidatorAdded, EnsureRemoved, Adds, Removes, Done
<1>4. CASE EnsureRequest(w) \/ HandlePayment(w) \/ EnsureErcToNativeMessage(w)
  BY <1>2, <1>4 DEF EnsureRequest, HandlePayment, EnsureErcToNativeMessage, GoTo, tables
<1>5. CASE HandleTransfer(w)
  BY <1>2, <1>5 DEF HandleTransfer, Handles, Done, GoTo, tables
<1>6. CASE EnsureSent(w) \/ EnsureRow(w)
  <2>1. History[pos[w]].event \in Events \ {"added", "removed"}
    BY <1>6 DEF EnsureSent, EnsureRow, Handles, Events, SentEvents, RowEvents
  <2> QED
    BY <1>2, <1>6, <2>1 DEF EnsureSent, EnsureRow, Done
<1>7. CASE GetActiveValidator(w)
  <2>1. History[pos[w]].event = "removed" /\ validators' = validators
    BY <1>7 DEF GetActiveValidator, Handles, tables
  <2>2. \/ ActiveRows(History[pos[w]].who) = {} /\ Done(w)
        \/ \E i : GoTo(w, "remove", i)
    BY <1>7 DEF GetActiveValidator
  <2> QED
    BY <1>2, <2>1, <2>2 DEF Done, GoTo
<1> QED
  BY <1>3, <1>4, <1>5, <1>6, <1>7 DEF HandleLog

\* The monitor gets past one log at most, and only by handling it.
LEMMA MonitorMoves ==
    ASSUME TypeOK, [Next]_vars
    PROVE  /\ pos["monitor"] \in Nat /\ pos'["monitor"] \in Nat
           /\ replayed \subseteq replayed'
           /\ \/ pos'["monitor"] <= pos["monitor"]
              \/ /\ HandleLog("monitor") /\ pos["monitor"] \in Indices
                 /\ pos'["monitor"] = pos["monitor"] + 1
<1>1. /\ "monitor" \in Workers /\ "reprocess" \in Workers
      /\ pos["monitor"] \in Nat /\ pos'["monitor"] \in Nat
  BY NextType, HistoryAssumption DEF TypeOK, Workers
<1>2. CASE SaveLogs \/ UNCHANGED vars
  BY <1>1, <1>2 DEF SaveLogs, vars
<1>3. CASE Reprocess
  BY <1>1, <1>3 DEF Reprocess, TypeOK
<1>4. CASE Restart
  <2>1. PICK i \in 1..pos["monitor"] :
          i \in Indices /\ \E k \in BlockStart(i) : pos' = [pos EXCEPT !["monitor"] = k]
    BY <1>4 DEF Restart
  <2>2. PICK k \in BlockStart(i) : pos' = [pos EXCEPT !["monitor"] = k]
    BY <2>1
  <2>3. k \in Nat /\ i \in Nat /\ k <= i
    BY <2>1, <2>2, BatchBegins, LogTypes
  <2> QED
    BY <1>1, <1>4, <2>1, <2>2, <2>3 DEF Restart, TypeOK
<1>5. ASSUME NEW w \in Workers, Fails(w)
      PROVE  pos'["monitor"] <= pos["monitor"] /\ replayed' = replayed
  <2>1. pos[w] \in Indices
    BY <1>5, AtALog DEF Fails
  <2>2. PICK k \in BlockStart(pos[w]) : pos' = [pos EXCEPT ![w] = k]
    BY <1>5 DEF Fails, RetryBatch
  <2>3. k \in Nat /\ k <= pos[w]
    BY <2>1, <2>2, BatchBegins, LogTypes
  <2>4. pos'["monitor"] = IF w = "monitor" THEN k ELSE pos["monitor"]
    BY <1>1, <2>2 DEF TypeOK
  <2> QED
    BY <1>1, <1>5, <2>3, <2>4 DEF Fails, RetryBatch
<1>6. ASSUME NEW w \in Workers, HandleLog(w)
      PROVE  /\ replayed' = replayed
             /\ \/ pos'["monitor"] <= pos["monitor"]
                \/ /\ w = "monitor" /\ pos["monitor"] \in Indices
                   /\ pos'["monitor"] = pos["monitor"] + 1
  <2>1. /\ replayed' = replayed /\ pos[w] \in Indices
        /\ pos' = pos \/ pos' = [pos EXCEPT ![w] = @ + 1]
    BY <1>6, EventStep DEF Adds, Removes, Done
  <2> QED
    BY <1>1, <2>1 DEF TypeOK
<1> QED
  BY <1>1, <1>2, <1>3, <1>4, <1>5, <1>6 DEF Next

\* Without a further addition a validator is active as long as no removal of the
\* addition is handled, and a removal leaves no row active.
LEMMA OnlyAdditionStep ==
    ASSUME TypeOK, HoldsAddition, RowsOfAdditions, RecordsReplay, OnlyAddition, [Next]_vars
    PROVE  OnlyAddition'
<1> DEFINE p == pos["monitor"]
           q == pos'["monitor"]
<1>1. p \in Nat /\ q \in Nat /\ replayed \subseteq replayed' /\ "monitor" \in Workers
  BY MonitorMoves DEF Workers
<1>2. q <= p \/ (HandleLog("monitor") /\ p \in Indices /\ q = p + 1)
  BY MonitorMoves
<1> SUFFICES ASSUME NEW who \in Addresses, AddedOnce(who)', NEW a \in Additions(who)
             PROVE  /\ (a < q /\ \A j \in EventsOf(who) : j <= a) => ActiveRows(who)' # {}
                    /\ (\E j \in EventsOf(who) : a < j /\ j < q) => ActiveRows(who)' = {}
  BY DEF OnlyAddition, Additions, EventsOf
<1>3. AddedOnce(who)
  BY <1>1 DEF AddedOnce, Additions, EventsOf
<1>4. /\ \A b \in Additions(who) : b = a
      /\ \A r \in EventsOf(who) \cap replayed : a < r
  BY <1>3 DEF AddedOnce
<1>5. /\ (a < p /\ \A j \in EventsOf(who) : j <= a) => ActiveRows(who) # {}
      /\ (\E j \in EventsOf(who) : a < j /\ j < p) => ActiveRows(who) = {}
  BY <1>3 DEF OnlyAddition
<1>6. a \in EventsOf(who) /\ History[a].event = "added" /\ a \in Nat
  BY LogTypes DEF Additions, EventsOf
<1>7. \A j \in EventsOf(who) : j \in Nat /\ j \in Indices /\ History[j].who = who
  BY LogTypes DEF EventsOf
<1>8. \A w \in Workers : w # "monitor" => w = "reprocess"
  BY DEF Workers
<1>9. ASSUME NEW w \in Workers, Adds(w) \/ Removes(w), pos[w] \in EventsOf(who)
      PROVE  w = "monitor" \/ a < pos[w]
  <2>1. pos[w] \in Indices /\ pos[w] <= until[w] /\ pos[w] \in Nat
    BY <1>9, WritesAt
  <2>2. CASE w = "reprocess"
    <3>1. pos[w] \in replayed
      BY <2>1, <2>2 DEF RecordsReplay
    <3> QED
      BY <1>4, <1>9, <3>1
  <2> QED
    BY <1>8, <2>2
<1>10. ASSUME a < q, \A j \in EventsOf(who) : j <= a PROVE ActiveRows(who)' # {}
  <2>1. CASE a < p
    <3>1. PICK v : v \in ActiveRows(who)
      BY <1>5, <1>10, <2>1
    <3>2. CASE validators' = validators
      BY <3>1, <3>2 DEF ActiveRows
    <3>3. ASSUME NEW w \in Workers, Adds(w) PROVE ActiveRows(who)' # {}
      <4>1. EnsureValidator(pos[w], NoLog) /\ pos[w] \in Indices
        BY <3>3, WritesAt
      <4>2. CASE History[pos[w]].who = who
        BY <4>1, <4>2, ActiveAfter
      <4>3. CASE History[pos[w]].who # who
        <5>1. v.added # pos[w]
          BY <3>1, <4>3 DEF ActiveRows
        <5> QED
          BY <3>1, <4>1, <5>1, ActiveAfter
      <4> QED
        BY <4>2, <4>3
    <3>4. ASSUME NEW w \in Workers, Removes(w) PROVE ActiveRows(who)' # {}
      <4>1. /\ EnsureValidator(held[w], pos[w]) /\ pos[w] \in Indices
            /\ held[w] \in Additions(History[pos[w]].who)
            /\ History[pos[w]].event = "removed"
            /\ pos[w] \in EventsOf(History[pos[w]].who)
        BY <3>4, WritesAt
      <4>2. held[w] \in Indices /\ History[held[w]].who = History[pos[w]].who
        BY <4>1 DEF Additions, EventsOf
      <4>3. CASE v.added # held[w]
        BY <3>1, <4>1, <4>2, <4>3, ActiveAfter
      <4>4. CASE v.added = held[w]
        <5>1. pos[w] \in EventsOf(who)
          BY <3>1, <4>1, <4>2, <4>4 DEF ActiveRows
        <5>2. pos[w] <= a /\ pos[w] # a /\ pos[w] \in Nat
          BY <1>6, <1>7, <1>10, <4>1, <5>1
        <5>3. w = "monitor"
          BY <1>6, <1>9, <3>4, <5>1, <5>2
        <5> QED
          BY <1>1, <1>6, <2>1, <5>2, <5>3
      <4> QED
        BY <4>3, <4>4
    <3> QED
      BY <3>2, <3>3, <3>4, ValidatorWrites
  <2>2. CASE ~(a < p)
    <3>1. HandleLog("monitor") /\ p \in Indices /\ p = a /\ q = p + 1
      BY <1>1, <1>2, <1>6, <1>10, <2>2
    <3>2. Adds("monitor")
      BY <1>1, <1>6, <3>1, EventStep, WritesAt
    <3>3. EnsureValidator(a, NoLog) /\ a \in Indices /\ History[a].who = who
      BY <1>1, <1>6, <1>7, <3>1, <3>2, WritesAt
    <3> QED
      BY <3>3, ActiveAfter
  <2> QED
    BY <2>1, <2>2
<1>11. ASSUME NEW j \in EventsOf(who), a < j, j < q PROVE ActiveRows(who)' = {}
  <2>1. CASE j < p
    <3>1. ActiveRows(who) = {}
      BY <1>5, <1>11, <2>1
    <3>2. CASE validators' = validators
      BY <3>1, <3>2 DEF ActiveRows
    <3>3. ASSUME NEW w \in Workers, Adds(w) PROVE ActiveRows(who)' = {}
      <4>1. /\ EnsureValidator(pos[w], NoLog) /\ pos[w] \in Indices
            /\ pos[w] \in Additions(History[pos[w]].who)
        BY <3>3, WritesAt
      <4>2. History[pos[w]].who # who
        <5>1. SUFFICES ASSUME History[pos[w]].who = who PROVE FALSE
          OBVIOUS
        <5>2. pos[w] = a
          BY <1>4, <4>1, <5>1
        <5>3. w = "monitor"
          BY <1>6, <1>9, <3>3, <5>2
        <5>4. p = a /\ j \in Nat
          BY <1>7, <1>11, <5>2, <5>3
        <5> QED
          BY <1>6, <1>11, <2>1, <5>4
      <4> QED
        BY <3>1, <4>1, <4>2, ActiveAfter
    <3>4. ASSUME NEW w \in Workers, Removes(w) PROVE ActiveRows(who)' = {}
      <4>1. /\ EnsureValidator(held[w], pos[w]) /\ pos[w] \in Indices /\ pos[w] # NoLog
            /\ held[w] \in Indices
        BY <3>4, WritesAt DEF Additions, EventsOf
      <4> QED
        BY <3>1, <4>1, ActiveAfter
    <3> QED
      BY <3>2, <3>3, <3>4, ValidatorWrites
  <2>2. CASE ~(j < p)
    <3>1. HandleLog("monitor") /\ p \in Indices /\ p = j /\ q = p + 1
      BY <1>1, <1>2, <1>7, <1>11, <2>2
    <3>2. ~Adds("monitor")
      <4>1. SUFFICES ASSUME Adds("monitor") PROVE FALSE
        OBVIOUS
      <4>2. j \in Additions(who)
        BY <1>1, <1>7, <3>1, <4>1, WritesAt
      <4> QED
        BY <1>4, <1>6, <1>11, <4>2
    <3>3. \A v \in ActiveRows(who) : v.added = a
      BY <1>4 DEF RowsOfAdditions, ActiveRows, Additions, EventsOf, TypeOK
    <3>4. CASE Removes("monitor")
      <4>1. EnsureValidator(held["monitor"], j) /\ j # NoLog /\ held["monitor"] = a
        BY <1>1, <1>4, <1>7, <3>1, <3>4, WritesAt
      <4>2. a \in Indices /\ j \in Indices
        BY <1>6, <1>7
      <4> QED
        BY <3>3, <4>1, <4>2, ActiveAfter
    <3>5. CASE validators' = validators /\ History[p].event # "added"
               /\ (History[p].event = "removed" => ActiveRows(History[p].who) = {})
      <4>1. History[j].event = "removed" /\ History[j].who = who
        BY <3>1, <3>5 DEF EventsOf
      <4> QED
        BY <3>1, <3>5, <4>1 DEF ActiveRows
    <3> QED
      BY <1>1, <3>1, <3>2, <3>4, <3>5, EventStep
  <2> QED
    BY <2>1, <2>2
<1> QED
  BY <1>10, <1>11

\* Handled in order and once, the logs leave active what the latest event tells.
LEMMA FollowsEventsStep ==
    ASSUME TypeOK, HoldsAddition, RowsOfAdditions, FirstTime, replays = 0,
           HandleLog("monitor"), NEW who \in Addresses, AddedApart(who)
    PROVE  FollowsEvents(who, pos["monitor"])'
<1> DEFINE p == pos["monitor"]
<1>1. /\ "monitor" \in Workers /\ p \in Nat /\ p \in Indices
      /\ \/ Adds("monitor") \/ Removes("monitor")
         \/ validators' = validators /\ pos' = pos
         \/ /\ validators' = validators /\ pos' = [pos EXCEPT !["monitor"] = @ + 1]
            /\ History[p].event # "added"
            /\ History[p].event = "removed" => ActiveRows(History[p].who) = {}
  BY EventStep, LogTypes DEF Workers
<1>2. /\ \A v \in ActiveRows(who) : \A j \in EventsOf(who) : j < p => j <= v.added
      /\ \A i \in Additions(who) :
           (i < p /\ \A j \in EventsOf(who) : j < p => j <= i) => ActiveRows(who) # {}
  BY DEF FirstTime, FollowsEvents
<1>3. \A v \in validators : v.added < p /\ v.added \in Nat
  BY LogTypes DEF FirstTime, TypeOK
<1>4. \A v \in ActiveRows(who) : v \in validators /\ v.added \in Additions(who)
  BY DEF ActiveRows, RowsOfAdditions, Additions, EventsOf, TypeOK
<1>5. \A j \in EventsOf(who) : j \in Nat /\ j \in Indices /\ History[j].who = who
  BY LogTypes DEF EventsOf
<1>6. Additions(who) \subseteq EventsOf(who)
  BY DEF Additions
<1>7. CASE validators' = validators /\ pos' = pos
  BY <1>2, <1>7 DEF FollowsEvents, ActiveRows, Additions, EventsOf
<1> DEFINE Later ==
      /\ \A v \in ActiveRows(who)' : \A j \in EventsOf(who) : j < p + 1 => j <= v.added
      /\ \A i \in Additions(who) :
           (i < p + 1 /\ \A j \in EventsOf(who) : j < p + 1 => j <= i) => ActiveRows(who)' # {}
<1>8. ASSUME pos' = [pos EXCEPT !["monitor"] = @ + 1], Later
      PROVE  FollowsEvents(who, pos["monitor"])'
  <2>1. pos'["monitor"] = p + 1
    BY <1>1, <1>8 DEF TypeOK
  <2> QED
    BY <1>8, <2>1 DEF FollowsEvents, Additions, EventsOf
<1>9. CASE p \notin EventsOf(who) /\ pos' = [pos EXCEPT !["monitor"] = @ + 1]
  <2>1. \A j \in EventsOf(who) : j < p + 1 <=> j < p
    BY <1>1, <1>5, <1>9
  <2>2. History[p].event \in {"added", "removed"} => History[p].who # who
    BY <1>1, <1>9 DEF EventsOf
  <2>3. ActiveRows(who)' \subseteq ActiveRows(who) /\ ActiveRows(who) \subseteq ActiveRows(who)'
    <3>1. CASE validators' = validators
      BY <3>1 DEF ActiveRows
    <3>2. CASE Adds("monitor")
      <4>1. EnsureValidator(p, NoLog) /\ History[p].who # who
        BY <1>1, <2>2, <3>2, WritesAt DEF Additions, EventsOf
      <4>2. \A v \in ActiveRows(who) : v.added # p
        BY <4>1 DEF ActiveRows
      <4> QED
        BY <1>1, <4>1, <4>2, ActiveAfter
    <3>3. CASE Removes("monitor")
      <4>1. /\ EnsureValidator(held["monitor"], p) /\ History[p].who # who
            /\ held["monitor"] \in Indices /\ History[held["monitor"]].who # who
        BY <1>1, <2>2, <3>3, WritesAt DEF Additions, EventsOf
      <4>2. \A v \in ActiveRows(who) : v.added # held["monitor"]
        BY <4>1 DEF ActiveRows
      <4> QED
        BY <1>1, <4>1, <4>2, ActiveAfter
    <3> QED
      BY <1>1, <1>7, <3>1, <3>2, <3>3
  <2>4. Later
    BY <1>2, <1>6, <2>1, <2>3
  <2> QED
    BY <1>8, <1>9, <2>4
<1>10. CASE p \in EventsOf(who) /\ Adds("monitor")
  <2>1. /\ EnsureValidator(p, NoLog) /\ pos' = [pos EXCEPT !["monitor"] = @ + 1]
        /\ p \in Additions(who)
    BY <1>1, <1>5, <1>10, WritesAt
  <2>2. ActiveRows(who)' # {}
    BY <1>1, <1>5, <1>10, <2>1, ActiveAfter
  <2>3. ASSUME NEW v \in ActiveRows(who)' PROVE v.added = p
    <3>1. SUFFICES ASSUME v \in ActiveRows(who) PROVE FALSE
      BY <1>1, <2>1, <2>3, ActiveAfter
    <3>2. v.added \in Additions(who) /\ v.added < p
      BY <1>3, <1>4, <3>1
    <3>3. PICK k \in EventsOf(who) \ Additions(who) : v.added < k /\ k < p
      BY <2>1, <3>2 DEF AddedApart
    <3>4. k <= v.added
      BY <1>2, <3>1, <3>3
    <3> QED
      BY <1>3, <1>4, <1>5, <3>1, <3>3, <3>4
  <2>4. \A j \in EventsOf(who) : j < p + 1 => j <= p
    BY <1>1, <1>5
  <2>5. Later
    BY <2>2, <2>3, <2>4
  <2> QED
    BY <1>8, <2>1, <2>5
<1>11. CASE p \in EventsOf(who) /\ ~Adds("monitor")
            /\ pos' = [pos EXCEPT !["monitor"] = @ + 1]
  <2>1. ActiveRows(who)' = {} /\ p \notin Additions(who)
    <3>1. CASE Removes("monitor")
      <4>1. /\ EnsureValidator(held["monitor"], p) /\ p # NoLog
            /\ held["monitor"] \in Indices /\ History[p].event = "removed"
        BY <1>1, <3>1, WritesAt DEF Additions, EventsOf
      <4>2. PICK u \in ActiveRows(who) : u.added = held["monitor"]
        BY <1>5, <1>11, <3>1 DEF FirstTime, Removes, Handles
      <4>3. ASSUME NEW v \in ActiveRows(who) PROVE v.added = held["monitor"]
        <5>1. /\ v.added \in EventsOf(who) /\ u.added \in EventsOf(who)
              /\ v.added < p /\ u.added < p /\ v.added \in Nat /\ u.added \in Nat
          BY <1>3, <1>4, <1>6, <4>2
        <5>2. v.added <= u.added /\ u.added <= v.added
          BY <1>2, <4>2, <5>1
        <5> QED
          BY <4>2, <5>1, <5>2
      <4>4. ActiveRows(who)' = {}
        BY <1>1, <4>1, <4>3, ActiveAfter
      <4> QED
        BY <4>1, <4>4 DEF Additions
    <3>2. CASE validators' = validators /\ History[p].event # "added"
               /\ (History[p].event = "removed" => ActiveRows(History[p].who) = {})
      <4>1. History[p].event = "removed" /\ History[p].who = who
        BY <1>11, <3>2 DEF EventsOf
      <4> QED
        BY <3>2, <4>1 DEF ActiveRows, Additions
    <3>3. pos' # pos
      BY <1>1, <1>11 DEF TypeOK
    <3> QED
      BY <1>1, <1>11, <3>1, <3>2, <3>3
  <2>2. ASSUME NEW i \in Additions(who), i < p + 1,
               \A j \in EventsOf(who) : j < p + 1 => j <= i
        PROVE  FALSE
    <3>1. p <= i /\ i \in Nat
      BY <1>1, <1>5, <1>6, <1>11, <2>2
    <3> QED
      BY <1>1, <2>1, <2>2, <3>1
  <2>3. Later
    BY <2>1, <2>2
  <2> QED
    BY <1>8, <1>11, <2>3
<1>12. (Adds("monitor") \/ Removes("monitor")) => pos' = [pos EXCEPT !["monitor"] = @ + 1]
  BY <1>1, WritesAt
<1> QED
  BY <1>1, <1>7, <1>9, <1>10, <1>11, <1>12

\* As long as nothing is repeated, the monitor follows the events of the chain.
LEMMA FirstTimeStep ==
    ASSUME TypeOK, HoldsAddition, RowsOfAdditions, FirstTime, [Next]_vars
    PROVE  FirstTime'
<1> DEFINE p == pos["monitor"]
           HeldIsActive ==
             step["monitor"] = "remove" =>
               \E v \in ActiveRows(History[p].who) : v.added = held["monitor"]
<1> SUFFICES ASSUME replays' = 0
             PROVE  /\ until'["reprocess"] = 0
                    /\ \A v \in validators' : v.added < p'
                    /\ \A who \in Addresses : AddedApart(who) =>
                          FollowsEvents(who, pos["monitor"])'
                    /\ HeldIsActive'
  BY DEF FirstTime, AddedApart, FollowsEvents, Additions, EventsOf
<1>1. /\ "monitor" \in Workers /\ "reprocess" \in Workers /\ p \in Nat
      /\ pos["reprocess"] \in Nat /\ until["reprocess"] \in Nat /\ replays \in Nat
  BY HistoryAssumption, ReplaysAssumption DEF TypeOK, Workers
<1>2. ~Restart /\ ~Reprocess /\ \A w \in Workers : ~Fails(w)
  BY <1>1 DEF Restart, Reprocess, Fails
<1>3. CASE SaveLogs \/ UNCHANGED vars
  <2>1. /\ replays = 0 /\ pos' = pos /\ until' = until /\ validators' = validators
        /\ step' = step /\ held' = held
    BY <1>3 DEF SaveLogs, vars, tables
  <2> QED
    BY <2>1 DEF FirstTime, FollowsEvents, ActiveRows, Additions, EventsOf
<1>4. ASSUME NEW w \in Workers, HandleLog(w) PROVE w = "monitor" /\ replays = 0
  <2>1. replays = 0 /\ pos[w] \in Indices /\ pos[w] <= until[w] /\ pos[w] \in Nat \ {0}
    BY <1>4, EventStep, LogTypes DEF HandleLog
  <2>2. until["reprocess"] = 0
    BY <2>1 DEF FirstTime
  <2> QED
    BY <1>1, <2>1, <2>2 DEF Workers
<1>5. CASE HandleLog("monitor")
  <2>1. /\ p \in Indices /\ until' = until /\ replays = 0
        /\ \/ Adds("monitor") \/ Removes("monitor")
           \/ validators' = validators /\ pos' = pos
           \/ validators' = validators /\ pos' = [pos EXCEPT !["monitor"] = @ + 1]
    BY <1>1, <1>4, <1>5, EventStep
  <2>2. /\ Adds("monitor") => EnsureValidator(p, NoLog)
        /\ Removes("monitor") => EnsureValidator(held["monitor"], p)
        /\ p' = p \/ p' = p + 1
        /\ Adds("monitor") \/ Removes("monitor") => p' = p + 1
    BY <1>1, <2>1, WritesAt DEF TypeOK
  <2>3. /\ until["reprocess"] = 0
        /\ \A v \in validators : v.added < p /\ v.added \in Nat
        /\ HeldIsActive
    BY <2>1, LogTypes DEF FirstTime, TypeOK
  <2>4. ASSUME NEW v \in validators' PROVE v.added < p'
    <3>1. CASE v \in validators
      BY <1>1, <2>2, <2>3, <3>1
    <3>2. CASE Adds("monitor") /\ v \notin validators
      <4>1. v = [added |-> p, removed |-> NoLog]
        BY <2>2, <2>4, <3>2 DEF EnsureValidator
      <4> QED
        BY <1>1, <2>2, <3>2, <4>1
    <3>3. CASE Removes("monitor") /\ v \notin validators
      <4>1. v.added = held["monitor"]
        BY <2>2, <2>4, <3>3 DEF EnsureValidator
      <4>2. \E u \in validators : u.added = held["monitor"]
        BY <2>3, <3>3 DEF Removes, Handles, ActiveRows
      <4> QED
        BY <1>1, <2>2, <2>3, <3>3, <4>1, <4>2
    <3> QED
      BY <2>1, <2>4, <3>1, <3>2, <3>3
  <2>5. HeldIsActive'
    <3>1. SUFFICES ASSUME step'["monitor"] = "remove" PROVE HeldIsActive'
      OBVIOUS
    <3>2. GetActiveValidator("monitor")
      <4>1. \/ Done("monitor") \/ GetActiveValidator("monitor")
            \/ \E s \in {"message", "sent"} : \E i : GoTo("monitor", s, i)
        BY <1>5 DEF HandleLog, EnsureRequest, HandleTransfer, HandlePayment,
              EnsureErcToNativeMessage, EnsureSent, EnsureRow, HandleValidatorAdded,
              EnsureRemoved
      <4> QED
        BY <1>1, <3>1, <4>1 DEF Done, GoTo, TypeOK
    <3>3. PICK v \in ActiveRows(History[p].who) : GoTo("monitor", "remove", v.added)
      BY <1>1, <3>1, <3>2 DEF GetActiveValidator, Done, TypeOK
    <3>4. p' = p /\ validators' = validators /\ held'["monitor"] = v.added
      BY <1>1, <3>2, <3>3 DEF GetActiveValidator, GoTo, TypeOK, tables
    <3>5. v \in ActiveRows(History[p].who)'
      BY <3>3, <3>4 DEF ActiveRows
    <3> QED
      BY <3>4, <3>5
  <2> QED
    BY <1>5, <2>1, <2>3, <2>4, <2>5, FollowsEventsStep
<1> QED
  BY <1>2, <1>3, <1>4, <1>5 DEF Next

\* Every step keeps the invariant of the validators.
LEMMA NextValidators == ValidatorsInv /\ [Next]_vars => ValidatorsInv'
BY NextType, HoldsAdditionStep, RowsOfAdditionsStep, RecordsReplayStep, FirstTimeStep,
   OnlyAdditionStep DEF ValidatorsInv

\* At first nobody is a validator in the table, and no log is handled.
LEMMA InitValidators == Init => ValidatorsInv
<1> SUFFICES ASSUME Init PROVE ValidatorsInv
  OBVIOUS
<1>1. TypeOK
  BY InitType
<1>2. /\ validators = {} /\ replayed = {} /\ pos["monitor"] = 1 /\ until["reprocess"] = 0
      /\ \A w \in Workers : step[w] = "start"
      /\ "monitor" \in Workers
  BY DEF Init, Workers
<1>3. \A i \in Indices : i \in Nat /\ i > 0
  BY LogTypes
<1>4. \A who : \A i \in EventsOf(who) : ~(i < 1)
  BY <1>3 DEF EventsOf
<1>5. \A who : ActiveRows(who) = {} /\ Additions(who) \subseteq EventsOf(who)
  BY <1>2 DEF ActiveRows, Additions
<1>6. HoldsAddition /\ RowsOfAdditions
  BY <1>2 DEF HoldsAddition, RowsOfAdditions
<1>7. RecordsReplay
  BY <1>2, <1>3 DEF RecordsReplay
<1>8. FirstTime
  BY <1>2, <1>4, <1>5 DEF FirstTime, FollowsEvents
<1>9. OnlyAddition
  BY <1>2, <1>4, <1>5 DEF OnlyAddition
<1> QED
  BY <1>1, <1>6, <1>7, <1>8, <1>9 DEF ValidatorsInv

\* The rows of bridge_validators that are active are the validators of the chain
\* (HandleValidatorAdded, HandleValidatorRemoved): at every log for all validators
\* as long as no log was handled twice, and once the monitor has handled all logs,
\* under every order of the two programs' statements and after failures, restarts and
\* reprocessing, for those added once whose addition was not reprocessed.
THEOREM ValidatorsOfChain == Spec => []ActiveAreValidators
<1>1. ValidatorsInv => ActiveAreValidators
  <2> SUFFICES ASSUME ValidatorsInv, NEW who \in Addresses,
                      \/ replays = 0 /\ AddedApart(who)
                      \/ pos["monitor"] > Len(History) /\ AddedOnce(who)
               PROVE  (ActiveRows(who) # {}) = IsValidator(who)
    BY DEF ActiveAreValidators
  <2> DEFINE p == pos["monitor"]
  <2>1. /\ \A j \in EventsOf(who) : j \in Nat /\ (p > Len(History) => j < p)
        /\ Additions(who) \subseteq EventsOf(who)
    <3>1. Len(History) \in Nat /\ p \in Nat
      BY HistoryAssumption DEF ValidatorsInv, TypeOK, Workers
    <3> QED
      BY <3>1 DEF EventsOf, Additions, Indices
  <2>2. \A v \in ActiveRows(who) : v.added \in Additions(who)
    BY DEF ValidatorsInv, RowsOfAdditions, ActiveRows, Additions, EventsOf, TypeOK
  <2>3. CASE p > Len(History) /\ AddedOnce(who)
    <3>1. /\ \A a, b \in Additions(who) : a = b
          /\ \A a \in Additions(who) :
               /\ (a < p /\ \A j \in EventsOf(who) : j <= a) => ActiveRows(who) # {}
               /\ (\E j \in EventsOf(who) : a < j /\ j < p) => ActiveRows(who) = {}
      BY <2>3 DEF AddedOnce, ValidatorsInv, OnlyAddition
    <3>2. IsValidator(who) => ActiveRows(who) # {}
      BY <2>1, <2>3, <3>1 DEF IsValidator
    <3>3. ASSUME ActiveRows(who) # {} PROVE IsValidator(who)
      <4>1. PICK a \in Additions(who) : \A j \in EventsOf(who) : ~(a < j /\ j < p)
        BY <2>2, <3>1, <3>3
      <4>2. \A j \in EventsOf(who) : j <= a
        BY <2>1, <2>3, <4>1
      <4> QED
        BY <2>1, <2>3, <4>2 DEF IsValidator
    <3> QED
      BY <3>2, <3>3 DEF IsValidator
  <2>4. CASE replays = 0 /\ AddedApart(who)
    <3>0. \A v \in ActiveRows(who) : v.added < p
      BY <2>4 DEF ValidatorsInv, FirstTime, ActiveRows
    <3>1. /\ \A v \in ActiveRows(who) : \A j \in EventsOf(who) : j < p => j <= v.added
          /\ \A i \in Additions(who) :
               (i < p /\ \A j \in EventsOf(who) : j < p => j <= i) => ActiveRows(who) # {}
      BY <2>4 DEF ValidatorsInv, FirstTime, FollowsEvents
    <3>2. IsValidator(who) => ActiveRows(who) # {}
      BY <2>1, <3>1 DEF IsValidator
    <3>3. ActiveRows(who) # {} => IsValidator(who)
      BY <2>1, <2>2, <3>0, <3>1 DEF IsValidator
    <3> QED
      BY <3>2, <3>3 DEF IsValidator
  <2> QED
    BY <2>3, <2>4
<1> QED
  BY <1>1, InitValidators, NextValidators, PTL DEF Spec

-----------------------------------------------------------------------------
(* What the readers of the tables rely on *)

\* The logs before the one that a program handles are handled: those before the
\* monitor's, and all of a range that is reprocessed.
EarlierHandled ==
    /\ \A j \in Indices : j < pos["monitor"] => j \in handled
    /\ \A j \in Indices : j <= until["reprocess"] => j \in handled

\* Only logs that need a row get as far as their message.
HandlersStoreNeeded ==
    \A w \in Workers : step[w] \in {"message", "sent"} => NeedsRow(pos[w])

RowsOfEvents == \A i \in rows : History[i].event \in RowEvents

OrderInv == Inv /\ EarlierHandled /\ HandlersStoreNeeded /\ RowsOfEvents

\* A position is an ordinary number.
LEMMA Positions ==
    ASSUME TypeOK
    PROVE  /\ Len(History) \in Nat /\ Indices = 1..Len(History)
           /\ \A w \in Workers : pos[w] \in Nat /\ until[w] \in Nat
           /\ "monitor" \in Workers /\ "reprocess" \in Workers
BY HistoryAssumption DEF TypeOK, Indices, Workers

\* A handler that completes adds its log to those that are handled.
LEMMA DoneEarlier ==
    ASSUME TypeOK, EarlierHandled, NEW w \in Workers, pos[w] \in Indices, Done(w)
    PROVE  EarlierHandled'
<1>1. handled' = handled \cup {pos[w]} /\ until' = until
      /\ pos' = [pos EXCEPT ![w] = @ + 1]
  BY DEF Done
<1>2. pos \in [Workers -> 1..(Len(History) + 1)] /\ pos'["monitor"] \in {pos["monitor"], pos["monitor"] + 1}
      /\ (pos'["monitor"] = pos["monitor"] + 1 => pos["monitor"] \in handled')
  BY <1>1, Positions DEF TypeOK
<1>3. \A j \in Indices : j < pos'["monitor"] => j \in handled'
  <2> SUFFICES ASSUME NEW j \in Indices, j < pos'["monitor"] PROVE j \in handled'
    OBVIOUS
  <2>1. j \in Nat /\ pos["monitor"] \in Nat
    BY Positions
  <2>2. j < pos["monitor"] \/ (j = pos["monitor"] /\ pos'["monitor"] = pos["monitor"] + 1)
    BY <1>2, <2>1
  <2> QED
    BY <1>1, <1>2, <2>2 DEF EarlierHandled
<1> QED
  BY <1>1, <1>3 DEF EarlierHandled

\* Every step keeps the order in which logs are handled.
LEMMA NextEarlier ==
    ASSUME TypeOK, EarlierHandled, [Next]_vars
    PROVE  EarlierHandled'
<1>1. ASSUME UNCHANGED <<pos, until, handled>> PROVE EarlierHandled'
  BY <1>1 DEF EarlierHandled
<1>2. ASSUME Restart PROVE EarlierHandled'
  <2>1. PICK i \in 1..pos["monitor"], k \in Indices :
          i \in Indices /\ k <= i /\ pos' = [pos EXCEPT !["monitor"] = k]
    BY <1>2, BatchBegins DEF Restart
  <2>2. pos'["monitor"] = k /\ k <= pos["monitor"] /\ k \in Nat
    BY <2>1, Positions DEF TypeOK
  <2>3. \A j \in Indices : j < k => j < pos["monitor"]
    BY <2>2, Positions
  <2> QED
    BY <1>2, <2>2, <2>3 DEF Restart, EarlierHandled
<1>3. ASSUME Reprocess PROVE EarlierHandled'
  <2>1. PICK i \in Indices, j \in Indices :
          /\ j < pos["monitor"] /\ pos' = [pos EXCEPT !["reprocess"] = i]
          /\ until' = [until EXCEPT !["reprocess"] = j]
    BY <1>3 DEF Reprocess
  <2>2. pos'["monitor"] = pos["monitor"] /\ until'["reprocess"] = j /\ handled' = handled
    BY <1>3, <2>1, Positions DEF TypeOK, Reprocess
  <2>3. \A n \in Indices : n <= j => n < pos["monitor"]
    BY <2>1, Positions
  <2> QED
    BY <2>2, <2>3 DEF EarlierHandled
<1>4. ASSUME NEW w \in Workers, Fails(w) PROVE EarlierHandled'
  <2>1. pos[w] \in Indices
    BY <1>4, AtALog DEF Fails
  <2>2. PICK k \in BlockStart(pos[w]) : pos' = [pos EXCEPT ![w] = k]
    BY <1>4 DEF Fails, RetryBatch
  <2>3. k \in Indices /\ k <= pos[w]
    BY <2>1, <2>2, BatchBegins
  <2>4. pos'["monitor"] <= pos["monitor"] /\ pos'["monitor"] \in Nat
    BY <2>2, <2>3, Positions DEF TypeOK
  <2>5. \A j \in Indices : j < pos'["monitor"] => j < pos["monitor"]
    BY <2>4, Positions
  <2> QED
    BY <1>4, <2>5 DEF Fails, RetryBatch, EarlierHandled
<1>5. ASSUME NEW w \in Workers, HandleLog(w) PROVE EarlierHandled'
  <2>1. pos[w] \in Indices
    BY <1>5, AtALog DEF HandleLog, EnsureRequest, HandleTransfer, HandlePayment,
       EnsureErcToNativeMessage, EnsureSent, EnsureRow, HandleValidatorAdded,
       GetActiveValidator, EnsureRemoved
  <2>2. CASE Done(w)
    BY <2>1, <2>2, DoneEarlier
  <2>3. CASE UNCHANGED <<pos, until, handled>>
    BY <1>1, <2>3
  <2>4. Done(w) \/ UNCHANGED <<pos, until, handled>>
    BY <1>5 DEF HandleLog, EnsureRequest, HandleTransfer, HandlePayment,
       EnsureErcToNativeMessage, EnsureSent, EnsureRow, HandleValidatorAdded,
       GetActiveValidator, EnsureRemoved, GoTo
  <2> QED
    BY <2>2, <2>3, <2>4
<1>6. CASE SaveLogs
  BY <1>1, <1>6 DEF SaveLogs
<1>7. CASE UNCHANGED vars
  BY <1>1, <1>7 DEF vars
<1> QED
  BY <1>2, <1>3, <1>4, <1>5, <1>6, <1>7 DEF Next

\* A handler gets to its message only for a log that needs a row.
LEMMA NextNeeded ==
    ASSUME Inv, HandlersStoreNeeded, [Next]_vars
    PROVE  HandlersStoreNeeded'
<1> USE DEF HandlersStoreNeeded
<1>1. ASSUME \A w \in Workers : \/ step'[w] \notin {"message", "sent"}
                                \/ step'[w] = step[w] /\ pos'[w] = pos[w]
                                \/ pos'[w] = pos[w] /\ NeedsRow(pos[w])
      PROVE  HandlersStoreNeeded'
  BY <1>1 DEF NeedsRow
<1>2. CASE SaveLogs \/ UNCHANGED vars
  BY <1>1, <1>2 DEF SaveLogs, vars
<1>3. CASE Restart
  BY <1>1, <1>3 DEF Restart, Inv, TypeOK
<1>4. CASE Reprocess
  <2>1. step["reprocess"] = "start"
    <3>1. "reprocess" \in Workers /\ pos["reprocess"] > until["reprocess"]
      BY <1>4 DEF Reprocess, Workers
    <3> QED
      BY <3>1, Positions DEF Inv, TypeOK
  <2> QED
    BY <1>1, <1>4, <2>1 DEF Reprocess, Inv, TypeOK
<1>5. ASSUME NEW w \in Workers, Fails(w) PROVE HandlersStoreNeeded'
  BY <1>1, <1>5 DEF Fails, RetryBatch, Inv, TypeOK
<1>6. ASSUME NEW w \in Workers, Done(w) PROVE HandlersStoreNeeded'
  BY <1>1, <1>6 DEF Done, Inv, TypeOK
<1>7. ASSUME NEW w \in Workers, NEW s, NEW i, GoTo(w, s, i),
             s \notin {"message", "sent"} \/ NeedsRow(pos[w])
      PROVE  HandlersStoreNeeded'
  BY <1>1, <1>7 DEF GoTo, Inv, TypeOK
<1>8. ASSUME NEW w \in Workers, HandleLog(w) PROVE HandlersStoreNeeded'
  <2>1. CASE EnsureRequest(w)
    <3>1. NeedsRow(pos[w])
      BY <2>1, AtALog DEF EnsureRequest, NeedsRow, Inv
    <3> QED
      BY <1>7, <2>1, <3>1 DEF EnsureRequest
  <2>2. CASE HandleTransfer(w)
    <3>1. /\ pos[w] \in Indices /\ History[pos[w]].event = "transfer"
          /\ History[pos[w]].block <= savedTo
      BY <2>2, AtALog DEF HandleTransfer, Handles, Inv
    <3>2. FindPayments(pos[w]) = InTransaction(pos[w], "payment")
      BY <3>1, FindIsComplete DEF FindPayments
    <3>3. CASE GoTo(w, "message", pos[w]) /\ ~Done(w)
      <4>1. NeedsRow(pos[w])
        BY <2>2, <3>1, <3>2, <3>3 DEF HandleTransfer, NeedsRow
      <4> QED
        BY <1>7, <3>3, <4>1
    <3> QED
      BY <1>6, <2>2, <3>3 DEF HandleTransfer
  <2>3. CASE HandlePayment(w)
    <3>1. NeedsRow(pos[w])
      BY <2>3, AtALog DEF HandlePayment, NeedsRow, Inv
    <3>2. PICK k \in LastOf(pos[w], FindTransfers(pos[w])) : GoTo(w, "message", k)
      BY <2>3 DEF HandlePayment
    <3> QED
      BY <1>7, <3>1, <3>2
  <2>4. CASE EnsureErcToNativeMessage(w)
    <3>1. NeedsRow(pos[w])
      BY <2>4, AtALog DEF EnsureErcToNativeMessage, Inv
    <3> QED
      BY <1>7, <2>4, <3>1 DEF EnsureErcToNativeMessage
  <2>5. CASE GetActiveValidator(w)
    <3>1. CASE Done(w)
      BY <1>6, <3>1
    <3>2. ASSUME NEW v \in ActiveRows(History[pos[w]].who), GoTo(w, "remove", v.added)
          PROVE  HandlersStoreNeeded'
      BY <1>7, <3>2
    <3> QED
      BY <2>5, <3>1, <3>2 DEF GetActiveValidator
  <2>6. CASE EnsureSent(w) \/ EnsureRow(w) \/ HandleValidatorAdded(w) \/ EnsureRemoved(w)
    BY <1>6, <2>6 DEF EnsureSent, EnsureRow, HandleValidatorAdded, EnsureRemoved
  <2> QED
    BY <1>8, <2>1, <2>2, <2>3, <2>4, <2>5, <2>6 DEF HandleLog
<1> QED
  BY <1>2, <1>3, <1>4, <1>5, <1>8 DEF Next

\* Only EnsureRow adds to the tables of the other events.
LEMMA NextRows ==
    ASSUME TypeOK, RowsOfEvents, [Next]_vars
    PROVE  RowsOfEvents'
<1>1. CASE UNCHANGED rows
  BY <1>1 DEF RowsOfEvents
<1>2. ASSUME NEW w \in Workers, EnsureRow(w) PROVE RowsOfEvents'
  BY <1>2, AtALog DEF EnsureRow, RowsOfEvents
<1>3. ASSUME NEW w \in Workers, HandleLog(w) PROVE UNCHANGED rows \/ EnsureRow(w)
  BY <1>3 DEF HandleLog, EnsureRequest, HandleTransfer, HandlePayment, tables,
     EnsureErcToNativeMessage, EnsureSent, HandleValidatorAdded, GetActiveValidator,
     EnsureRemoved
<1>4. ASSUME NEW w \in Workers, Fails(w) PROVE UNCHANGED rows
  BY <1>4 DEF Fails, RetryBatch, tables
<1>5. CASE SaveLogs \/ Restart \/ Reprocess \/ UNCHANGED vars
  BY <1>1, <1>5 DEF SaveLogs, Restart, Reprocess, vars, tables
<1> QED
  BY <1>1, <1>2, <1>3, <1>4, <1>5 DEF Next

\* Every step keeps the order in which the tables are filled.
LEMMA NextOrder == OrderInv /\ [Next]_vars => OrderInv'
BY NextInv, NextEarlier, NextNeeded, NextRows DEF OrderInv, Inv

\* At first nothing is handled and nothing stored.
LEMMA InitOrder == Init => OrderInv
<1>1. Init => EarlierHandled
  BY HistoryAssumption DEF Init, EarlierHandled, Workers, Indices
<1>2. Init => HandlersStoreNeeded /\ RowsOfEvents
  BY DEF Init, HandlersStoreNeeded, RowsOfEvents
<1> QED
  BY <1>1, <1>2, InitInv DEF OrderInv

\* Sorted logs precede each other as their places in the history do.
LEMMA PlacesPrecede ==
    ASSUME NEW i \in Indices, NEW j \in Indices, Tables!Precedes(LogOf(j), LogOf(i))
    PROVE  j < i
<1>1. /\ i \in Nat /\ j \in Nat
      /\ History[i].block \in Nat /\ History[j].block \in Nat
  BY LogTypes
<1>2. \/ History[j].block < History[i].block
      \/ History[j].block = History[i].block /\ j < i
  BY DEF Tables!Precedes, LogOf
<1>3. i <= j => History[i].block <= History[j].block
  BY HistoryAssumption
<1> QED
  BY <1>1, <1>2, <1>3

\* A log is told from the others by its place.
LEMMA LogsDiffer ==
    ASSUME NEW i, NEW S, LogOf(i) \in {LogOf(j) : j \in S}
    PROVE  i \in S
BY DEF LogOf

NeededLogs == {LogOf(i) : i \in {j \in Indices : NeedsRow(j)}}

StoredMessages == {[hash |-> m.hash, direction |-> "home_to_foreign"] : m \in messages}

StoredLogs == {LogOf(i) : i \in sent \cup rows}

\* A handler that comes to its message or row for the first time is at the next
\* log that gets one.
LEMMA HandlesNext ==
    ASSUME OrderInv, NEW w \in Workers, pos[w] \in Indices, pos[w] <= until[w],
           pos[w] \notin sent \cup rows
    PROVE  Tables!IsNext(LogOf(pos[w]))
<1>1. \A j \in Indices : j < pos[w] => j \in handled
  <2>1. w = "monitor" \/ w = "reprocess"
    BY DEF Workers
  <2>2. \A j \in Indices : j < pos[w] => j <= until[w]
    BY Positions DEF OrderInv, Inv
  <2> QED
    BY <2>1, <2>2 DEF OrderInv, EarlierHandled
<1>2. LogOf(pos[w]) \notin StoredLogs
  BY LogsDiffer DEF StoredLogs
<1>3. ASSUME NEW k \in NeededLogs, Tables!Precedes(k, LogOf(pos[w]))
      PROVE  k \in StoredLogs
  <2>1. PICK j \in Indices : NeedsRow(j) /\ k = LogOf(j)
    BY DEF NeededLogs
  <2>2. j < pos[w]
    BY <1>3, <2>1, PlacesPrecede
  <2>3. j \in sent \cup rows
    BY <1>1, <2>1, <2>2 DEF OrderInv, Inv, HandledHaveRow
  <2> QED
    BY <2>1, <2>3 DEF StoredLogs
<1> QED
  BY <1>2, <1>3 DEF Tables!IsNext, StoredLogs, NeededLogs

\* A statement that stores a message: a step of BridgeTables, or it was stored.
LEMMA MessageImplements ==
    ASSUME OrderInv, NEW w \in Workers, NEW a, NEW i \in Indices, i = pos[w],
           i <= until[w], NeedsRow(i), History[i].event \in SentEvents,
           EnsureMessage(Hash(i), a) \/ EnsureMessageSender(Hash(i), a),
           UNCHANGED <<sent, rows>>
    PROVE  [Tables!TablesNext]_(Tables!bridgeTables)
<1>1. MessageOf(i) = [hash |-> Hash(i), direction |-> "home_to_foreign"]
  BY DEF MessageOf
<1>2. /\ \A m \in messages : \E n \in messages' : n.hash = m.hash
      /\ \E n \in messages' : n.hash = Hash(i)
      /\ \A n \in messages' : n \in messages \/ n.hash = Hash(i)
  BY MessagesStay
<1>3. StoredMessages' = StoredMessages \cup {MessageOf(i)}
  BY <1>1, <1>2 DEF StoredMessages
<1>4. StoredLogs' = StoredLogs
  BY DEF StoredLogs
<1>5. CASE i \in sent \cup rows
  <2>1. i \in sent
    BY <1>5 DEF OrderInv, RowsOfEvents, RowEvents, SentEvents
  <2>2. \E m \in messages : m.hash = Hash(i)
    BY <2>1 DEF OrderInv, Inv, SentHaveMessage, HasMessage
  <2>3. MessageOf(i) \in StoredMessages
    BY <1>1, <2>2 DEF StoredMessages
  <2>4. UNCHANGED Tables!bridgeTables
    BY <1>3, <1>4, <2>3 DEF Tables!bridgeTables, StoredMessages, StoredLogs
  <2> QED
    BY <2>4
<1>6. CASE i \notin sent \cup rows
  <2>1. Tables!IsNext(LogOf(i))
    BY <1>6, HandlesNext
  <2>2. LogOf(i).kind \in Tables!SentKinds /\ LogOf(i).msg = MessageOf(i)
    BY DEF LogOf, KindOf, Tables!SentKinds, SentEvents
  <2>3. Tables!EnsureMessage(LogOf(i))
    BY <1>3, <1>4, <2>1, <2>2 DEF Tables!EnsureMessage, StoredMessages, StoredLogs
  <2>4. \E l \in NeededLogs : Tables!EnsureMessage(l) \/ Tables!EnsureRow(l)
    BY <2>3 DEF NeededLogs
  <2>5. Tables!TablesNext
    BY <2>4 DEF Tables!TablesNext, NeededLogs
  <2> QED
    BY <2>5
<1> QED
  BY <1>5, <1>6

\* A statement that stores the row of a log: a step of BridgeTables, or it was stored.
LEMMA RowImplements ==
    ASSUME OrderInv, NEW w \in Workers, NEW i \in Indices, i = pos[w],
           i <= until[w], NeedsRow(i), History[i].event \in RowEvents \/ HasMessage(i),
           sent' \cup rows' = (sent \cup rows) \cup {i}, UNCHANGED messages
    PROVE  [Tables!TablesNext]_(Tables!bridgeTables)
<1>1. StoredMessages' = StoredMessages
  BY DEF StoredMessages
<1>2. StoredLogs' = StoredLogs \cup {LogOf(i)}
  BY DEF StoredLogs
<1>3. CASE i \in sent \cup rows
  <2>1. StoredLogs' = StoredLogs
    BY <1>2, <1>3 DEF StoredLogs
  <2>2. UNCHANGED Tables!bridgeTables
    BY <1>1, <2>1 DEF Tables!bridgeTables, StoredMessages, StoredLogs
  <2> QED
    BY <2>2
<1>4. CASE i \notin sent \cup rows
  <2>1. Tables!IsNext(LogOf(i))
    BY <1>4, HandlesNext
  <2>2. LogOf(i).kind \in Tables!SentKinds => LogOf(i).msg \in StoredMessages
    <3>1. CASE History[i].event \in RowEvents
      BY <3>1 DEF LogOf, KindOf, RowEvents, Tables!SentKinds
    <3>2. CASE History[i].event \notin RowEvents
      <4>1. History[i].event \in SentEvents /\ \E m \in messages : m.hash = Hash(i)
        BY <3>2 DEF NeedsRow, SentEvents, HasMessage
      <4> QED
        BY <4>1 DEF LogOf, MessageOf, StoredMessages
    <3> QED
      BY <3>1, <3>2
  <2>3. Tables!EnsureRow(LogOf(i))
    BY <1>1, <1>2, <2>1, <2>2 DEF Tables!EnsureRow, StoredMessages, StoredLogs
  <2>4. \E l \in NeededLogs : Tables!EnsureMessage(l) \/ Tables!EnsureRow(l)
    BY <2>3 DEF NeededLogs
  <2>5. Tables!TablesNext
    BY <2>4 DEF Tables!TablesNext, NeededLogs
  <2> QED
    BY <2>5
<1> QED
  BY <1>3, <1>4

\* Every step of a program is one of BridgeTables, or changes none of its tables.
LEMMA NextImplements ==
    ASSUME OrderInv, [Next]_vars
    PROVE  [Tables!TablesNext]_(Tables!bridgeTables)
<1> USE DEF OrderInv, Inv
<1>1. ASSUME UNCHANGED <<messages, sent, rows>>
      PROVE  [Tables!TablesNext]_(Tables!bridgeTables)
  BY <1>1 DEF Tables!bridgeTables
<1>2. ASSUME NEW w \in Workers, HandleLog(w)
      PROVE  [Tables!TablesNext]_(Tables!bridgeTables)
  <2>1. pos[w] \in Indices /\ pos[w] <= until[w]
    BY <1>2, AtALog DEF HandleLog, EnsureRequest, HandleTransfer, HandlePayment, Handles,
       EnsureErcToNativeMessage, EnsureSent, EnsureRow, HandleValidatorAdded,
       GetActiveValidator, EnsureRemoved
  <2>2. CASE EnsureRequest(w)
    <3>1. History[pos[w]].event \in SentEvents /\ NeedsRow(pos[w])
      BY <2>2, AtALog DEF EnsureRequest, SentEvents, NeedsRow
    <3> QED
      BY <2>1, <2>2, <3>1, MessageImplements DEF EnsureRequest
  <2>3. CASE EnsureErcToNativeMessage(w)
    <3>1. History[pos[w]].event \in SentEvents /\ NeedsRow(pos[w])
      BY <2>3, AtALog DEF EnsureErcToNativeMessage, SentEvents, HandlersStoreNeeded
    <3> QED
      BY <2>1, <2>3, <3>1, MessageImplements DEF EnsureErcToNativeMessage
  <2>4. CASE EnsureSent(w)
    <3>1. NeedsRow(pos[w]) /\ HasMessage(pos[w])
      BY <2>4, AtALog DEF EnsureSent, HandlersStoreNeeded, HandlersKnow
    <3> QED
      BY <2>1, <2>4, <3>1, RowImplements DEF EnsureSent
  <2>5. CASE EnsureRow(w)
    <3>1. NeedsRow(pos[w]) /\ History[pos[w]].event \in RowEvents
      BY <2>5, AtALog DEF EnsureRow, NeedsRow
    <3> QED
      BY <2>1, <2>5, <3>1, RowImplements DEF EnsureRow
  <2>6. CASE \/ HandleTransfer(w) \/ HandlePayment(w) \/ HandleValidatorAdded(w)
             \/ GetActiveValidator(w) \/ EnsureRemoved(w)
    BY <1>1, <2>6 DEF HandleTransfer, HandlePayment, HandleValidatorAdded,
       GetActiveValidator, EnsureRemoved, tables
  <2> QED
    BY <1>2, <2>2, <2>3, <2>4, <2>5, <2>6 DEF HandleLog
<1>3. ASSUME NEW w \in Workers, Fails(w) PROVE UNCHANGED <<messages, sent, rows>>
  BY <1>3 DEF Fails, RetryBatch, tables
<1>4. CASE SaveLogs \/ Restart \/ Reprocess \/ UNCHANGED vars
  BY <1>1, <1>4 DEF SaveLogs, Restart, Reprocess, vars, tables
<1> QED
  BY <1>1, <1>2, <1>3, <1>4 DEF Next

\* The handlers implement the tables that the alert jobs and the presenter read,
\* for every history, any errors, restarts and runs of reprocess_block_range.
THEOREM Refinement == Spec => ImplementsTables
<1>1. Init => Tables!TablesInit
  BY DEF Init, Tables!TablesInit, Tables!Sides
<1>2. OrderInv /\ [Next]_vars => [Tables!TablesNext]_(Tables!bridgeTables)
  BY NextImplements
<1> QED
  BY <1>1, <1>2, InitOrder, NextOrder, PTL DEF Spec, ImplementsTables, Tables!TablesSpec

-----------------------------------------------------------------------------
(* The side is one that BridgeTables speaks of: what that module assumes   *)
(* of its constants holds of those that it is given.                       *)

\* The blocks of the history, the last one last.
LEMMA BlocksOfHistory ==
    LastBlock \in Nat /\ \A i \in Indices : History[i].block \in 1..LastBlock
<1>1. CASE History = <<>>
  BY <1>1, LogTypes DEF LastBlock, Indices
<1>2. CASE History # <<>>
  <2>1. Len(History) \in Indices /\ \A i \in Indices : i <= Len(History)
    BY <1>2, HistoryAssumption DEF Indices
  <2>2. \A i \in Indices : History[i].block <= History[Len(History)].block
    BY <2>1, HistoryAssumption
  <2> QED
    BY <1>2, <2>1, <2>2, LogTypes DEF LastBlock
<1> QED
  BY <1>1, <1>2

\* SizesAssumption of BridgeTables.
LEMMA TablesSizes == LastBlock \in Nat /\ IsFiniteSet(NeededLogs)
<1>1. IsFiniteSet({j \in Indices : NeedsRow(j)})
  <2>1. IsFiniteSet(Indices)
    BY HistoryAssumption, FS_Interval DEF Indices
  <2> QED
    BY <2>1, FS_Subset
<1>2. [i \in {j \in Indices : NeedsRow(j)} |-> LogOf(i)]
        \in Surjection({j \in Indices : NeedsRow(j)}, NeededLogs)
  BY DEF Surjection, NeededLogs
<1> QED
  BY <1>1, <1>2, FS_Surjection, BlocksOfHistory

\* LogsAssumption of BridgeTables.
LEMMA TablesLogs ==
    /\ NeededLogs \subseteq Tables!Log
    /\ \A l \in NeededLogs :
         /\ l.side = "foreign" => l.kind \in {"sent", "executed"} \cup Tables!ValidatorKinds
         /\ l.kind = "sent" => (l.side = "home") = (l.msg.direction = "home_to_foreign")
         /\ l.kind \in Tables!ValidatorKinds <=> l.msg = [hash |-> <<>>, direction |-> "none"]
<1> SUFFICES ASSUME NEW i \in Indices, NeedsRow(i)
             PROVE  /\ LogOf(i) \in Tables!Log
                    /\ LogOf(i).kind \notin Tables!ValidatorKinds
                    /\ LogOf(i).kind = "sent" => MessageOf(i).direction = "home_to_foreign"
  <2>1. \A i \in Indices :
          /\ LogOf(i).side = "home" /\ LogOf(i).msg = MessageOf(i)
          /\ MessageOf(i).direction # "none"
    BY DEF LogOf, MessageOf
  <2> QED
    BY <2>1 DEF NeededLogs
<1>1. History[i].event \in SentEvents \cup RowEvents
  BY DEF NeedsRow, SentEvents
<1>2. /\ KindOf[History[i].event] \in Tables!Kinds \ Tables!ValidatorKinds
      /\ KindOf[History[i].event] = "sent" => History[i].event \in SentEvents
  BY <1>1 DEF KindOf, SentEvents, RowEvents, Tables!Kinds, Tables!SentKinds, Tables!ValidatorKinds
<1>3. /\ i \in Nat /\ History[i].block \in (0..LastBlock) \ {0}
      /\ History[i].who \in STRING /\ History[i].tx \in STRING
  <2>1. History[i].block \in (0..LastBlock) \ {0}
    BY BlocksOfHistory
  <2>2. i \in Nat /\ History[i].who \in Addresses /\ History[i].tx \in STRING
    BY LogTypes
  <2> QED
    BY <2>1, <2>2, HistoryAssumption
<1> QED
  BY <1>2, <1>3 DEF LogOf, MessageOf, Tables!Log, Tables!Sides, Tables!Blocks

\* TimeAssumption and CausalityAssumption of BridgeTables: a message is named by a
\* transaction, which is in one block.
LEMMA TablesTime ==
    /\ [s \in Tables!Sides |-> [b \in 0..LastBlock |-> b]]
         \in [Tables!Sides -> [Tables!Blocks -> Nat]]
    /\ \A s \in Tables!Sides, b, c \in Tables!Blocks :
         b < c => [n \in 0..LastBlock |-> n][b] < [n \in 0..LastBlock |-> n][c]
    /\ \A k, l \in NeededLogs :
         (k.kind \in Tables!SentKinds /\ k.msg = l.msg)
           => Tables!TimeOf(k) <= Tables!TimeOf(l)
<1>1. [s \in Tables!Sides |-> [b \in 0..LastBlock |-> b]]
         \in [Tables!Sides -> [Tables!Blocks -> Nat]]
  BY BlocksOfHistory DEF Tables!Sides, Tables!Blocks
<1>2. \A i \in Indices : /\ Tables!TimeOf(LogOf(i)) = History[i].block
                         /\ History[i].block \in Nat
  BY BlocksOfHistory, LogTypes DEF Tables!TimeOf, LogOf
<1>3. ASSUME NEW i \in Indices, NEW j \in Indices, NeedsRow(i),
             LogOf(i).kind \in Tables!SentKinds, LogOf(i).msg = LogOf(j).msg
      PROVE  History[i].block = History[j].block
  <2>1. History[i].event \in SentEvents
    BY <1>3 DEF NeedsRow, LogOf, KindOf, SentEvents, RowEvents, Tables!SentKinds
  <2>2. Hash(i) = Hash(j)
    BY <1>3 DEF LogOf, MessageOf
  <2>3. History[i].tx = History[j].tx
    BY <2>2 DEF Hash
  <2> QED
    BY <2>3, TransactionAssumption
<1>4. \A k, l \in NeededLogs :
         (k.kind \in Tables!SentKinds /\ k.msg = l.msg)
           => Tables!TimeOf(k) <= Tables!TimeOf(l)
  BY <1>2, <1>3 DEF NeededLogs
<1>5. \A b, c \in Tables!Blocks :
        b < c => [n \in 0..LastBlock |-> n][b] < [n \in 0..LastBlock |-> n][c]
  BY DEF Tables!Blocks
<1> QED
  BY <1>1, <1>4, <1>5
=============================================================================
