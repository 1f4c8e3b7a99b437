------------------------------ MODULE MCReaders ------------------------------
(***************************************************************************)
(* The alert jobs and the presenter, which read the tables of one bridge.  *)
(* Neither changes what the other reads, so a request is followed only in  *)
(* behaviours in which no job has begun.                                   *)
(***************************************************************************)
EXTENDS MCAlerts, Presenter

NoJobYet ==
    /\ jobPc = "idle" /\ minTime = 0 /\ metric = {} /\ setbacks = 0
    /\ job = "stuck_message_confirmation" /\ \A s \in Sides : processed[s] = {}

\* Only the unknown jobs read the cursors: for the others they may as well go to
\* the last block at once, and stay there.  Bound: block 0 gets no timestamp.  A job
\* reads it only before that side is indexed, and a request never does.
CursorsMatter ==
    /\ \A s \in Sides : 0 \notin timestamps'[s]
    /\ job \in UnknownJobs \/ \A s \in Sides : processed'[s] \in {processed[s], {MaxBlock}}

\* Between an answer and the next request nothing else need happen, nor before a
\* search comes to a log, as it has read the logs only, which do not change here.
\* Bound: a setback or a repair.
ReadersNext ==
    \/ /\ pc = "idle" /\ Next /\ setbacks' + repairs' <= 1 /\ CursorsMatter
       /\ UNCHANGED requestVars
    \/ /\ pc \notin Answered \cup {"idle", "logs"} /\ Next /\ NoJobYet' /\ CursorsMatter
       /\ pc = "enrich" \/ repairs' = repairs
       /\ UNCHANGED requestVars
    \/ /\ RequestNext /\ NoJobYet /\ (pc = "idle" => repairs = 0)
       /\ UNCHANGED vars

ReadersInit == Init /\ RequestInit

ReadersSpec == ReadersInit /\ [][ReadersNext]_<<vars, requestVars>> /\ Fairness

\* A validator of each side, of whom that of the home side signs the message.
ReadersLogs == BridgeLogs \cup
    {At("foreign", 1, 0, "adds v", "added", NoMessage, "v"),
     At("home", 1, 0, "adds w", "added", NoMessage, "w"),
     At("home", 1, 3, "signs first", "signed", ToForeignMsg, "w")}

FollowedLogs ==
    {l \in ReadersLogs : l.tx \in {"executes", "signs", "answers yes"} /\ l.msg # ToHome}

Asks(route, chain, tx, block, from, to) ==
    [route |-> route, chain |-> chain, tx |-> tx, block |-> block, from |-> from, to |-> to]

SearchRequests ==
    {Asks("/chain/block", {"home"}, {}, {2}, {}, {}),
     Asks("/chain/tx", {"home"}, {"asks"}, {}, {}, {2}),
     Asks("/tx", {}, {"executes"}, {}, {}, {}),
     Asks("/", {"foreign"}, {}, {}, {1}, {1}),
     Asks("/", {"foreign"}, {}, {}, {1}, {2}),
     Asks("/", {"home"}, {}, {1}, {2}, {}),
     Asks("/", {"home"}, {}, {}, {2}, {}),
     Asks("/", {}, {"sends to home"}, {}, {}, {2})}

Uploaded == {[msg |-> ToForeignMsg, signer |-> "u"]}
=============================================================================
