------------------------------ MODULE MCAlerts ------------------------------
(***************************************************************************)
(* Small histories of a bridge for Alerts.                                 *)
(***************************************************************************)
EXTENDS Alerts

Msg(name, dir, type, white, v) ==
    [name |-> name, direction |-> dir, dataType |-> type, whitelisted |-> white, value |-> v]

\* A message in each direction, one that nobody sent, and an information request.
ToHome == Msg("toHome", "foreign_to_home", 0, FALSE, 1)
ToForeignMsg == Msg("toForeign", "home_to_foreign", 0, TRUE, 1)
Forged == Msg("forged", "foreign_to_home", 0, FALSE, 1)
Request == Msg("request", "home", 0, FALSE, 0)

BridgeMessages == {ToHome, ToForeignMsg, Forged, Request}

At(s, b, i, t, k, m, d) ==
    [side |-> s, block |-> b, index |-> i, tx |-> t, kind |-> k, msg |-> m, data |-> d]

\* The foreign side sends a message in its last block, which the home side signs
\* at once, as it does the forged one; the message to the foreign side fails there; two validators
\* sign different answers to the request, which is not executed.
BridgeLogs ==
    {At("foreign", 2, 1, "sends to home", "sent", ToHome, ""),
     At("foreign", 2, 2, "executes", "executed", ToForeignMsg, "failed"),
     At("home", 1, 1, "sends to foreign", "sent", ToForeignMsg, ""),
     At("home", 1, 2, "asks", "info_sent", Request, ""),
     At("home", 2, 1, "signs", "signed", ToHome, "w"),
     At("home", 2, 2, "signs", "signed", Forged, "v"),
     At("home", 2, 3, "answers yes", "info_signed", Request, "yes"),
     At("home", 2, 4, "answers no", "info_signed", Request, "no")}

\* A history with a foreign block that has no logs, before that of the message.
QuietLogs ==
    {At("foreign", 2, 1, "sends to home", "sent", ToHome, ""),
     At("home", 3, 1, "signs", "signed", ToHome, "w")}

\* Blocks of the same number have the same time.  So a side is indexed before it has
\* handled what the other side refers to, and no log is too late to be reported.
Times == [s \in Sides |-> [b \in Blocks |-> 2 * b]]

AllBlocks == [s \in Sides |-> 1]

\* The job begins only when both sides are indexed.
IndexedSpec == Init /\ [][Next /\ early' = {}]_vars

ConfirmationJob == {"unknown_message_confirmation"}
FollowedJobs == {"unknown_message_confirmation", "stuck_message_confirmation",
    "failed_message_execution", "different_information_signatures"}
=============================================================================
