------------------------------ MODULE Indexer ------------------------------
(***************************************************************************)
(* What the indexing pipeline of one bridge contract promises to the rest  *)
(* of the monitor (alerts, presenter): the logs of the contract are        *)
(* handled in chain order, none is skipped, and the progress mark that is  *)
(* stored for the contract never covers a log that was not handled.  The   *)
(* mark itself may go back (two goroutines store the same row, and a       *)
(* restart continues from whatever was stored last).                       *)
(* ContractMonitor implements this specification.                          *)
(***************************************************************************)
EXTENDS Naturals

CONSTANTS
    Logs,        \* the logs of the contract, records with .block and .index
    StartBlock   \* the first block that is indexed

VARIABLES
    handled,     \* the logs whose event handler has completed
    mark         \* the stored progress mark (last_processed_block)

vars == <<handled, mark>>

\* Chain order of two logs: block number, then index in the block.
Precedes(k, l) ==
    \/ k.block < l.block
    \/ k.block = l.block /\ k.index < l.index

Init ==
    /\ handled = {}
    /\ mark = StartBlock - 1

\* A log is handled for the first time when all earlier ones are.
Handle(l) ==
    /\ l \notin handled
    /\ \A k \in Logs : Precedes(k, l) => k \in handled
    /\ handled' = handled \cup {l}
    /\ mark' = mark

\* The mark may be set to any block up to which everything is handled.
SetMark ==
    /\ mark' \in Nat
    /\ \A l \in Logs : l.block <= mark' => l \in handled
    /\ handled' = handled

Next ==
    \/ \E l \in Logs : Handle(l)
    \/ SetMark

Spec == Init /\ [][Next]_vars
=============================================================================
