--------------------------- MODULE MCEventHandlers ---------------------------
(***************************************************************************)
(* A small history for EventHandlers.                                      *)
(***************************************************************************)
EXTENDS EventHandlers

At(b, t, e, w, v) == [block |-> b, tx |-> t, event |-> e, who |-> w, value |-> v]

\* A payment by "a" for "b" after its transfer, a transfer to the bridge, one of
\* a blacklisted sender, and validators: "a", one since before the first block, is
\* removed, added and stays, "b" is removed, "c" is added, removed and added again.
SmallHistory == <<
    At(1, "t0", "removed", "a", 0),
    At(2, "t1", "added", "a", 0), At(2, "t1", "added", "b", 0), At(2, "t1", "added", "c", 0),
    At(2, "t2", "transfer", "a", 5), At(2, "t2", "payment", "b", 5),
    At(3, "t3", "transfer", "b", 5), At(3, "t4", "removed", "b", 0), At(3, "t4", "removed", "c", 0),
    At(4, "t5", "transfer", "c", 7), At(4, "t6", "signed", "a", 5), At(4, "t7", "added", "c", 0),
    At(4, "t7", "request", "a", 1),
    At(4, "t7", "information", "b", 1), At(4, "t8", "retrieved", "b", 1)>>

People == {"a", "b", "c"}
=============================================================================
