------------------------- MODULE MCContractMonitor -------------------------
(***************************************************************************)
(* Small instances of ContractMonitor: a bridge query and a token query,   *)
(* blocks with no log, one log, and logs of both queries.                  *)
(***************************************************************************)
EXTENDS ContractMonitorInv

Log(b, i, q) == [block |-> b, index |-> i, query |-> q]

TwoQueries == {"bridge", "token"}
TwoQueryLogs == {Log(2, 1, "bridge"), Log(2, 2, "token"), Log(3, 1, "bridge")}

OneQuery == {"bridge"}
TwoLogs == {Log(2, 1, "bridge"), Log(3, 1, "bridge")}
=============================================================================
