---------------------------- MODULE MCLogBatches ----------------------------
(***************************************************************************)
(* A side of an ERC_TO_NATIVE bridge for LogBatches.  Its token "A" was    *)
(* replaced by "B", with a few blocks in which both were in use, and is    *)
(* used again for two blocks at the end.                                   *)
(***************************************************************************)
EXTENDS LogBatches

Token(a, s, e) == [address |-> a, start |-> s, end |-> e]

ConfiguredTokens == {Token("A", 0, 4), Token("B", 3, 0), Token("A", 7, 8)}

At(b, n, a, to) == [block |-> b, index |-> n, address |-> a, topic2 |-> to]

\* In every block an event of the bridge and transfers of both tokens to it;
\* now and then one of the validators contract, a transfer to somebody else
\* and a log of another contract.
PossibleLogs ==
    {At(b, 1, "A", "bridge") : b \in 1..MaxHead}
      \cup {At(b, 2, "B", "bridge") : b \in 1..MaxHead}
      \cup {At(b, 3, "bridge", "validator") : b \in {2, 5, 8}}
      \cup {At(b, 4, "validators", "") : b \in {4}}
      \cup {At(b, 5, "A", "user") : b \in {2, 7}}
      \cup {At(b, 6, "other", "bridge") : b \in {3, 6}}
=============================================================================
