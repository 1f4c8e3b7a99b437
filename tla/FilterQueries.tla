---------------------------- MODULE FilterQueries ----------------------------
(***************************************************************************)
(* Which logs of a chain belong to one side of a bridge.  The answer is    *)
(* given three times: by the configuration (config/config.go), by the      *)
(* queries to a node for a range of blocks (buildFilterQueries in          *)
(* monitor/contract_monitor.go), and by the query to the table logs for    *)
(* blocks that were fetched before a restart (LoadUnprocessedLogs).        *)
(***************************************************************************)
EXTENDS BlockRanges

CONSTANTS
    MaxUint32,         \* math.MaxUint32
    StartBlock,        \* start_block of the side
    ErcToNative,       \* whether bridge_mode is ERC_TO_NATIVE
    BridgeAddress, ValidatorContractAddress,
    TokenConfigs,      \* erc_to_native_tokens as in the file, 0 for no block
    ChainLogs          \* logs that the chain may have, of any contract

Log == [block: Nat \ {0}, index: Nat, address: STRING, topic2: STRING]

AnyTopic == "any"

TokenConfig == [address: STRING, start: Nat, end: Nat]

ASSUME TokenConfigAssumption ==
    /\ MaxUint32 \in Nat /\ MaxHead < MaxUint32 /\ StartBlock \in Nat
    /\ TokenConfigs \subseteq TokenConfig
    /\ BridgeAddress # AnyTopic
ASSUME ChainLogsAssumption ==
    /\ ChainLogs \subseteq Log
    /\ \A k, l \in ChainLogs : k.block = l.block /\ k.index = l.index => k = l

\* Tokens of a bridge that is not ERC_TO_NATIVE are refused.
ASSUME ModeAssumption == ErcToNative \in BOOLEAN /\ (~ErcToNative => TokenConfigs = {})

NoDefaults == TokenConfigs

\* The tokens after init: without blocks of its own, a token has those of the side.
Tokens ==
    {[address |-> t.address,
      start |-> IF t.start = 0 THEN StartBlock ELSE t.start,
      end |-> IF t.end = 0 THEN MaxUint32 ELSE t.end] : t \in TokenConfigs}

\* A token may be listed more than once, for blocks apart.
ASSUME TokensAssumption ==
    \A t \in Tokens :
        /\ t.address \notin {BridgeAddress, ValidatorContractAddress}
        /\ \A u \in Tokens \ {t} :
             t.address = u.address => t.end < u.start \/ u.end < t.start

-----------------------------------------------------------------------------
(* Queries to a node *)

OverlapsBeforeEnd(token, range) == token.start <= range.to /\ range.from < token.end

Overlaps(token, range) == token.start <= range.to /\ range.from <= token.end

\* A query names the token it is made for.
ContractsQuery(range) ==
    [from |-> range.from, to |-> range.to, topic2 |-> AnyTopic, tokens |-> {},
     addresses |-> {BridgeAddress, ValidatorContractAddress}]

UnclippedQuery(token, range) ==
    [from |-> range.from, to |-> range.to, topic2 |-> BridgeAddress,
     tokens |-> {token}, addresses |-> {token.address}]

TokenQuery(token, range) ==
    [from |-> IF token.start > range.from THEN token.start ELSE range.from,
     to |-> IF token.end < range.to THEN token.end ELSE range.to,
     topic2 |-> BridgeAddress, tokens |-> {token}, addresses |-> {token.address}]

\* buildFilterQueries: only transfers to the bridge are asked for.
FilterQueries(range) ==
    {ContractsQuery(range)} \cup
    {TokenQuery(t, range) : t \in {t \in Tokens : ErcToNative /\ Overlaps(t, range)}}

\* What eth_getLogs answers.
Matches(log, query) ==
    /\ log.block \in query.from..query.to /\ log.address \in query.addresses
    /\ query.topic2 \in {AnyTopic, log.topic2}

\* The answers put together: a log that two queries match is there twice.
FetchedLogs(logs, range) ==
    {a \in [query: FilterQueries(range), log: logs] : Matches(a.log, a.query)}

-----------------------------------------------------------------------------
(* The query to the table logs *)

TokenAddresses(range) == {t.address : t \in {t \in Tokens : Overlaps(t, range)}}

OnlyContracts(range) == {BridgeAddress, ValidatorContractAddress}

ContractAddresses(range) == TokenAddresses(range) \cup OnlyContracts(range)

\* Logs.Find by the addresses and the blocks alone.
StoredLogs(stored, range) ==
    {l \in stored : l.block \in range.from..range.to /\ l.address \in ContractAddresses(range)}

-----------------------------------------------------------------------------
(* The configuration *)

\* A log of the contracts of the side, or a transfer of a token to the bridge
\* in the blocks the file gives for the token.
OfSide(log) ==
    \/ log.address \in {BridgeAddress, ValidatorContractAddress}
    \/ \E t \in TokenConfigs :
         /\ log.address = t.address /\ log.topic2 = BridgeAddress
         /\ t.start # 0 => t.start <= log.block
         /\ t.end # 0 => log.block <= t.end

LogsOfSide(logs, range) == {l \in logs : l.block \in range.from..range.to /\ OfSide(l)}

-----------------------------------------------------------------------------
(* Properties *)

LogsOf(answers) == {a.log : a \in answers}

\* The ranges and the queries together: when StartBlockFetcher has scheduled the
\* blocks up to the head, the queries of buildFilterQueries for its ranges select
\* every log of the side in these blocks, no other log, and none in two ranges.
AllLogsFetched ==
    (fromBlock > toBlock /\ StartBlock <= start) =>
      /\ UNION {LogsOf(FetchedLogs(ChainLogs, batches[n])) : n \in 1..Len(batches)}
           = LogsOfSide(ChainLogs, [from |-> start, to |-> toBlock])
      /\ \A m, n \in 1..Len(batches) :
           m # n => LogsOf(FetchedLogs(ChainLogs, batches[m]))
                      \cap LogsOf(FetchedLogs(ChainLogs, batches[n])) = {}
=============================================================================
