----------------------------- MODULE ToolRegistry -----------------------------
(***************************************************************************)
(* The table of public tools, src/src/registry/tool-registry.ts: what the  *)
(* schema of a tool asks for, and for every chain the internal tool behind *)
(* it and under which keys that one gets its arguments.                    *)
(***************************************************************************)
EXTENDS Tables

Chains == {"n3", "neox"}
Same(keys) == [key \in keys |-> key]

\* A route: args maps the keys of the internal tool to those of the public one.  The
\* network goes as it is, in the neox-* form, or not at all.  Where the registry picks
\* the endpoint of an explorer, args are the params for it.
Route(internal, services, network, endpoint, args) ==
    [internal |-> internal, services |-> services, network |-> network,
     endpoint |-> endpoint, args |-> args]
ByServices(internal, args) == Route(internal, TRUE, "pass", "none", args)
Direct(internal, args)     == Route(internal, FALSE, "pass", "none", args)
Prefixed(internal, args)   == Route(internal, FALSE, "prefix", "none", args)
Pinned(internal, args)     == Route(internal, FALSE, "drop", "none", args)
Index(method, args)        == Route("query_indexer", FALSE, "pass", method, args)

\* A tool: the keys its schema requires and those it knows besides.
Tool(required, optional, routes) == [required |-> required, optional |-> optional, routes |-> routes]
NetworkTool(required, optional, routes) == Tool(required, optional \cup {"network"}, routes)
Paged == {"limit", "skip"}

MetaTools ==
    [get_network_mode  |-> Tool({}, {}, [meta |-> Pinned("get_network_mode", Same({}))]),
     get_wallet        |-> Tool({"address"}, {}, [meta |-> Pinned("get_wallet", Same({"address"}))]),
     inspect_neo_value |-> Tool({"value"}, {}, [meta |-> Pinned("inspect_neo_value", Same({"value"}))]),
     convert_neo_data  |-> Tool({"value", "outputFormat"}, {"inputFormat"},
        [meta |-> Pinned("convert_neo_data", Same({"value", "inputFormat", "outputFormat"}))]),
     get_neo_service_info |-> NetworkTool({"service"}, {},
        [meta |-> Direct("get_neo_service_info", Same({"service"}))])]

NodeTools ==
    [get_chain_info |-> NetworkTool({}, {},
        [n3   |-> ByServices("get_blockchain_info", Same({})),
         neox |-> Direct("x_node_get_chain_info", Same({}))]),
     get_block_height |-> NetworkTool({}, {},
        [n3   |-> ByServices("get_block_count", Same({})),
         neox |-> Direct("x_node_get_block_height", Same({}))]),
     get_block |-> NetworkTool({"hashOrHeight"}, {"includeTransactions", "includeStateRoot"},
        [n3   |-> ByServices("get_block", Same({"hashOrHeight", "includeStateRoot"})),
         neox |-> Direct("x_node_get_block", [blockHashOrHeight   |-> "hashOrHeight",
                                             includeTransactions |-> "includeTransactions"])]),
     get_transaction |-> NetworkTool({"hash"}, {},
        [n3   |-> ByServices("get_transaction", [txid |-> "hash"]),
         neox |-> Direct("x_node_get_transaction", Same({"hash"}))]),
     get_transaction_status |-> NetworkTool({"hash"}, {},
        [n3   |-> ByServices("n3_node_get_transaction_status", Same({"hash"})),
         neox |-> Direct("x_node_get_transaction_status", Same({"hash"}))]),
     get_balance |-> NetworkTool({"address"}, {},
        [n3   |-> ByServices("get_balance", Same({"address"})),
         neox |-> Direct("x_node_get_balance", Same({"address"}))])]

ContractTools ==
    [call_contract |-> NetworkTool({}, {"contract", "scriptHash", "operation", "args", "data",
                                        "functionSignature", "from"},
        [n3   |-> ByServices("invoke_contract", Same({"contract", "scriptHash", "operation", "args"})),
         neox |-> Direct("x_node_call_contract",
                         Same({"contract", "data", "functionSignature", "args", "from"}))]),
     get_contract_info |-> NetworkTool({}, {"contract", "address"},
        [n3   |-> ByServices("get_contract_info", Same({"contract"})),
         neox |-> Route("x_query", FALSE, "drop", "get_smart_contract", Same({"address"}))])]

N3NodeTools ==
    [get_application_log |-> NetworkTool({"hash"}, {},
        [n3 |-> ByServices("get_application_log", [txid |-> "hash"])]),
     wait_for_transaction |-> NetworkTool({"hash"}, {"timeoutMs", "pollIntervalMs", "includeApplicationLog"},
        [n3 |-> ByServices("wait_for_transaction",
            [txid |-> "hash", timeoutMs |-> "timeoutMs", pollIntervalMs |-> "pollIntervalMs",
             includeApplicationLog |-> "includeApplicationLog"])]),
     get_unclaimed_gas |-> NetworkTool({"address"}, {},
        [n3 |-> ByServices("get_unclaimed_gas", Same({"address"}))]),
     decode_neo_script |-> Tool({"script"}, {"inputFormat"},
        [n3 |-> Pinned("decode_neo_script", Same({"script", "inputFormat"}))]),
     query_nns |-> NetworkTool({"domain"}, {"recordType"},
        [n3 |-> ByServices("query_nns", Same({"domain", "recordType"}))]),
     query_neofs |-> Tool({"network", "operation"}, {"containerId", "objectId", "address"},
        [n3 |-> Direct("query_neofs", Same({"operation", "containerId", "objectId", "address"}))]),
     get_oracle_info |-> NetworkTool({}, {}, [n3 |-> ByServices("get_oracle_info", Same({}))])]

N3TokenTools ==
    LET window == {"fromTimestampMs", "toTimestampMs"} IN
    [get_nep17_transfers |-> NetworkTool({"address"}, window,
        [n3 |-> ByServices("get_nep17_transfers", Same({"address"} \cup window))]),
     get_nep11_balances |-> NetworkTool({"address"}, {},
        [n3 |-> ByServices("get_nep11_balances", Same({"address"}))]),
     get_nep11_transfers |-> NetworkTool({"address"}, window,
        [n3 |-> ByServices("get_nep11_transfers", Same({"address"} \cup window))]),
     get_contract_status |-> NetworkTool({}, {"contract", "contractName"},
        [n3 |-> ByServices("get_contract_status", Same({"contract", "contractName"}))]),
     list_famous_contracts |-> NetworkTool({}, {}, [n3 |-> ByServices("list_famous_contracts", Same({}))]),
     estimate_transfer_fees |-> NetworkTool({"from", "to", "asset", "amount"}, {},
        [n3 |-> ByServices("estimate_transfer_fees",
            [fromAddress |-> "from", toAddress |-> "to", asset |-> "asset", amount |-> "amount"])]),
     estimate_invoke_fees |-> NetworkTool({"from", "operation"}, {"contract", "scriptHash", "args"},
        [n3 |-> ByServices("estimate_invoke_fees",
            [signerAddress |-> "from", contract |-> "contract", scriptHash |-> "scriptHash",
             operation |-> "operation", args |-> "args"])])]

ConstructTools ==
    [simulate_call |-> NetworkTool({}, {"scriptHash", "operation", "args", "signers", "to", "data", "from", "value"},
        [n3   |-> ByServices("n3_test_invoke", Same({"scriptHash", "operation", "args", "signers"})),
         neox |-> Prefixed("x_simulate_call", Same({"to", "data", "from", "value"}))]),
     build_transfer |-> NetworkTool({"from", "to"}, {"asset", "amount", "decimals", "amountWei"},
        [n3   |-> ByServices("n3_build_transfer", Same({"from", "to", "asset", "amount", "decimals"})),
         neox |-> Prefixed("x_build_transfer", Same({"from", "to", "amountWei"}))]),
     build_contract_call |-> NetworkTool({"from"},
            {"scriptHash", "operation", "args", "signers", "to", "data", "functionSignature", "valueWei"},
        [n3   |-> ByServices("n3_build_invoke", Same({"from", "scriptHash", "operation", "args", "signers"})),
         neox |-> Prefixed("x_build_contract_call",
                           Same({"from", "to", "data", "functionSignature", "args", "valueWei"}))])]

N3ConstructTools ==
    [build_vote |-> NetworkTool({"from"}, {"candidate"},
        [n3 |-> ByServices("n3_build_vote", Same({"from", "candidate"}))]),
     build_nns_operation |-> NetworkTool({"from", "action", "domain"}, {"years", "recordType", "data", "to"},
        [n3 |-> ByServices("n3_build_nns_operation",
                           Same({"from", "action", "domain", "years", "recordType", "data", "to"}))])]

AnalyzeTools ==
    [explorer_get_address |-> NetworkTool({"address"}, {},
        [n3   |-> Direct("n3_get_address", Same({"address"})),
         neox |-> Prefixed("x_get_address", Same({"address"}))]),
     analyze_address |-> NetworkTool({"address"}, {"sample", "limit"},
        [n3 |-> Index("analyze_address", Same({"address", "sample", "limit"}))]),
     analyze_address_connection |-> NetworkTool({"source", "target"}, {"sample", "limit"},
        [n3 |-> Index("analyze_address_connection",
            [address |-> "source", target |-> "target", sample |-> "sample", limit |-> "limit"])]),
     analyze_account_graph |-> NetworkTool({"address"}, {"limit"},
        [n3 |-> Index("analyze_account_graph", Same({"address", "limit"}))])]

EvidenceTools ==
    LET thresholds == {"lookback", "streak_threshold", "duration_threshold_s", "max_data_age_s", "max_clock_skew_s"} IN
    [analyze_consensus_health |-> NetworkTool({}, thresholds,
        [n3 |-> Index("analyze_consensus_health", Same(thresholds))]),
     analyze_transaction |-> NetworkTool({"txid"}, {},
        [n3 |-> Index("analyze_transaction", Same({"txid"}))]),
     investigate_transactions |-> NetworkTool({"txids"}, {},
        [n3 |-> Index("investigate_transactions", Same({"txids"}))]),
     analyze_contract |-> NetworkTool({"contractHash"}, {},
        [n3 |-> Index("analyze_contract", [hash |-> "contractHash"])]),
     inspect_contract_code |-> NetworkTool({"contractHash"}, Paged,
        [n3 |-> Index("inspect_contract_code", [hash |-> "contractHash", offset |-> "skip", limit |-> "limit"])])]

ExplorerTools ==
    [analyze_contract_upgrades |-> NetworkTool({"contractHash"}, {},
        [n3 |-> Index("analyze_contract_upgrades", [hash |-> "contractHash"])]),
     get_contract_source_verification |-> NetworkTool({"contractHash"}, {},
        [n3 |-> Index("get_contract_source_verification", [hash |-> "contractHash"])]),
     explorer_list_address_transactions |-> NetworkTool({"address"}, Paged,
        [n3   |-> Direct("n3_list_transactions_by_address", Same({"address"} \cup Paged)),
         neox |-> Prefixed("x_list_transactions_by_address", Same({"address"}))]),
     explorer_list_address_transfers |-> NetworkTool({"address"}, Paged,
        [n3   |-> Direct("n3_list_transfers_by_address", Same({"address"} \cup Paged)),
         neox |-> Prefixed("x_list_token_transfers", Same({"address"}))]),
     explorer_list_address_assets |-> NetworkTool({"address"}, Paged,
        [n3 |-> Direct("n3_assets_held_by_address", Same({"address"} \cup Paged))]),
     explorer_list_token_holders |-> NetworkTool({"contractHash"}, Paged,
        [n3   |-> Direct("n3_asset_holders", Same({"contractHash"} \cup Paged)),
         neox |-> Prefixed("x_token_holders", [address |-> "contractHash"])])]

SearchTools ==
    [explorer_search |-> NetworkTool({"q"}, {},
        [n3   |-> Route("query_indexer", FALSE, "drop", "search", Same({"q"})),
         neox |-> Prefixed("x_search", Same({"q"}))]),
     query_explorer |-> NetworkTool({"endpoint"}, {"params"},
        [n3   |-> Direct("query_indexer", [method |-> "endpoint", params |-> "params"]),
         neox |-> Prefixed("x_query", Same({"endpoint", "params"}))]),
     query_explorer_find |-> Tool({"collection"}, {"filter", "sort"} \cup Paged,
        [n3 |-> Pinned("query_indexer_find", Same({"collection", "filter", "sort"} \cup Paged))]),
     query_explorer_graphql |-> Tool({"query"}, {"variables"},
        [neox |-> Pinned("x_graphql", Same({"query", "variables"}))])]

PUBLIC_TOOLS ==
    MetaTools ++ NodeTools ++ ContractTools ++ N3NodeTools ++ N3TokenTools ++ ConstructTools
    ++ N3ConstructTools ++ AnalyzeTools ++ EvidenceTools ++ ExplorerTools ++ SearchTools

ChainsOf(tool) == DOMAIN PUBLIC_TOOLS[tool].routes \cap Chains
Schema(tool) == PUBLIC_TOOLS[tool].required \cup PUBLIC_TOOLS[tool].optional

-----------------------------------------------------------------------------

\* resolveChain(): none for the tools without one, the only one unless another was
\* asked for, and no default where there are two.
ResolveChain(tool, requested) ==
    IF ChainsOf(tool) = {} THEN "meta"
    ELSE IF requested \in ChainsOf(tool) THEN requested
    ELSE IF requested = "none" /\ ChainsOf(tool) # Chains THEN CHOOSE c \in ChainsOf(tool) : TRUE
    ELSE "refused"

\* The routes that have mainnet only, or no such option, refuse what they cannot serve.
Unserved(tool, chain, network, args) ==
    \/ tool = "get_contract_info" /\ chain = "neox"
          /\ (network = "testnet" \/ {"contract", "address"} \cap DOMAIN args = {})
    \/ tool = "explorer_search" /\ chain = "n3" /\ network = "testnet"
    \/ tool = "get_block" /\ chain = "neox" /\ "includeStateRoot" \in DOMAIN args

\* pick() and rename(): what is given goes on under its internal key.
Mapped(route, args) ==
    [key \in {k \in DOMAIN route.args : route.args[k] \in DOMAIN args} |-> args[route.args[key]]]

\* get_contract_info on Neo X takes the address from either argument.
MappedArgs(tool, chain, args) ==
    LET route == PUBLIC_TOOLS[tool].routes[chain]
    IN  IF tool = "get_contract_info" /\ chain = "neox"
        THEN [address |-> args[IF "address" \in DOMAIN args THEN "address" ELSE "contract"]]
        ELSE Mapped(route, args)

\* neoxNetwork(), passNetwork(): the network that the internal tool is told.
MappedNetwork(route, network) ==
    IF network = "none" \/ route.network = "drop" THEN "none"
    ELSE IF route.network = "pass" THEN network
    ELSE IF network = "mainnet" THEN "neox-mainnet" ELSE "neox-testnet"
===============================================================================
