----------------------------- MODULE ToolHandlers -----------------------------
(***************************************************************************)
(* The internal tools, that is the dispatch tables of src/src/handlers/:   *)
(* what each handler must be given, of what it takes one, and what it      *)
(* reads besides.                                                          *)
(***************************************************************************)
EXTENDS ToolRegistry

Handler(needs, oneOf, others) == [needs |-> needs, oneOf |-> oneOf, others |-> others]
Reference == {"scriptHash", "contract", "contractReference", "contractName", "nameOrHash"}

ReadHandlers ==
    [get_blockchain_info |-> Handler({}, {}, {}), get_block_count |-> Handler({}, {}, {}),
     get_block           |-> Handler({"hashOrHeight"}, {}, {"includeStateRoot"}),
     get_transaction     |-> Handler({"txid"}, {}, {}), get_application_log |-> Handler({"txid"}, {}, {}),
     n3_node_get_transaction_status |-> Handler({"hash"}, {}, {}),
     wait_for_transaction |-> Handler({"txid"}, {}, {"timeoutMs", "pollIntervalMs", "includeApplicationLog"})]

AccountHandlers ==
    LET window == {"fromTimestampMs", "toTimestampMs"} IN
    [get_unclaimed_gas   |-> Handler({"address"}, {}, {}), get_balance |-> Handler({"address"}, {}, {}),
     get_nep17_transfers |-> Handler({"address"}, {}, window), get_nep11_balances |-> Handler({"address"}, {}, {}),
     get_nep11_transfers |-> Handler({"address"}, {}, window)]

ContractHandlers ==
    [invoke_contract     |-> Handler({"operation"}, Reference, {"args"}),
     estimate_transfer_fees |-> Handler({"fromAddress", "toAddress", "asset", "amount"}, {}, {}),
     estimate_invoke_fees |-> Handler({"signerAddress", "operation"}, Reference, {"args"}),
     list_famous_contracts |-> Handler({}, {}, {}),
     get_contract_info   |-> Handler({}, Reference \ {"scriptHash"}, {}),
     get_contract_status |-> Handler({}, Reference \ {"scriptHash"}, {})]

NEOX_NODE_TOOLS ==
    [x_node_get_chain_info |-> Handler({}, {}, {}), x_node_get_block_height |-> Handler({}, {}, {}),
     x_node_get_block       |-> Handler({}, {"blockHashOrHeight", "hashOrHeight"}, {"includeTransactions"}),
     x_node_get_transaction |-> Handler({"hash"}, {}, {}), x_node_get_balance |-> Handler({"address"}, {}, {}),
     x_node_get_transaction_status |-> Handler({"hash"}, {}, {}),
     x_node_call_contract   |-> Handler({"contract"}, {"data", "functionSignature"}, {"args", "from"})]

N3_PROPOSAL_TOOLS ==
    [n3_test_invoke    |-> Handler({"scriptHash", "operation"}, {}, {"args", "signers"}),
     n3_build_transfer |-> Handler({"from", "to", "asset", "amount"}, {}, {"decimals"}),
     n3_build_invoke   |-> Handler({"scriptHash", "operation", "from"}, {}, {"args", "signers"}),
     n3_build_vote     |-> Handler({"from"}, {}, {"candidate"}),
     n3_build_nns_operation |-> Handler({"from", "domain", "action"}, {}, {"years", "recordType", "data", "to"})]

NEOX_PROPOSAL_TOOLS ==
    [x_simulate_call  |-> Handler({"to"}, {}, {"from", "data", "value"}),
     x_build_transfer |-> Handler({"from", "to", "amountWei"}, {}, {}),
     x_build_contract_call |-> Handler({"from", "to"}, {"data", "functionSignature"}, {"args", "valueWei"})]

ECOSYSTEM_N3_TOOLS ==
    [query_nns |-> Handler({"domain"}, {}, {"recordType"}), get_oracle_info |-> Handler({}, {}, {})]
ECOSYSTEM_META_TOOLS ==
    [get_neo_service_info |-> Handler({"service"}, {}, {}),
     query_neofs |-> Handler({"operation"}, {}, {"containerId", "objectId", "address"})]
NEO_DATA_TOOLS ==
    [inspect_neo_value |-> Handler({"value"}, {}, {}),
     convert_neo_data  |-> Handler({"value", "outputFormat"}, {}, {"inputFormat"}),
     decode_neo_script |-> Handler({"script"}, {}, {"inputFormat"})]
LocalTools == [get_network_mode |-> Handler({}, {}, {}), get_wallet |-> Handler({"address"}, {}, {})]

\* The wrappers of the N3 index: the endpoint of each, and under which of its keys an
\* argument goes there; a key is there even if its argument is not.
N3_INDEXER_TOOLS ==
    [n3_get_address |-> [endpoint |-> "get_address_summary", args |-> [address |-> "address"]],
     n3_list_transactions_by_address |-> [endpoint |-> "list_address_transactions",
         args |-> [address |-> "address", limit |-> "limit", offset |-> "skip"]],
     n3_list_transfers_by_address |-> [endpoint |-> "list_address_transfers",
         args |-> [address |-> "address", limit |-> "limit", offset |-> "skip"]],
     n3_asset_holders |-> [endpoint |-> "list_token_holders",
         args |-> [hash |-> "contractHash", limit |-> "limit", offset |-> "skip"]],
     n3_assets_held_by_address |-> [endpoint |-> "list_address_balances",
         args |-> [address |-> "address", limit |-> "limit", offset |-> "skip"]]]

\* The wrappers of the Neo X explorer build their paths themselves.
NEOX_TOOLS ==
    [x_search |-> Handler({"q"}, {}, {}), x_get_address |-> Handler({"address"}, {}, {}),
     x_list_transactions_by_address |-> Handler({"address"}, {}, {}),
     x_list_token_transfers |-> Handler({"address"}, {}, {}), x_token_holders |-> Handler({"address"}, {}, {})]

Handlers == ReadHandlers ++ AccountHandlers ++ ContractHandlers ++ NEOX_NODE_TOOLS ++ N3_PROPOSAL_TOOLS
            ++ NEOX_PROPOSAL_TOOLS ++ ECOSYSTEM_N3_TOOLS ++ ECOSYSTEM_META_TOOLS ++ NEO_DATA_TOOLS
            ++ LocalTools ++ NEOX_TOOLS

Reads(handler) == handler.needs \cup handler.oneOf \cup handler.others
Supplied(handler, args) ==
    /\ handler.needs \subseteq DOMAIN args
    /\ handler.oneOf # {} => handler.oneOf \cap DOMAIN args # {}
===============================================================================
