-------------------------- MODULE ToolDispatchProofs --------------------------
(***************************************************************************)
(* Proofs about ToolDispatch as a part of ServerParts: every call of every *)
(* tool that the registry offers is served, whatever its arguments, its    *)
(* network and the switches are.                                           *)
(***************************************************************************)
EXTENDS ServerParts, TLAPS

-----------------------------------------------------------------------------
(* The registry.  Each of its tools, table by table, has routes of a few   *)
(* kinds; what a kind of route asks of the handlers and the catalogs is    *)
(* looked up once, and a call over a route of that kind is then served     *)
(* whatever its arguments, its network and the switches are.               *)

\* Arguments that go by their own names.
LEMMA Keyed ==
    \A keys : DOMAIN Dispatch!Same(keys) = keys /\ \A k \in keys : Dispatch!Same(keys)[k] = k
  BY DEF Dispatch!Same

\* The names of the internal tools, table by table; no two tables have one in common.
ReadNames == {"get_blockchain_info", "get_block_count", "get_block", "get_transaction", "get_application_log",
              "n3_node_get_transaction_status", "wait_for_transaction"}
AccountNames == {"get_unclaimed_gas", "get_balance", "get_nep17_transfers", "get_nep11_balances",
                 "get_nep11_transfers"}
ContractToolNames == {"invoke_contract", "estimate_transfer_fees", "estimate_invoke_fees",
                      "list_famous_contracts", "get_contract_info", "get_contract_status"}
XNodeNames == {"x_node_get_chain_info", "x_node_get_block_height", "x_node_get_block", "x_node_get_transaction",
               "x_node_get_balance", "x_node_get_transaction_status", "x_node_call_contract"}
N3ProposalNames == {"n3_test_invoke", "n3_build_transfer", "n3_build_invoke", "n3_build_vote",
                    "n3_build_nns_operation"}
XProposalNames == {"x_simulate_call", "x_build_transfer", "x_build_contract_call"}
EcosystemNames == {"query_nns", "get_oracle_info"}
MetaNames == {"get_neo_service_info", "query_neofs"}
DataNames == {"inspect_neo_value", "convert_neo_data", "decode_neo_script"}
LocalNames == {"get_network_mode", "get_wallet"}
WrapperNames == {"n3_get_address", "n3_list_transactions_by_address", "n3_list_transfers_by_address",
                 "n3_asset_holders", "n3_assets_held_by_address"}
XWrapperNames == {"x_search", "x_get_address", "x_list_transactions_by_address", "x_list_token_transfers",
                  "x_token_holders"}

\* They are the names of the tables.
LEMMA InternalNames ==
    /\ DOMAIN Dispatch!ReadHandlers = ReadNames /\ DOMAIN Dispatch!AccountHandlers = AccountNames
    /\ DOMAIN Dispatch!ContractHandlers = ContractToolNames /\ DOMAIN Dispatch!NEOX_NODE_TOOLS = XNodeNames
    /\ DOMAIN Dispatch!N3_PROPOSAL_TOOLS = N3ProposalNames /\ DOMAIN Dispatch!NEOX_PROPOSAL_TOOLS = XProposalNames
    /\ DOMAIN Dispatch!ECOSYSTEM_N3_TOOLS = EcosystemNames
    /\ DOMAIN Dispatch!ECOSYSTEM_META_TOOLS = MetaNames
    /\ DOMAIN Dispatch!NEO_DATA_TOOLS = DataNames /\ DOMAIN Dispatch!LocalTools = LocalNames
    /\ DOMAIN Dispatch!N3_INDEXER_TOOLS = WrapperNames /\ DOMAIN Dispatch!NEOX_TOOLS = XWrapperNames
  <1>1. DOMAIN Dispatch!ReadHandlers = ReadNames
    BY DEF Dispatch!ReadHandlers, ReadNames
  <1>2. DOMAIN Dispatch!AccountHandlers = AccountNames
    BY DEF Dispatch!AccountHandlers, AccountNames
  <1>3. DOMAIN Dispatch!ContractHandlers = ContractToolNames
    BY DEF Dispatch!ContractHandlers, ContractToolNames
  <1>4. DOMAIN Dispatch!NEOX_NODE_TOOLS = XNodeNames
    BY DEF Dispatch!NEOX_NODE_TOOLS, XNodeNames
  <1>5. DOMAIN Dispatch!N3_PROPOSAL_TOOLS = N3ProposalNames
    BY DEF Dispatch!N3_PROPOSAL_TOOLS, N3ProposalNames
  <1>6. DOMAIN Dispatch!NEOX_PROPOSAL_TOOLS = XProposalNames
    BY DEF Dispatch!NEOX_PROPOSAL_TOOLS, XProposalNames
  <1>7. DOMAIN Dispatch!ECOSYSTEM_N3_TOOLS = EcosystemNames
    BY DEF Dispatch!ECOSYSTEM_N3_TOOLS, EcosystemNames
  <1>8. DOMAIN Dispatch!ECOSYSTEM_META_TOOLS = MetaNames
    BY DEF MetaNames, Dispatch!ECOSYSTEM_META_TOOLS
  <1>9. DOMAIN Dispatch!NEO_DATA_TOOLS = DataNames
    BY DEF Dispatch!NEO_DATA_TOOLS, DataNames
  <1>10. DOMAIN Dispatch!LocalTools = LocalNames
    BY DEF Dispatch!LocalTools, LocalNames
  <1>11. DOMAIN Dispatch!N3_INDEXER_TOOLS = WrapperNames
    BY DEF Dispatch!N3_INDEXER_TOOLS, WrapperNames
  <1>12. DOMAIN Dispatch!NEOX_TOOLS = XWrapperNames
    BY DEF Dispatch!NEOX_TOOLS, XWrapperNames
  <1> QED
    BY <1>1, <1>2, <1>3, <1>4, <1>5, <1>6, <1>7, <1>8, <1>9, <1>10, <1>11, <1>12

\* A table agrees with a part of it.
Within(table, whole) == \A x \in DOMAIN table : x \in DOMAIN whole /\ whole[x] = table[x]

LEMMA AppendedTables ==
    ASSUME NEW f, NEW g, \A x \in DOMAIN g : x \notin DOMAIN f
    PROVE  /\ DOMAIN Dispatch!++(f, g) = DOMAIN f \cup DOMAIN g
           /\ Within(f, Dispatch!++(f, g)) /\ Within(g, Dispatch!++(f, g))
  <1> DEFINE whole == Dispatch!++(f, g)
  <1>1. /\ DOMAIN whole = DOMAIN f \cup DOMAIN g
        /\ \A x \in DOMAIN f : whole[x] = f[x]
        /\ \A x \in DOMAIN g : x \notin DOMAIN f => whole[x] = g[x]
    BY DEF Dispatch!++
  <1> HIDE DEF whole
  <1>2. Within(f, whole) /\ Within(g, whole)
    BY <1>1 DEF Within
  <1> QED
    BY ONLY <1>1, <1>2 DEF whole

LEMMA WithinIsTransitive == \A f, g, h : Within(f, g) /\ Within(g, h) => Within(f, h)
  BY DEF Within

\* The endpoints of the two catalogs, table by table.
IndexListNames == {"network_summary", "network_status", "list_blocks", "list_transactions", "list_tokens",
                   "list_contracts", "analytics_daily", "list_candidate_voters", "list_validators",
                   "search", "analyze_consensus_health"}
IndexLabelNames == {"list_nns_domains", "list_address_labels", "list_contract_labels"}
IndexTransactionNames == {"get_block", "get_transaction", "analyze_transaction", "investigate_transactions"}
IndexAccountNames == {"get_address_summary", "analyze_address", "analyze_account_graph",
                      "analyze_address_connection", "list_address_balances", "list_address_transactions",
                      "list_address_transfers"}
IndexContractNames == {"get_token", "get_contract", "analyze_contract", "analyze_contract_upgrades",
                       "get_contract_source_verification", "list_token_holders", "inspect_contract_code",
                       "list_contract_calls", "list_contract_notifications", "list_contract_events"}
ExplorerListNames == {"list_blocks", "list_token_transfers", "list_internal_transactions", "list_withdrawals",
                      "stats", "main_page_transactions", "main_page_blocks", "list_transactions",
                      "list_tokens", "list_smart_contracts", "search"}
ExplorerAddressNames == {"get_address", "get_address_counters", "list_address_internal_transactions",
                         "list_address_logs", "list_address_token_balances", "list_address_withdrawals",
                         "get_token", "get_token_counters", "list_token_holders", "list_token_transfers_of",
                         "list_token_instances", "get_smart_contract", "list_address_transactions",
                         "list_address_token_transfers"}
ExplorerTransactionNames == {"get_transaction", "get_transaction_logs", "get_transaction_internal_transactions",
                             "get_transaction_token_transfers", "get_transaction_state_changes", "get_block",
                             "list_block_transactions", "list_block_withdrawals"}

LEMMA N3ListsParts ==
    /\ DOMAIN Dispatch!N3Lists = IndexListNames
    /\ Dispatch!N3Lists["search"] = Dispatch!Endpoint("none", {"q"}, {"q"})
    /\ Dispatch!N3Lists["analyze_consensus_health"] = Dispatch!Endpoint("none", {"lookback",
          "streak_threshold", "duration_threshold_s", "max_data_age_s", "max_clock_skew_s"}, {})
  <1> DEFINE t1 == Dispatch!Endpoints({"network_summary", "network_status"}, "none", {})
             p2 == Dispatch!Endpoints({"list_blocks", "list_transactions", "list_tokens",
                 "list_contracts", "analytics_daily"}, "none", {"limit", "offset"})
             p3 == Dispatch!Entry("list_candidate_voters", Dispatch!Endpoint("none", {"limit", "offset",
                 "candidate"}, {"candidate"}))
             p4 == Dispatch!Entry("list_validators", Dispatch!Endpoint("none", {"limit"}, {}))
             p5 == Dispatch!Entry("search", Dispatch!Endpoint("none", {"q"}, {"q"}))
             p6 == Dispatch!Entry("analyze_consensus_health", Dispatch!Endpoint("none", {"lookback",
                 "streak_threshold", "duration_threshold_s", "max_data_age_s", "max_clock_skew_s"}, {}))
             t2 == Dispatch!++(t1, p2)
             t3 == Dispatch!++(t2, p3)
             t4 == Dispatch!++(t3, p4)
             t5 == Dispatch!++(t4, p5)
             t6 == Dispatch!++(t5, p6)
  <1>1. /\ DOMAIN t1 = {"network_summary", "network_status"}
        /\ DOMAIN p2 = {"list_blocks", "list_transactions", "list_tokens", "list_contracts", "analytics_daily"}
        /\ DOMAIN p3 = {"list_candidate_voters"}
        /\ DOMAIN p4 = {"list_validators"}
        /\ DOMAIN p5 = {"search"}
        /\ DOMAIN p6 = {"analyze_consensus_health"}
    BY DEF Dispatch!Endpoints, Dispatch!Entry
  <1>2. /\ \A e \in DOMAIN p5 : p5[e] = Dispatch!Endpoint("none", {"q"}, {"q"})
        /\ \A e \in DOMAIN p6 : p6[e] = Dispatch!Endpoint("none", {"lookback", "streak_threshold",
              "duration_threshold_s", "max_data_age_s", "max_clock_skew_s"}, {})
    BY DEF Dispatch!Endpoints, Dispatch!Entry
  <1>3. Dispatch!N3Lists = t6
    BY DEF Dispatch!N3Lists, Dispatch!NoPath, Dispatch!pagination
  <1> HIDE DEF t1, p2, p3, p4, p5, p6
  <1>4. /\ DOMAIN t2 = {"network_summary", "network_status", "list_blocks", "list_transactions",
                      "list_tokens", "list_contracts", "analytics_daily"}
        /\ Within(t1, t2) /\ Within(p2, t2)
    <2>1. \A e \in DOMAIN p2 : e \notin DOMAIN t1
      BY <1>1
    <2>2. DOMAIN t2 = DOMAIN t1 \cup DOMAIN p2 /\ Within(t1, t2) /\ Within(p2, t2)
      BY ONLY <2>1, AppendedTables
    <2> QED
      BY <1>1, <2>2
  <1> HIDE DEF t2
  <1>5. /\ DOMAIN t3 = {"network_summary", "network_status", "list_blocks", "list_transactions",
                      "list_tokens", "list_contracts", "analytics_daily", "list_candidate_voters"}
        /\ Within(t2, t3) /\ Within(p3, t3)
    <2>1. \A e \in DOMAIN p3 : e \notin DOMAIN t2
      BY <1>1, <1>4
    <2>2. DOMAIN t3 = DOMAIN t2 \cup DOMAIN p3 /\ Within(t2, t3) /\ Within(p3, t3)
      BY ONLY <2>1, AppendedTables
    <2> QED
      BY <1>1, <1>4, <2>2
  <1> HIDE DEF t3
  <1>6. /\ DOMAIN t4 = {"network_summary", "network_status", "list_blocks", "list_transactions",
                      "list_tokens", "list_contracts", "analytics_daily", "list_candidate_voters",
                      "list_validators"}
        /\ Within(t3, t4) /\ Within(p4, t4)
    <2>1. \A e \in DOMAIN p4 : e \notin DOMAIN t3
      BY <1>1, <1>5
    <2>2. DOMAIN t4 = DOMAIN t3 \cup DOMAIN p4 /\ Within(t3, t4) /\ Within(p4, t4)
      BY ONLY <2>1, AppendedTables
    <2> QED
      BY <1>1, <1>5, <2>2
  <1> HIDE DEF t4
  <1>7. /\ DOMAIN t5 = {"network_summary", "network_status", "list_blocks", "list_transactions",
                      "list_tokens", "list_contracts", "analytics_daily", "list_candidate_voters",
                      "list_validators", "search"}
        /\ Within(t4, t5) /\ Within(p5, t5)
    <2>1. \A e \in DOMAIN p5 : e \notin DOMAIN t4
      BY <1>1, <1>6
    <2>2. DOMAIN t5 = DOMAIN t4 \cup DOMAIN p5 /\ Within(t4, t5) /\ Within(p5, t5)
      BY ONLY <2>1, AppendedTables
    <2> QED
      BY <1>1, <1>6, <2>2
  <1> HIDE DEF t5
  <1>8. /\ DOMAIN t6 = IndexListNames
        /\ Within(t5, t6) /\ Within(p6, t6)
    <2>1. \A e \in DOMAIN p6 : e \notin DOMAIN t5
      BY <1>1, <1>7
    <2>2. DOMAIN t6 = DOMAIN t5 \cup DOMAIN p6 /\ Within(t5, t6) /\ Within(p6, t6)
      BY ONLY <2>1, AppendedTables
    <2> QED
      BY <1>1, <1>7, <2>2 DEF IndexListNames
  <1> HIDE DEF t6
  <1> QED
    BY <1>1, <1>2, <1>3, <1>4, <1>5, <1>6, <1>7, <1>8 DEF Within

LEMMA N3NamesParts ==
    /\ DOMAIN Dispatch!N3Names = IndexLabelNames
  <1> DEFINE t1 == Dispatch!Endpoints({"list_nns_domains"}, "none", {"limit", "offset"})
             p2 == Dispatch!Entry("list_address_labels", Dispatch!Endpoint("none", {"limit",
                 "addresses"}, {}))
             p3 == Dispatch!Entry("list_contract_labels", Dispatch!Endpoint("none", {"limit", "hashes"},
                 {}))
             t2 == Dispatch!++(t1, p2)
             t3 == Dispatch!++(t2, p3)
  <1>1. /\ DOMAIN t1 = {"list_nns_domains"}
        /\ DOMAIN p2 = {"list_address_labels"}
        /\ DOMAIN p3 = {"list_contract_labels"}
    BY DEF Dispatch!Endpoints, Dispatch!Entry
  <1>2. Dispatch!N3Names = t3
    BY DEF Dispatch!N3Names, Dispatch!NoPath, Dispatch!pagination
  <1> HIDE DEF t1, p2, p3
  <1>3. /\ DOMAIN t2 = {"list_nns_domains", "list_address_labels"}
        /\ Within(t1, t2) /\ Within(p2, t2)
    <2>1. \A e \in DOMAIN p2 : e \notin DOMAIN t1
      BY <1>1
    <2>2. DOMAIN t2 = DOMAIN t1 \cup DOMAIN p2 /\ Within(t1, t2) /\ Within(p2, t2)
      BY ONLY <2>1, AppendedTables
    <2> QED
      BY <1>1, <2>2
  <1> HIDE DEF t2
  <1>4. /\ DOMAIN t3 = IndexLabelNames
        /\ Within(t2, t3) /\ Within(p3, t3)
    <2>1. \A e \in DOMAIN p3 : e \notin DOMAIN t2
      BY <1>1, <1>3
    <2>2. DOMAIN t3 = DOMAIN t2 \cup DOMAIN p3 /\ Within(t2, t3) /\ Within(p3, t3)
      BY ONLY <2>1, AppendedTables
    <2> QED
      BY <1>1, <1>3, <2>2 DEF IndexLabelNames
  <1> HIDE DEF t3
  <1> QED
    BY <1>2, <1>4

LEMMA N3TransactionsParts ==
    /\ DOMAIN Dispatch!N3Transactions = IndexTransactionNames
    /\ \A e \in {"get_transaction", "analyze_transaction"} : Dispatch!N3Transactions[e] =
          Dispatch!Endpoint("txid", {}, {})
    /\ Dispatch!N3Transactions["investigate_transactions"] = Dispatch!Endpoint("none", {"txids"},
          {"txids"})
  <1> DEFINE t1 == Dispatch!Endpoints({"get_block"}, "blockRef", {})
             p2 == Dispatch!Endpoints({"get_transaction", "analyze_transaction"}, "txid", {})
             p3 == Dispatch!Entry("investigate_transactions", Dispatch!Endpoint("none", {"txids"},
                 {"txids"}))
             t2 == Dispatch!++(t1, p2)
             t3 == Dispatch!++(t2, p3)
  <1>1. /\ DOMAIN t1 = {"get_block"}
        /\ DOMAIN p2 = {"get_transaction", "analyze_transaction"}
        /\ DOMAIN p3 = {"investigate_transactions"}
    BY DEF Dispatch!Endpoints, Dispatch!Entry
  <1>2. /\ \A e \in DOMAIN p2 : p2[e] = Dispatch!Endpoint("txid", {}, {})
        /\ \A e \in DOMAIN p3 : p3[e] = Dispatch!Endpoint("none", {"txids"}, {"txids"})
    BY DEF Dispatch!Endpoints, Dispatch!Entry
  <1>3. Dispatch!N3Transactions = t3
    BY DEF Dispatch!N3Transactions, Dispatch!NoPath, Dispatch!pagination
  <1> HIDE DEF t1, p2, p3
  <1>4. /\ DOMAIN t2 = {"get_block", "get_transaction", "analyze_transaction"}
        /\ Within(t1, t2) /\ Within(p2, t2)
    <2>1. \A e \in DOMAIN p2 : e \notin DOMAIN t1
      BY <1>1
    <2>2. DOMAIN t2 = DOMAIN t1 \cup DOMAIN p2 /\ Within(t1, t2) /\ Within(p2, t2)
      BY ONLY <2>1, AppendedTables
    <2> QED
      BY <1>1, <2>2
  <1> HIDE DEF t2
  <1>5. /\ DOMAIN t3 = IndexTransactionNames
        /\ Within(t2, t3) /\ Within(p3, t3)
    <2>1. \A e \in DOMAIN p3 : e \notin DOMAIN t2
      BY <1>1, <1>4
    <2>2. DOMAIN t3 = DOMAIN t2 \cup DOMAIN p3 /\ Within(t2, t3) /\ Within(p3, t3)
      BY ONLY <2>1, AppendedTables
    <2> QED
      BY <1>1, <1>4, <2>2 DEF IndexTransactionNames
  <1> HIDE DEF t3
  <1> QED
    BY <1>1, <1>2, <1>3, <1>4, <1>5 DEF Within

LEMMA N3AccountsParts ==
    /\ DOMAIN Dispatch!N3Accounts = IndexAccountNames
    /\ Dispatch!N3Accounts["get_address_summary"] = Dispatch!Endpoint("address", {}, {})
    /\ Dispatch!N3Accounts["analyze_address"] = Dispatch!Endpoint("address", {"sample", "limit"}, {})
    /\ Dispatch!N3Accounts["analyze_account_graph"] = Dispatch!Endpoint("address", {"limit"}, {})
    /\ Dispatch!N3Accounts["analyze_address_connection"] = Dispatch!Endpoint("address", {"target",
          "sample", "limit"}, {"target"})
    /\ \A e \in {"list_address_balances", "list_address_transactions", "list_address_transfers"} :
          Dispatch!N3Accounts[e] = Dispatch!Endpoint("address", {"limit", "offset"}, {})
  <1> DEFINE t1 == Dispatch!Endpoints({"get_address_summary"}, "address", {})
             p2 == Dispatch!Entry("analyze_address", Dispatch!Endpoint("address", {"sample", "limit"},
                 {}))
             p3 == Dispatch!Entry("analyze_account_graph", Dispatch!Endpoint("address", {"limit"}, {}))
             p4 == Dispatch!Entry("analyze_address_connection", Dispatch!Endpoint("address", {"target",
                 "sample", "limit"}, {"target"}))
             p5 == Dispatch!Endpoints({"list_address_balances", "list_address_transactions",
                 "list_address_transfers"}, "address", {"limit", "offset"})
             t2 == Dispatch!++(t1, p2)
             t3 == Dispatch!++(t2, p3)
             t4 == Dispatch!++(t3, p4)
             t5 == Dispatch!++(t4, p5)
  <1>1. /\ DOMAIN t1 = {"get_address_summary"}
        /\ DOMAIN p2 = {"analyze_address"}
        /\ DOMAIN p3 = {"analyze_account_graph"}
        /\ DOMAIN p4 = {"analyze_address_connection"}
        /\ DOMAIN p5 = {"list_address_balances", "list_address_transactions", "list_address_transfers"}
    BY DEF Dispatch!Endpoints, Dispatch!Entry
  <1>2. /\ \A e \in DOMAIN t1 : t1[e] = Dispatch!Endpoint("address", {}, {})
        /\ \A e \in DOMAIN p2 : p2[e] = Dispatch!Endpoint("address", {"sample", "limit"}, {})
        /\ \A e \in DOMAIN p3 : p3[e] = Dispatch!Endpoint("address", {"limit"}, {})
        /\ \A e \in DOMAIN p4 : p4[e] = Dispatch!Endpoint("address", {"target", "sample", "limit"}, {"target"})
        /\ \A e \in DOMAIN p5 : p5[e] = Dispatch!Endpoint("address", {"limit", "offset"}, {})
    BY DEF Dispatch!Endpoints, Dispatch!Entry
  <1>3. Dispatch!N3Accounts = t5
    BY DEF Dispatch!N3Accounts, Dispatch!NoPath, Dispatch!pagination
  <1> HIDE DEF t1, p2, p3, p4, p5
  <1>4. /\ DOMAIN t2 = {"get_address_summary", "analyze_address"}
        /\ Within(t1, t2) /\ Within(p2, t2)
    <2>1. \A e \in DOMAIN p2 : e \notin DOMAIN t1
      BY <1>1
    <2>2. DOMAIN t2 = DOMAIN t1 \cup DOMAIN p2 /\ Within(t1, t2) /\ Within(p2, t2)
      BY ONLY <2>1, AppendedTables
    <2> QED
      BY <1>1, <2>2
  <1> HIDE DEF t2
  <1>5. /\ DOMAIN t3 = {"get_address_summary", "analyze_address", "analyze_account_graph"}
        /\ Within(t2, t3) /\ Within(p3, t3)
    <2>1. \A e \in DOMAIN p3 : e \notin DOMAIN t2
      BY <1>1, <1>4
    <2>2. DOMAIN t3 = DOMAIN t2 \cup DOMAIN p3 /\ Within(t2, t3) /\ Within(p3, t3)
      BY ONLY <2>1, AppendedTables
    <2> QED
      BY <1>1, <1>4, <2>2
  <1> HIDE DEF t3
  <1>6. /\ DOMAIN t4 = {"get_address_summary", "analyze_address", "analyze_account_graph",
                      "analyze_address_connection"}
        /\ Within(t3, t4) /\ Within(p4, t4)
    <2>1. \A e \in DOMAIN p4 : e \notin DOMAIN t3
      BY <1>1, <1>5
    <2>2. DOMAIN t4 = DOMAIN t3 \cup DOMAIN p4 /\ Within(t3, t4) /\ Within(p4, t4)
      BY ONLY <2>1, AppendedTables
    <2> QED
      BY <1>1, <1>5, <2>2
  <1> HIDE DEF t4
  <1>7. /\ DOMAIN t5 = IndexAccountNames
        /\ Within(t4, t5) /\ Within(p5, t5)
    <2>1. \A e \in DOMAIN p5 : e \notin DOMAIN t4
      BY <1>1, <1>6
    <2>2. DOMAIN t5 = DOMAIN t4 \cup DOMAIN p5 /\ Within(t4, t5) /\ Within(p5, t5)
      BY ONLY <2>1, AppendedTables
    <2> QED
      BY <1>1, <1>6, <2>2 DEF IndexAccountNames
  <1> HIDE DEF t5
  <1> QED
    BY <1>1, <1>2, <1>3, <1>4, <1>5, <1>6, <1>7 DEF Within

LEMMA N3ContractsParts ==
    /\ DOMAIN Dispatch!N3Contracts = IndexContractNames
    /\ \A e \in {"get_token", "get_contract", "analyze_contract", "analyze_contract_upgrades",
          "get_contract_source_verification"} : Dispatch!N3Contracts[e] = Dispatch!Endpoint("hash", {},
          {})
    /\ \A e \in {"list_token_holders", "inspect_contract_code", "list_contract_calls",
          "list_contract_notifications"} : Dispatch!N3Contracts[e] = Dispatch!Endpoint("hash", {"limit",
          "offset"}, {})
  <1> DEFINE t1 == Dispatch!Endpoints({"get_token", "get_contract", "analyze_contract",
                 "analyze_contract_upgrades", "get_contract_source_verification"}, "hash", {})
             p2 == Dispatch!Endpoints({"list_token_holders", "inspect_contract_code",
                 "list_contract_calls", "list_contract_notifications"}, "hash", {"limit", "offset"})
             p3 == Dispatch!Entry("list_contract_events", Dispatch!Endpoint("hash", {"limit", "offset",
                 "event_name", "tx_hash", "block_height"}, {}))
             t2 == Dispatch!++(t1, p2)
             t3 == Dispatch!++(t2, p3)
  <1>1. /\ DOMAIN t1 = {"get_token", "get_contract", "analyze_contract", "analyze_contract_upgrades", "get_contract_source_verification"}
        /\ DOMAIN p2 = {"list_token_holders", "inspect_contract_code", "list_contract_calls", "list_contract_notifications"}
        /\ DOMAIN p3 = {"list_contract_events"}
    BY DEF Dispatch!Endpoints, Dispatch!Entry
  <1>2. /\ \A e \in DOMAIN t1 : t1[e] = Dispatch!Endpoint("hash", {}, {})
        /\ \A e \in DOMAIN p2 : p2[e] = Dispatch!Endpoint("hash", {"limit", "offset"}, {})
    BY DEF Dispatch!Endpoints, Dispatch!Entry
  <1>3. Dispatch!N3Contracts = t3
    BY DEF Dispatch!N3Contracts, Dispatch!NoPath, Dispatch!pagination
  <1> HIDE DEF t1, p2, p3
  <1>4. /\ DOMAIN t2 = {"get_token", "get_contract", "analyze_contract", "analyze_contract_upgrades",
                      "get_contract_source_verification", "list_token_holders", "inspect_contract_code",
                      "list_contract_calls", "list_contract_notifications"}
        /\ Within(t1, t2) /\ Within(p2, t2)
    <2>1. \A e \in DOMAIN p2 : e \notin DOMAIN t1
      BY <1>1
    <2>2. DOMAIN t2 = DOMAIN t1 \cup DOMAIN p2 /\ Within(t1, t2) /\ Within(p2, t2)
      BY ONLY <2>1, AppendedTables
    <2> QED
      BY <1>1, <2>2
  <1> HIDE DEF t2
  <1>5. /\ DOMAIN t3 = IndexContractNames
        /\ Within(t2, t3) /\ Within(p3, t3)
    <2>1. \A e \in DOMAIN p3 : e \notin DOMAIN t2
      BY <1>1, <1>4
    <2>2. DOMAIN t3 = DOMAIN t2 \cup DOMAIN p3 /\ Within(t2, t3) /\ Within(p3, t3)
      BY ONLY <2>1, AppendedTables
    <2> QED
      BY <1>1, <1>4, <2>2 DEF IndexContractNames
  <1> HIDE DEF t3
  <1> QED
    BY <1>1, <1>2, <1>3, <1>4, <1>5 DEF Within

LEMMA XListsParts ==
    /\ DOMAIN Dispatch!XLists = ExplorerListNames
  <1> DEFINE t1 == Dispatch!Endpoints({"list_blocks", "list_token_transfers",
                 "list_internal_transactions", "list_withdrawals", "stats", "main_page_transactions",
                 "main_page_blocks"}, "none", {})
             p2 == Dispatch!Entry("list_transactions", Dispatch!Endpoint("none", {"filter"}, {}))
             p3 == Dispatch!Entry("list_tokens", Dispatch!Endpoint("none", {"q", "type"}, {}))
             p4 == Dispatch!Entry("list_smart_contracts", Dispatch!Endpoint("none", {"q"}, {}))
             p5 == Dispatch!Entry("search", Dispatch!Endpoint("none", {"q"}, {"q"}))
             t2 == Dispatch!++(t1, p2)
             t3 == Dispatch!++(t2, p3)
             t4 == Dispatch!++(t3, p4)
             t5 == Dispatch!++(t4, p5)
  <1>1. /\ DOMAIN t1 = {"list_blocks", "list_token_transfers", "list_internal_transactions", "list_withdrawals", "stats", "main_page_transactions", "main_page_blocks"}
        /\ DOMAIN p2 = {"list_transactions"}
        /\ DOMAIN p3 = {"list_tokens"}
        /\ DOMAIN p4 = {"list_smart_contracts"}
        /\ DOMAIN p5 = {"search"}
    BY DEF Dispatch!Endpoints, Dispatch!Entry
  <1>2. Dispatch!XLists = t5
    BY DEF Dispatch!XLists, Dispatch!NoPath, Dispatch!pagination
  <1> HIDE DEF t1, p2, p3, p4, p5
  <1>3. /\ DOMAIN t2 = {"list_blocks", "list_token_transfers", "list_internal_transactions",
                      "list_withdrawals", "stats", "main_page_transactions", "main_page_blocks",
                      "list_transactions"}
        /\ Within(t1, t2) /\ Within(p2, t2)
    <2>1. \A e \in DOMAIN p2 : e \notin DOMAIN t1
      BY <1>1
    <2>2. DOMAIN t2 = DOMAIN t1 \cup DOMAIN p2 /\ Within(t1, t2) /\ Within(p2, t2)
      BY ONLY <2>1, AppendedTables
    <2> QED
      BY <1>1, <2>2
  <1> HIDE DEF t2
  <1>4. /\ DOMAIN t3 = {"list_blocks", "list_token_transfers", "list_internal_transactions",
                      "list_withdrawals", "stats", "main_page_transactions", "main_page_blocks",
                      "list_transactions", "list_tokens"}
        /\ Within(t2, t3) /\ Within(p3, t3)
    <2>1. \A e \in DOMAIN p3 : e \notin DOMAIN t2
      BY <1>1, <1>3
    <2>2. DOMAIN t3 = DOMAIN t2 \cup DOMAIN p3 /\ Within(t2, t3) /\ Within(p3, t3)
      BY ONLY <2>1, AppendedTables
    <2> QED
      BY <1>1, <1>3, <2>2
  <1> HIDE DEF t3
  <1>5. /\ DOMAIN t4 = {"list_blocks", "list_token_transfers", "list_internal_transactions",
                      "list_withdrawals", "stats", "main_page_transactions", "main_page_blocks",
                      "list_transactions", "list_tokens", "list_smart_contracts"}
        /\ Within(t3, t4) /\ Within(p4, t4)
    <2>1. \A e \in DOMAIN p4 : e \notin DOMAIN t3
      BY <1>1, <1>4
    <2>2. DOMAIN t4 = DOMAIN t3 \cup DOMAIN p4 /\ Within(t3, t4) /\ Within(p4, t4)
      BY ONLY <2>1, AppendedTables
    <2> QED
      BY <1>1, <1>4, <2>2
  <1> HIDE DEF t4
  <1>6. /\ DOMAIN t5 = ExplorerListNames
        /\ Within(t4, t5) /\ Within(p5, t5)
    <2>1. \A e \in DOMAIN p5 : e \notin DOMAIN t4
      BY <1>1, <1>5
    <2>2. DOMAIN t5 = DOMAIN t4 \cup DOMAIN p5 /\ Within(t4, t5) /\ Within(p5, t5)
      BY ONLY <2>1, AppendedTables
    <2> QED
      BY <1>1, <1>5, <2>2 DEF ExplorerListNames
  <1> HIDE DEF t5
  <1> QED
    BY <1>2, <1>6

LEMMA XAddressesParts ==
    /\ DOMAIN Dispatch!XAddresses = ExplorerAddressNames
    /\ \A e \in {"get_address", "get_address_counters", "list_address_internal_transactions",
          "list_address_logs", "list_address_token_balances", "list_address_withdrawals", "get_token",
          "get_token_counters", "list_token_holders", "list_token_transfers_of", "list_token_instances",
          "get_smart_contract"} : Dispatch!XAddresses[e] = Dispatch!Endpoint("address", {}, {})
  <1> DEFINE t1 == Dispatch!Endpoints({"get_address", "get_address_counters",
                 "list_address_internal_transactions", "list_address_logs",
                 "list_address_token_balances", "list_address_withdrawals", "get_token",
                 "get_token_counters", "list_token_holders", "list_token_transfers_of",
                 "list_token_instances", "get_smart_contract"}, "address", {})
             p2 == Dispatch!Entry("list_address_transactions", Dispatch!Endpoint("address", {"filter"},
                 {}))
             p3 == Dispatch!Entry("list_address_token_transfers", Dispatch!Endpoint("address", {"type"},
                 {}))
             t2 == Dispatch!++(t1, p2)
             t3 == Dispatch!++(t2, p3)
  <1>1. /\ DOMAIN t1 = {"get_address", "get_address_counters", "list_address_internal_transactions", "list_address_logs", "list_address_token_balances", "list_address_withdrawals", "get_token", "get_token_counters", "list_token_holders", "list_token_transfers_of", "list_token_instances", "get_smart_contract"}
        /\ DOMAIN p2 = {"list_address_transactions"}
        /\ DOMAIN p3 = {"list_address_token_transfers"}
    BY DEF Dispatch!Endpoints, Dispatch!Entry
  <1>2. /\ \A e \in DOMAIN t1 : t1[e] = Dispatch!Endpoint("address", {}, {})
    BY DEF Dispatch!Endpoints, Dispatch!Entry
  <1>3. Dispatch!XAddresses = t3
    BY DEF Dispatch!XAddresses, Dispatch!NoPath, Dispatch!pagination
  <1> HIDE DEF t1, p2, p3
  <1>4. /\ DOMAIN t2 = {"get_address", "get_address_counters", "list_address_internal_transactions",
                      "list_address_logs", "list_address_token_balances", "list_address_withdrawals",
                      "get_token", "get_token_counters", "list_token_holders",
                      "list_token_transfers_of", "list_token_instances", "get_smart_contract",
                      "list_address_transactions"}
        /\ Within(t1, t2) /\ Within(p2, t2)
    <2>1. \A e \in DOMAIN p2 : e \notin DOMAIN t1
      BY <1>1
    <2>2. DOMAIN t2 = DOMAIN t1 \cup DOMAIN p2 /\ Within(t1, t2) /\ Within(p2, t2)
      BY ONLY <2>1, AppendedTables
    <2> QED
      BY <1>1, <2>2
  <1> HIDE DEF t2
  <1>5. /\ DOMAIN t3 = ExplorerAddressNames
        /\ Within(t2, t3) /\ Within(p3, t3)
    <2>1. \A e \in DOMAIN p3 : e \notin DOMAIN t2
      BY <1>1, <1>4
    <2>2. DOMAIN t3 = DOMAIN t2 \cup DOMAIN p3 /\ Within(t2, t3) /\ Within(p3, t3)
      BY ONLY <2>1, AppendedTables
    <2> QED
      BY <1>1, <1>4, <2>2 DEF ExplorerAddressNames
  <1> HIDE DEF t3
  <1> QED
    BY <1>1, <1>2, <1>3, <1>4, <1>5 DEF Within

LEMMA XTransactionsParts ==
    /\ DOMAIN Dispatch!XTransactions = ExplorerTransactionNames
  <1> DEFINE t1 == Dispatch!Endpoints({"get_transaction", "get_transaction_logs",
                 "get_transaction_internal_transactions", "get_transaction_token_transfers",
                 "get_transaction_state_changes"}, "hash", {})
             p2 == Dispatch!Endpoints({"get_block", "list_block_transactions",
                 "list_block_withdrawals"}, "blockRef", {})
             t2 == Dispatch!++(t1, p2)
  <1>1. /\ DOMAIN t1 = {"get_transaction", "get_transaction_logs", "get_transaction_internal_transactions", "get_transaction_token_transfers", "get_transaction_state_changes"}
        /\ DOMAIN p2 = {"get_block", "list_block_transactions", "list_block_withdrawals"}
    BY DEF Dispatch!Endpoints, Dispatch!Entry
  <1>2. Dispatch!XTransactions = t2
    BY DEF Dispatch!XTransactions, Dispatch!NoPath, Dispatch!pagination
  <1> HIDE DEF t1, p2
  <1>3. /\ DOMAIN t2 = ExplorerTransactionNames
        /\ Within(t1, t2) /\ Within(p2, t2)
    <2>1. \A e \in DOMAIN p2 : e \notin DOMAIN t1
      BY <1>1
    <2>2. DOMAIN t2 = DOMAIN t1 \cup DOMAIN p2 /\ Within(t1, t2) /\ Within(p2, t2)
      BY ONLY <2>1, AppendedTables
    <2> QED
      BY <1>1, <2>2 DEF ExplorerTransactionNames
  <1> HIDE DEF t2
  <1> QED
    BY <1>2, <1>3

\* What a table of a catalog says, the catalog says.
LEMMA CatalogParts ==
    /\ Within(Dispatch!N3Lists, Dispatch!N3_REST_CATALOG)
    /\ Within(Dispatch!N3Transactions, Dispatch!N3_REST_CATALOG)
    /\ Within(Dispatch!N3Accounts, Dispatch!N3_REST_CATALOG)
    /\ Within(Dispatch!N3Contracts, Dispatch!N3_REST_CATALOG)
    /\ Within(Dispatch!XAddresses, Dispatch!X_ENDPOINT_CATALOG)
  <1> DEFINE n2 == Dispatch!++(Dispatch!N3Lists, Dispatch!N3Names)
             n3 == Dispatch!++(n2, Dispatch!N3Transactions)
             n4 == Dispatch!++(n3, Dispatch!N3Accounts)
             n5 == Dispatch!++(n4, Dispatch!N3Contracts)
             x2 == Dispatch!++(Dispatch!XLists, Dispatch!XAddresses)
             x3 == Dispatch!++(x2, Dispatch!XTransactions)
  <1>1. Dispatch!N3_REST_CATALOG = n5 /\ Dispatch!X_ENDPOINT_CATALOG = x3
    BY DEF Dispatch!N3_REST_CATALOG, Dispatch!X_ENDPOINT_CATALOG
  <1>2. \A e \in IndexLabelNames : e \notin IndexListNames
    BY DEF IndexListNames, IndexLabelNames
  <1>3. \A e \in IndexTransactionNames : e \notin IndexListNames \cup IndexLabelNames
    BY DEF IndexListNames, IndexLabelNames, IndexTransactionNames
  <1>4. \A e \in IndexAccountNames : e \notin IndexListNames \cup IndexLabelNames \cup IndexTransactionNames
    BY DEF IndexListNames, IndexLabelNames, IndexTransactionNames, IndexAccountNames
  <1>5. \A e \in IndexContractNames :
           e \notin IndexListNames \cup IndexLabelNames \cup IndexTransactionNames \cup IndexAccountNames
    BY DEF IndexListNames, IndexLabelNames, IndexTransactionNames, IndexAccountNames, IndexContractNames
  <1>6. \A e \in ExplorerAddressNames : e \notin ExplorerListNames
    BY DEF ExplorerListNames, ExplorerAddressNames
  <1>7. \A e \in ExplorerTransactionNames : e \notin ExplorerListNames \cup ExplorerAddressNames
    BY DEF ExplorerListNames, ExplorerAddressNames, ExplorerTransactionNames
  <1>8. /\ DOMAIN n2 = IndexListNames \cup IndexLabelNames
        /\ Within(Dispatch!N3Lists, n2)
    BY <1>2, N3ListsParts, N3NamesParts, AppendedTables
  <1> HIDE DEF n2
  <1>9. /\ DOMAIN n3 = IndexListNames \cup IndexLabelNames \cup IndexTransactionNames
        /\ Within(n2, n3) /\ Within(Dispatch!N3Transactions, n3)
    BY <1>3, <1>8, N3TransactionsParts, AppendedTables
  <1> HIDE DEF n3
  <1>10. /\ DOMAIN n4 = IndexListNames \cup IndexLabelNames \cup IndexTransactionNames \cup IndexAccountNames
         /\ Within(n3, n4) /\ Within(Dispatch!N3Accounts, n4)
    BY <1>4, <1>9, N3AccountsParts, AppendedTables
  <1> HIDE DEF n4
  <1>11. Within(n4, n5) /\ Within(Dispatch!N3Contracts, n5)
    BY <1>5, <1>10, N3ContractsParts, AppendedTables
  <1> HIDE DEF n5
  <1>12. DOMAIN x2 = ExplorerListNames \cup ExplorerAddressNames /\ Within(Dispatch!XAddresses, x2)
    BY <1>6, XListsParts, XAddressesParts, AppendedTables
  <1> HIDE DEF x2
  <1>13. Within(x2, x3)
    BY <1>7, <1>12, XTransactionsParts, AppendedTables
  <1> HIDE DEF x3
  <1>14. Within(n3, n5) /\ Within(n2, n5)
    BY <1>9, <1>10, <1>11, WithinIsTransitive
  <1>15. /\ Within(Dispatch!N3Lists, n5) /\ Within(Dispatch!N3Transactions, n5)
         /\ Within(Dispatch!N3Accounts, n5) /\ Within(Dispatch!XAddresses, x3)
    BY <1>8, <1>9, <1>10, <1>11, <1>12, <1>13, <1>14, WithinIsTransitive
  <1> QED
    BY <1>1, <1>11, <1>15

\* What the endpoints behind the public tools are asked for.
LEMMA Offered ==
    LET n3 == Dispatch!N3_REST_CATALOG
        OfN3(endpoint, path, query, required) ==
            endpoint \in DOMAIN n3 /\ n3[endpoint] = Dispatch!Endpoint(path, query, required)
        x == Dispatch!X_ENDPOINT_CATALOG
    IN  /\ OfN3("search", "none", {"q"}, {"q"})
        /\ OfN3("analyze_consensus_health", "none",
                {"lookback", "streak_threshold", "duration_threshold_s", "max_data_age_s", "max_clock_skew_s"}, {})
        /\ OfN3("analyze_transaction", "txid", {}, {})
        /\ OfN3("investigate_transactions", "none", {"txids"}, {"txids"})
        /\ OfN3("get_address_summary", "address", {}, {})
        /\ OfN3("analyze_address", "address", {"sample", "limit"}, {})
        /\ OfN3("analyze_account_graph", "address", {"limit"}, {})
        /\ OfN3("analyze_address_connection", "address", {"target", "sample", "limit"}, {"target"})
        /\ \A e \in {"list_address_balances", "list_address_transactions", "list_address_transfers"} :
              OfN3(e, "address", {"limit", "offset"}, {})
        /\ \A e \in {"analyze_contract", "analyze_contract_upgrades", "get_contract_source_verification"} :
              OfN3(e, "hash", {}, {})
        /\ \A e \in {"list_token_holders", "inspect_contract_code"} : OfN3(e, "hash", {"limit", "offset"}, {})
        /\ "get_smart_contract" \in DOMAIN x
        /\ x["get_smart_contract"] = Dispatch!Endpoint("address", {}, {})
  <1>1. \A e \in IndexListNames : /\ e \in DOMAIN Dispatch!N3_REST_CATALOG
                                 /\ Dispatch!N3_REST_CATALOG[e] = Dispatch!N3Lists[e]
    BY N3ListsParts, CatalogParts DEF Within
  <1>2. \A e \in IndexTransactionNames : /\ e \in DOMAIN Dispatch!N3_REST_CATALOG
                                        /\ Dispatch!N3_REST_CATALOG[e] = Dispatch!N3Transactions[e]
    BY N3TransactionsParts, CatalogParts DEF Within
  <1>3. \A e \in IndexAccountNames : /\ e \in DOMAIN Dispatch!N3_REST_CATALOG
                                    /\ Dispatch!N3_REST_CATALOG[e] = Dispatch!N3Accounts[e]
    BY N3AccountsParts, CatalogParts DEF Within
  <1>4. \A e \in IndexContractNames : /\ e \in DOMAIN Dispatch!N3_REST_CATALOG
                                     /\ Dispatch!N3_REST_CATALOG[e] = Dispatch!N3Contracts[e]
    BY N3ContractsParts, CatalogParts DEF Within
  <1>5. \A e \in ExplorerAddressNames : /\ e \in DOMAIN Dispatch!X_ENDPOINT_CATALOG
                                       /\ Dispatch!X_ENDPOINT_CATALOG[e] = Dispatch!XAddresses[e]
    BY XAddressesParts, CatalogParts DEF Within
  <1> QED
    BY <1>1, <1>2, <1>3, <1>4, <1>5, N3ListsParts, N3TransactionsParts, N3AccountsParts, N3ContractsParts,
       XAddressesParts
    DEF IndexListNames, IndexTransactionNames, IndexAccountNames, IndexContractNames, ExplorerAddressNames

\* The table of all handlers is that of each kind where that has an entry: appending the
\* tables one by one, no name comes twice.
LEMMA HandlersWithin ==
    /\ Within(Dispatch!ReadHandlers, Dispatch!Handlers)
    /\ Within(Dispatch!AccountHandlers, Dispatch!Handlers)
    /\ Within(Dispatch!ContractHandlers, Dispatch!Handlers)
    /\ Within(Dispatch!NEOX_NODE_TOOLS, Dispatch!Handlers)
    /\ Within(Dispatch!N3_PROPOSAL_TOOLS, Dispatch!Handlers)
    /\ Within(Dispatch!NEOX_PROPOSAL_TOOLS, Dispatch!Handlers)
    /\ Within(Dispatch!ECOSYSTEM_N3_TOOLS, Dispatch!Handlers)
    /\ Within(Dispatch!ECOSYSTEM_META_TOOLS, Dispatch!Handlers)
    /\ Within(Dispatch!NEO_DATA_TOOLS, Dispatch!Handlers)
    /\ Within(Dispatch!LocalTools, Dispatch!Handlers)
    /\ Within(Dispatch!NEOX_TOOLS, Dispatch!Handlers)
    /\ \A x \in WrapperNames \cup {"query_indexer", "x_query", "query_indexer_find", "x_graphql"} :
          x \notin DOMAIN Dispatch!Handlers
  <1> DEFINE unhandled == WrapperNames \cup {"query_indexer", "x_query", "query_indexer_find", "x_graphql"}
             n1 == ReadNames
             n2 == n1 \cup AccountNames
             n3 == n2 \cup ContractToolNames
             n4 == n3 \cup XNodeNames
             n5 == n4 \cup N3ProposalNames
             n6 == n5 \cup XProposalNames
             n7 == n6 \cup EcosystemNames
             n8 == n7 \cup MetaNames
             n9 == n8 \cup DataNames
             n10 == n9 \cup LocalNames
             n11 == n10 \cup XWrapperNames
             h1 == Dispatch!ReadHandlers
             h2 == Dispatch!++(h1, Dispatch!AccountHandlers)
             h3 == Dispatch!++(h2, Dispatch!ContractHandlers)
             h4 == Dispatch!++(h3, Dispatch!NEOX_NODE_TOOLS)
             h5 == Dispatch!++(h4, Dispatch!N3_PROPOSAL_TOOLS)
             h6 == Dispatch!++(h5, Dispatch!NEOX_PROPOSAL_TOOLS)
             h7 == Dispatch!++(h6, Dispatch!ECOSYSTEM_N3_TOOLS)
             h8 == Dispatch!++(h7, Dispatch!ECOSYSTEM_META_TOOLS)
             h9 == Dispatch!++(h8, Dispatch!NEO_DATA_TOOLS)
             h10 == Dispatch!++(h9, Dispatch!LocalTools)
             h11 == Dispatch!++(h10, Dispatch!NEOX_TOOLS)
  <1>1. \A x \in AccountNames : x \notin n1
    BY DEF ReadNames, AccountNames
  <1>2. \A x \in ContractToolNames : x \notin n2
    BY DEF ReadNames, AccountNames, ContractToolNames
  <1>3. \A x \in XNodeNames : x \notin n3
    BY DEF ReadNames, AccountNames, ContractToolNames, XNodeNames
  <1>4. \A x \in N3ProposalNames : x \notin n4
    BY DEF ReadNames, AccountNames, ContractToolNames, XNodeNames, N3ProposalNames
  <1>5. \A x \in XProposalNames : x \notin n5
    BY DEF ReadNames, AccountNames, ContractToolNames, XNodeNames, N3ProposalNames, XProposalNames
  <1>6. \A x \in EcosystemNames : x \notin n6
    BY DEF ReadNames, AccountNames, ContractToolNames, XNodeNames, N3ProposalNames, XProposalNames,
           EcosystemNames
  <1>7. \A x \in MetaNames : x \notin n7
    BY DEF ReadNames, AccountNames, ContractToolNames, XNodeNames, N3ProposalNames, XProposalNames,
           EcosystemNames, MetaNames
  <1>8. \A x \in DataNames : x \notin n8
    BY DEF ReadNames, AccountNames, ContractToolNames, XNodeNames, N3ProposalNames, XProposalNames,
           EcosystemNames, MetaNames, DataNames
  <1>9. \A x \in LocalNames : x \notin n9
    BY DEF ReadNames, AccountNames, ContractToolNames, XNodeNames, N3ProposalNames, XProposalNames,
           EcosystemNames, MetaNames, DataNames, LocalNames
  <1>10. \A x \in XWrapperNames : x \notin n10
    BY DEF ReadNames, AccountNames, ContractToolNames, XNodeNames, N3ProposalNames, XProposalNames,
           EcosystemNames, MetaNames, DataNames, LocalNames, XWrapperNames
  <1>11. \A x \in unhandled : x \notin n11
    BY DEF ReadNames, AccountNames, ContractToolNames, XNodeNames, N3ProposalNames, XProposalNames,
           EcosystemNames, MetaNames, DataNames, LocalNames, XWrapperNames, WrapperNames
  <1> HIDE DEF unhandled, n1, n2, n3, n4, n5, n6, n7, n8, n9, n10, n11
  <1>12. DOMAIN h1 = n1
    BY InternalNames DEF n1
  <1> HIDE DEF h1
  <1>13. DOMAIN h2 = n2 /\ Within(h1, h2) /\ Within(Dispatch!AccountHandlers, h2)
    BY <1>1, <1>12, AppendedTables, InternalNames DEF n2
  <1> HIDE DEF h2
  <1>14. DOMAIN h3 = n3 /\ Within(h2, h3) /\ Within(Dispatch!ContractHandlers, h3)
    BY <1>2, <1>13, AppendedTables, InternalNames DEF n3
  <1> HIDE DEF h3
  <1>15. DOMAIN h4 = n4 /\ Within(h3, h4) /\ Within(Dispatch!NEOX_NODE_TOOLS, h4)
    BY <1>3, <1>14, AppendedTables, InternalNames DEF n4
  <1> HIDE DEF h4
  <1>16. DOMAIN h5 = n5 /\ Within(h4, h5) /\ Within(Dispatch!N3_PROPOSAL_TOOLS, h5)
    BY <1>4, <1>15, AppendedTables, InternalNames DEF n5
  <1> HIDE DEF h5
  <1>17. DOMAIN h6 = n6 /\ Within(h5, h6) /\ Within(Dispatch!NEOX_PROPOSAL_TOOLS, h6)
    BY <1>5, <1>16, AppendedTables, InternalNames DEF n6
  <1> HIDE DEF h6
  <1>18. DOMAIN h7 = n7 /\ Within(h6, h7) /\ Within(Dispatch!ECOSYSTEM_N3_TOOLS, h7)
    BY <1>6, <1>17, AppendedTables, InternalNames DEF n7
  <1> HIDE DEF h7
  <1>19. DOMAIN h8 = n8 /\ Within(h7, h8) /\ Within(Dispatch!ECOSYSTEM_META_TOOLS, h8)
    BY <1>7, <1>18, AppendedTables, InternalNames DEF n8
  <1> HIDE DEF h8
  <1>20. DOMAIN h9 = n9 /\ Within(h8, h9) /\ Within(Dispatch!NEO_DATA_TOOLS, h9)
    BY <1>8, <1>19, AppendedTables, InternalNames DEF n9
  <1> HIDE DEF h9
  <1>21. DOMAIN h10 = n10 /\ Within(h9, h10) /\ Within(Dispatch!LocalTools, h10)
    BY <1>9, <1>20, AppendedTables, InternalNames DEF n10
  <1> HIDE DEF h10
  <1>22. DOMAIN h11 = n11 /\ Within(h10, h11) /\ Within(Dispatch!NEOX_TOOLS, h11)
    BY <1>10, <1>21, AppendedTables, InternalNames DEF n11
  <1> HIDE DEF h11
  <1>23. Dispatch!Handlers = h11
    BY DEF Dispatch!Handlers, h1, h2, h3, h4, h5, h6, h7, h8, h9, h10, h11
  <1>24. Within(Dispatch!ReadHandlers, h2)
    BY <1>13 DEF h1
  <1>25. \A table : Within(table, h10) => Within(table, h11)
    BY <1>22, WithinIsTransitive
  <1>26. \A table : Within(table, h9) => Within(table, h11)
    BY <1>21, <1>25, WithinIsTransitive
  <1>27. \A table : Within(table, h8) => Within(table, h11)
    BY <1>20, <1>26, WithinIsTransitive
  <1>28. \A table : Within(table, h7) => Within(table, h11)
    BY <1>19, <1>27, WithinIsTransitive
  <1>29. \A table : Within(table, h6) => Within(table, h11)
    BY <1>18, <1>28, WithinIsTransitive
  <1>30. \A table : Within(table, h5) => Within(table, h11)
    BY <1>17, <1>29, WithinIsTransitive
  <1>31. \A table : Within(table, h4) => Within(table, h11)
    BY <1>16, <1>30, WithinIsTransitive
  <1>32. \A table : Within(table, h3) => Within(table, h11)
    BY <1>15, <1>31, WithinIsTransitive
  <1>33. \A table : Within(table, h2) => Within(table, h11)
    BY <1>14, <1>32, WithinIsTransitive
  <1>34. /\ Within(Dispatch!ReadHandlers, h11) /\ Within(Dispatch!AccountHandlers, h11)
         /\ Within(Dispatch!ContractHandlers, h11)
    BY <1>13, <1>14, <1>24, <1>32, <1>33
  <1>35. /\ Within(Dispatch!NEOX_NODE_TOOLS, h11) /\ Within(Dispatch!N3_PROPOSAL_TOOLS, h11)
         /\ Within(Dispatch!NEOX_PROPOSAL_TOOLS, h11) /\ Within(Dispatch!ECOSYSTEM_N3_TOOLS, h11)
    BY <1>15, <1>16, <1>17, <1>18, <1>28, <1>29, <1>30, <1>31
  <1>36. /\ Within(Dispatch!ECOSYSTEM_META_TOOLS, h11) /\ Within(Dispatch!NEO_DATA_TOOLS, h11)
         /\ Within(Dispatch!LocalTools, h11) /\ Within(Dispatch!NEOX_TOOLS, h11)
    BY <1>19, <1>20, <1>21, <1>22, <1>25, <1>26, <1>27
  <1>37. \A x \in unhandled : x \notin DOMAIN h11
    BY <1>11, <1>22
  <1> QED
    BY <1>23, <1>34, <1>35, <1>36, <1>37 DEF unhandled

\* What a route may be, and what then holds of it.  First, a handler that reads all the
\* arguments it is handed.
Serves(handlers, route) ==
    /\ route.internal \in DOMAIN handlers
    /\ \A key \in DOMAIN route.args :
          LET handler == handlers[route.internal]
          IN  key \in handler.needs \/ key \in handler.oneOf \/ key \in handler.others

\* It ends in the server itself.
AtHome(handlers, route) == ~route.services /\ Serves(handlers, route)

\* It ends at a node of Neo N3, with the services made and the network handed on.
AtNode(handlers, route) == route.services /\ route.network = "pass" /\ Serves(handlers, route)

\* It ends at a node of Neo X.
AtNeox(handlers, route) == ~route.services /\ route.network \in {"pass", "prefix"} /\ Serves(handlers, route)

\* It ends at the explorer of Neo X, and is sure to have what that needs.
AtExplorer(tool, route) ==
    LET handler == Dispatch!NEOX_TOOLS[route.internal]
    IN  /\ AtNeox(Dispatch!NEOX_TOOLS, route) /\ handler.oneOf = {}
        /\ \A key \in handler.needs : key \in DOMAIN route.args /\ route.args[key] \in tool.required \ {"network"}

\* The keys that arguments are under are those of an endpoint, and what it requires is
\* sure to be there.
Suits(required, entry, args) ==
    /\ \A key \in DOMAIN args : key \in entry.query \/ (key = entry.path /\ key # "none")
    /\ \A key \in entry.required : key \in DOMAIN args /\ args[key] \in required \ {"network"}
    /\ entry.path # "none" => entry.path \in DOMAIN args /\ args[entry.path] \in required \ {"network"}

\* It ends at an endpoint of the index of Neo N3.
AtIndex(name, tool, route) ==
    /\ ~route.services /\ route.internal = "query_indexer" /\ route.endpoint # "none"
    /\ route.endpoint \in DOMAIN Dispatch!N3_REST_CATALOG
    /\ route.network = "pass" \/ (name = "explorer_search" /\ route.network = "drop")
    /\ Suits(tool.required, Dispatch!N3_REST_CATALOG[route.endpoint], route.args)

\* The argument that a wrapper cannot do without; it has an endpoint for it.
WrapperNeeds(internal) == IF internal = "n3_asset_holders" THEN "contractHash" ELSE "address"
WrapperFits(internal) ==
    LET wrapper == Dispatch!N3_INDEXER_TOOLS[internal]
    IN  /\ wrapper.endpoint \in DOMAIN Dispatch!N3_REST_CATALOG
        /\ Suits({WrapperNeeds(internal)}, Dispatch!N3_REST_CATALOG[wrapper.endpoint], wrapper.args)

\* It ends at the index by a wrapper.
AtWrapper(tool, route) ==
    /\ ~route.services /\ route.network = "pass" /\ route.internal \in WrapperNames
    /\ LET key == WrapperNeeds(route.internal)
       IN  key \in tool.required /\ key \in DOMAIN route.args /\ route.args[key] = key
    /\ \A key \in DOMAIN route.args : route.args[key] = key

LEMMA WrappersFit == \A internal \in WrapperNames : WrapperFits(internal)
  <1> USE Offered DEF WrapperFits, Suits, WrapperNeeds, Dispatch!N3_INDEXER_TOOLS, Dispatch!Endpoint
  <1>1. WrapperFits("n3_get_address")
    OBVIOUS
  <1>2. WrapperFits("n3_list_transactions_by_address")
    OBVIOUS
  <1>3. WrapperFits("n3_list_transfers_by_address")
    OBVIOUS
  <1>4. WrapperFits("n3_asset_holders")
    OBVIOUS
  <1>5. WrapperFits("n3_assets_held_by_address")
    OBVIOUS
  <1> QED
    BY ONLY <1>1, <1>2, <1>3, <1>4, <1>5 DEF WrapperNames

\* The routes that are like no other.
Particular(name, tool, chain, route) ==
    ~route.services /\
    \/ /\ name = "query_neofs" /\ chain = "n3" /\ route.internal = "query_neofs"
       /\ route.network = "pass" /\ "network" \in tool.required /\ Serves(Dispatch!ECOSYSTEM_META_TOOLS, route)
    \/ /\ name = "get_contract_info" /\ chain = "neox" /\ route.internal = "x_query"
       /\ route.endpoint = "get_smart_contract" /\ route.network = "drop"
    \/ /\ name = "query_explorer" /\ route.endpoint = "none"
       /\ \/ chain = "n3" /\ route.internal = "query_indexer" /\ route.network = "pass"
          \/ chain = "neox" /\ route.internal = "x_query" /\ route.network = "prefix"
    \/ /\ name = "query_explorer_find" /\ chain = "n3" /\ route.internal = "query_indexer_find"
       /\ "network" \notin tool.required \cup tool.optional
    \/ /\ name = "query_explorer_graphql" /\ chain = "neox" /\ route.internal = "x_graphql"
       /\ route.network = "drop" /\ "network" \notin tool.required \cup tool.optional

RouteFits(name, tool, chain) ==
    LET route == tool.routes[chain]
    IN  \/ Particular(name, tool, chain, route)
        \/ /\ name \notin {"query_explorer_find", "query_explorer_graphql"}
           /\ ~(name = "get_contract_info" /\ chain = "neox")
           /\ \/ AtHome(Dispatch!LocalTools, route) \/ AtHome(Dispatch!NEO_DATA_TOOLS, route)
              \/ AtHome(Dispatch!ECOSYSTEM_META_TOOLS, route) /\ route.internal = "get_neo_service_info"
              \/ chain = "n3" /\ AtNode(Dispatch!ReadHandlers, route)
              \/ chain = "n3" /\ AtNode(Dispatch!AccountHandlers, route)
              \/ chain = "n3" /\ AtNode(Dispatch!ContractHandlers, route)
              \/ chain = "n3" /\ AtNode(Dispatch!N3_PROPOSAL_TOOLS, route)
              \/ chain = "n3" /\ AtNode(Dispatch!ECOSYSTEM_N3_TOOLS, route)
              \/ chain = "n3" /\ AtIndex(name, tool, route)
              \/ chain = "n3" /\ AtWrapper(tool, route)
              \/ chain = "neox" /\ AtNeox(Dispatch!NEOX_NODE_TOOLS, route)
              \/ chain = "neox" /\ AtNeox(Dispatch!NEOX_PROPOSAL_TOOLS, route)
              \/ chain = "neox" /\ AtExplorer(tool, route)

\* A tool has no chain, or one, or both, and its routes are such.
ToolFits(name, tool) ==
    \/ DOMAIN tool.routes = {"meta"} /\ RouteFits(name, tool, "meta")
    \/ DOMAIN tool.routes = {"n3"} /\ RouteFits(name, tool, "n3")
    \/ DOMAIN tool.routes = {"neox"} /\ RouteFits(name, tool, "neox")
    \/ DOMAIN tool.routes = {"n3", "neox"} /\ RouteFits(name, tool, "n3") /\ RouteFits(name, tool, "neox")

AllFit(table) == \A name \in DOMAIN table : ToolFits(name, table[name])

\* Every tool of every table of the registry.
LEMMA MetaToolsFit == AllFit(Dispatch!MetaTools)
  <1> USE Keyed DEF Serves, Dispatch!MetaTools, Dispatch!NetworkTool, Dispatch!Tool, Dispatch!Route,
         Dispatch!Direct, Dispatch!ByServices, Dispatch!Prefixed, Dispatch!Pinned, Dispatch!Index,
         Dispatch!Paged, Dispatch!Handler, Dispatch!Endpoint
  <1>1. ASSUME NEW name \in {"get_network_mode", "get_wallet"}
        PROVE  LET tool == Dispatch!MetaTools[name]
               IN  /\ DOMAIN tool.routes = {"meta"}
                   /\ AtHome(Dispatch!LocalTools, tool.routes["meta"])
    <2>1. CASE name = "get_network_mode"
      BY <2>1 DEF AtHome, Dispatch!LocalTools
    <2>2. CASE name = "get_wallet"
      BY <2>2 DEF AtHome, Dispatch!LocalTools
    <2> QED
      BY <1>1, <2>1, <2>2
  <1>2. ASSUME NEW name \in {"inspect_neo_value", "convert_neo_data"}
        PROVE  LET tool == Dispatch!MetaTools[name]
               IN  /\ DOMAIN tool.routes = {"meta"}
                   /\ AtHome(Dispatch!NEO_DATA_TOOLS, tool.routes["meta"])
    <2>1. CASE name = "inspect_neo_value"
      BY <2>1 DEF AtHome, Dispatch!NEO_DATA_TOOLS
    <2>2. CASE name = "convert_neo_data"
      BY <2>2 DEF AtHome, Dispatch!NEO_DATA_TOOLS
    <2> QED
      BY <1>2, <2>1, <2>2
  <1>3. ASSUME NEW name, name = "get_neo_service_info"
        PROVE  LET tool == Dispatch!MetaTools[name]
               IN  /\ DOMAIN tool.routes = {"meta"}
                   /\ AtHome(Dispatch!ECOSYSTEM_META_TOOLS, tool.routes["meta"])
                   /\ tool.routes["meta"].internal = "get_neo_service_info"
    BY <1>3 DEF AtHome, Dispatch!ECOSYSTEM_META_TOOLS
  <1>4. DOMAIN Dispatch!MetaTools = {"get_network_mode", "get_wallet", "inspect_neo_value",
         "convert_neo_data", "get_neo_service_info"}
    OBVIOUS
  <1> HIDE DEF Serves, Dispatch!MetaTools
  <1> QED
    BY ONLY <1>1, <1>2, <1>3, <1>4 DEF AllFit, ToolFits, RouteFits

LEMMA NodeToolsFit == AllFit(Dispatch!NodeTools)
  <1> USE Keyed DEF Serves, Dispatch!NodeTools, Dispatch!NetworkTool, Dispatch!Tool, Dispatch!Route,
         Dispatch!Direct, Dispatch!ByServices, Dispatch!Prefixed, Dispatch!Pinned, Dispatch!Index,
         Dispatch!Paged, Dispatch!Handler, Dispatch!Endpoint
  <1>1. ASSUME NEW name \in {"get_chain_info", "get_block_height", "get_block", "get_transaction",
         "get_transaction_status"}
        PROVE  LET tool == Dispatch!NodeTools[name]
               IN  /\ DOMAIN tool.routes = {"n3", "neox"}
                   /\ AtNode(Dispatch!ReadHandlers, tool.routes["n3"])
                   /\ AtNeox(Dispatch!NEOX_NODE_TOOLS, tool.routes["neox"])
    <2>1. CASE name = "get_chain_info"
      BY <2>1 DEF AtNode, Dispatch!ReadHandlers, AtNeox, Dispatch!NEOX_NODE_TOOLS
    <2>2. CASE name = "get_block_height"
      BY <2>2 DEF AtNode, Dispatch!ReadHandlers, AtNeox, Dispatch!NEOX_NODE_TOOLS
    <2>3. CASE name = "get_block"
      BY <2>3 DEF AtNode, Dispatch!ReadHandlers, AtNeox, Dispatch!NEOX_NODE_TOOLS
    <2>4. CASE name = "get_transaction"
      BY <2>4 DEF AtNode, Dispatch!ReadHandlers, AtNeox, Dispatch!NEOX_NODE_TOOLS
    <2>5. CASE name = "get_transaction_status"
      BY <2>5 DEF AtNode, Dispatch!ReadHandlers, AtNeox, Dispatch!NEOX_NODE_TOOLS
    <2> QED
      BY <1>1, <2>1, <2>2, <2>3, <2>4, <2>5
  <1>2. ASSUME NEW name, name = "get_balance"
        PROVE  LET tool == Dispatch!NodeTools[name]
               IN  /\ DOMAIN tool.routes = {"n3", "neox"}
                   /\ AtNode(Dispatch!AccountHandlers, tool.routes["n3"])
                   /\ AtNeox(Dispatch!NEOX_NODE_TOOLS, tool.routes["neox"])
    BY <1>2 DEF AtNode, Dispatch!AccountHandlers, AtNeox, Dispatch!NEOX_NODE_TOOLS
  <1>3. DOMAIN Dispatch!NodeTools = {"get_chain_info", "get_block_height", "get_block", "get_transaction",
         "get_transaction_status", "get_balance"}
    OBVIOUS
  <1> HIDE DEF Serves, Dispatch!NodeTools
  <1> QED
    BY ONLY <1>1, <1>2, <1>3 DEF AllFit, ToolFits, RouteFits

LEMMA ContractToolsFit == AllFit(Dispatch!ContractTools)
  <1> USE Keyed DEF Serves, Dispatch!ContractTools, Dispatch!NetworkTool, Dispatch!Tool, Dispatch!Route,
         Dispatch!Direct, Dispatch!ByServices, Dispatch!Prefixed, Dispatch!Pinned, Dispatch!Index,
         Dispatch!Paged, Dispatch!Handler, Dispatch!Endpoint
  <1>1. ASSUME NEW name, name = "call_contract"
        PROVE  LET tool == Dispatch!ContractTools[name]
               IN  /\ DOMAIN tool.routes = {"n3", "neox"}
                   /\ AtNode(Dispatch!ContractHandlers, tool.routes["n3"])
                   /\ AtNeox(Dispatch!NEOX_NODE_TOOLS, tool.routes["neox"])
    BY <1>1 DEF AtNode, Dispatch!ContractHandlers, Dispatch!Reference, AtNeox, Dispatch!NEOX_NODE_TOOLS
  <1>2. ASSUME NEW name, name = "get_contract_info"
        PROVE  LET tool == Dispatch!ContractTools[name]
               IN  /\ DOMAIN tool.routes = {"n3", "neox"}
                   /\ AtNode(Dispatch!ContractHandlers, tool.routes["n3"])
                   /\ Particular(name, tool, "neox", tool.routes["neox"])
    <2>1. LET tool == Dispatch!ContractTools[name] IN AtNode(Dispatch!ContractHandlers, tool.routes["n3"])
      BY <1>2 DEF AtNode, Dispatch!ContractHandlers, Dispatch!Reference
    <2>2. LET tool == Dispatch!ContractTools[name] IN Particular(name, tool, "neox", tool.routes["neox"])
      BY <1>2 DEF Particular
    <2> QED
      BY <1>2, <2>1, <2>2
  <1>3. DOMAIN Dispatch!ContractTools = {"call_contract", "get_contract_info"}
    OBVIOUS
  <1> HIDE DEF Serves, Dispatch!ContractTools
  <1> QED
    BY ONLY <1>1, <1>2, <1>3 DEF AllFit, ToolFits, RouteFits

LEMMA N3NodeToolsFit == AllFit(Dispatch!N3NodeTools)
  <1> USE Keyed DEF Serves, Dispatch!N3NodeTools, Dispatch!NetworkTool, Dispatch!Tool, Dispatch!Route,
         Dispatch!Direct, Dispatch!ByServices, Dispatch!Prefixed, Dispatch!Pinned, Dispatch!Index,
         Dispatch!Paged, Dispatch!Handler, Dispatch!Endpoint
  <1>1. ASSUME NEW name \in {"get_application_log", "wait_for_transaction"}
        PROVE  LET tool == Dispatch!N3NodeTools[name]
               IN  /\ DOMAIN tool.routes = {"n3"}
                   /\ AtNode(Dispatch!ReadHandlers, tool.routes["n3"])
    <2>1. CASE name = "get_application_log"
      BY <2>1 DEF AtNode, Dispatch!ReadHandlers
    <2>2. CASE name = "wait_for_transaction"
      BY <2>2 DEF AtNode, Dispatch!ReadHandlers
    <2> QED
      BY <1>1, <2>1, <2>2
  <1>2. ASSUME NEW name, name = "get_unclaimed_gas"
        PROVE  LET tool == Dispatch!N3NodeTools[name]
               IN  /\ DOMAIN tool.routes = {"n3"}
                   /\ AtNode(Dispatch!AccountHandlers, tool.routes["n3"])
    BY <1>2 DEF AtNode, Dispatch!AccountHandlers
  <1>3. ASSUME NEW name, name = "decode_neo_script"
        PROVE  LET tool == Dispatch!N3NodeTools[name]
               IN  /\ DOMAIN tool.routes = {"n3"}
                   /\ AtHome(Dispatch!NEO_DATA_TOOLS, tool.routes["n3"])
    BY <1>3 DEF AtHome, Dispatch!NEO_DATA_TOOLS
  <1>4. ASSUME NEW name \in {"query_nns", "get_oracle_info"}
        PROVE  LET tool == Dispatch!N3NodeTools[name]
               IN  /\ DOMAIN tool.routes = {"n3"}
                   /\ AtNode(Dispatch!ECOSYSTEM_N3_TOOLS, tool.routes["n3"])
    <2>1. CASE name = "query_nns"
      BY <2>1 DEF AtNode, Dispatch!ECOSYSTEM_N3_TOOLS
    <2>2. CASE name = "get_oracle_info"
      BY <2>2 DEF AtNode, Dispatch!ECOSYSTEM_N3_TOOLS
    <2> QED
      BY <1>4, <2>1, <2>2
  <1>5. ASSUME NEW name, name = "query_neofs"
        PROVE  LET tool == Dispatch!N3NodeTools[name]
               IN  /\ DOMAIN tool.routes = {"n3"}
                   /\ Particular(name, tool, "n3", tool.routes["n3"])
    BY <1>5 DEF Particular, Dispatch!ECOSYSTEM_META_TOOLS
  <1>6. DOMAIN Dispatch!N3NodeTools = {"get_application_log", "wait_for_transaction", "get_unclaimed_gas",
         "decode_neo_script", "query_nns", "query_neofs", "get_oracle_info"}
    OBVIOUS
  <1> HIDE DEF Serves, Dispatch!N3NodeTools
  <1> QED
    BY ONLY <1>1, <1>2, <1>3, <1>4, <1>5, <1>6 DEF AllFit, ToolFits, RouteFits

LEMMA N3TokenToolsFit == AllFit(Dispatch!N3TokenTools)
  <1> USE Keyed DEF Serves, Dispatch!N3TokenTools, Dispatch!NetworkTool, Dispatch!Tool, Dispatch!Route,
         Dispatch!Direct, Dispatch!ByServices, Dispatch!Prefixed, Dispatch!Pinned, Dispatch!Index,
         Dispatch!Paged, Dispatch!Handler, Dispatch!Endpoint
  <1>1. ASSUME NEW name \in {"get_nep17_transfers", "get_nep11_balances", "get_nep11_transfers"}
        PROVE  LET tool == Dispatch!N3TokenTools[name]
               IN  /\ DOMAIN tool.routes = {"n3"}
                   /\ AtNode(Dispatch!AccountHandlers, tool.routes["n3"])
    <2>1. CASE name = "get_nep17_transfers"
      BY <2>1 DEF AtNode, Dispatch!AccountHandlers
    <2>2. CASE name = "get_nep11_balances"
      BY <2>2 DEF AtNode, Dispatch!AccountHandlers
    <2>3. CASE name = "get_nep11_transfers"
      BY <2>3 DEF AtNode, Dispatch!AccountHandlers
    <2> QED
      BY <1>1, <2>1, <2>2, <2>3
  <1>2. ASSUME NEW name \in {"get_contract_status", "list_famous_contracts", "estimate_transfer_fees",
         "estimate_invoke_fees"}
        PROVE  LET tool == Dispatch!N3TokenTools[name]
               IN  /\ DOMAIN tool.routes = {"n3"}
                   /\ AtNode(Dispatch!ContractHandlers, tool.routes["n3"])
    <2>1. CASE name = "get_contract_status"
      BY <2>1 DEF AtNode, Dispatch!ContractHandlers, Dispatch!Reference
    <2>2. CASE name = "list_famous_contracts"
      BY <2>2 DEF AtNode, Dispatch!ContractHandlers
    <2>3. CASE name = "estimate_transfer_fees"
      BY <2>3 DEF AtNode, Dispatch!ContractHandlers
    <2>4. CASE name = "estimate_invoke_fees"
      BY <2>4 DEF AtNode, Dispatch!ContractHandlers, Dispatch!Reference
    <2> QED
      BY <1>2, <2>1, <2>2, <2>3, <2>4
  <1>3. DOMAIN Dispatch!N3TokenTools = {"get_nep17_transfers", "get_nep11_balances", "get_nep11_transfers",
         "get_contract_status", "list_famous_contracts", "estimate_transfer_fees", "estimate_invoke_fees"}
    OBVIOUS
  <1> HIDE DEF Serves, Dispatch!N3TokenTools
  <1> QED
    BY ONLY <1>1, <1>2, <1>3 DEF AllFit, ToolFits, RouteFits

LEMMA ConstructToolsFit == AllFit(Dispatch!ConstructTools)
  <1> USE Keyed DEF Serves, Dispatch!ConstructTools, Dispatch!NetworkTool, Dispatch!Tool, Dispatch!Route,
         Dispatch!Direct, Dispatch!ByServices, Dispatch!Prefixed, Dispatch!Pinned, Dispatch!Index,
         Dispatch!Paged, Dispatch!Handler, Dispatch!Endpoint
  <1>1. ASSUME NEW name \in {"simulate_call", "build_transfer", "build_contract_call"}
        PROVE  LET tool == Dispatch!ConstructTools[name]
               IN  /\ DOMAIN tool.routes = {"n3", "neox"}
                   /\ AtNode(Dispatch!N3_PROPOSAL_TOOLS, tool.routes["n3"])
                   /\ AtNeox(Dispatch!NEOX_PROPOSAL_TOOLS, tool.routes["neox"])
    <2>1. CASE name = "simulate_call"
      BY <2>1 DEF AtNode, Dispatch!N3_PROPOSAL_TOOLS, AtNeox, Dispatch!NEOX_PROPOSAL_TOOLS
    <2>2. CASE name = "build_transfer"
      BY <2>2 DEF AtNode, Dispatch!N3_PROPOSAL_TOOLS, AtNeox, Dispatch!NEOX_PROPOSAL_TOOLS
    <2>3. CASE name = "build_contract_call"
      BY <2>3 DEF AtNode, Dispatch!N3_PROPOSAL_TOOLS, AtNeox, Dispatch!NEOX_PROPOSAL_TOOLS
    <2> QED
      BY <1>1, <2>1, <2>2, <2>3
  <1>2. DOMAIN Dispatch!ConstructTools = {"simulate_call", "build_transfer", "build_contract_call"}
    OBVIOUS
  <1> HIDE DEF Serves, Dispatch!ConstructTools
  <1> QED
    BY ONLY <1>1, <1>2 DEF AllFit, ToolFits, RouteFits

LEMMA N3ConstructToolsFit == AllFit(Dispatch!N3ConstructTools)
  <1> USE Keyed DEF Serves, Dispatch!N3ConstructTools, Dispatch!NetworkTool, Dispatch!Tool, Dispatch!Route,
         Dispatch!Direct, Dispatch!ByServices, Dispatch!Prefixed, Dispatch!Pinned, Dispatch!Index,
         Dispatch!Paged, Dispatch!Handler, Dispatch!Endpoint
  <1>1. ASSUME NEW name \in {"build_vote", "build_nns_operation"}
        PROVE  LET tool == Dispatch!N3ConstructTools[name]
               IN  /\ DOMAIN tool.routes = {"n3"}
                   /\ AtNode(Dispatch!N3_PROPOSAL_TOOLS, tool.routes["n3"])
    <2>1. CASE name = "build_vote"
      BY <2>1 DEF AtNode, Dispatch!N3_PROPOSAL_TOOLS
    <2>2. CASE name = "build_nns_operation"
      BY <2>2 DEF AtNode, Dispatch!N3_PROPOSAL_TOOLS
    <2> QED
      BY <1>1, <2>1, <2>2
  <1>2. DOMAIN Dispatch!N3ConstructTools = {"build_vote", "build_nns_operation"}
    OBVIOUS
  <1> HIDE DEF Serves, Dispatch!N3ConstructTools
  <1> QED
    BY ONLY <1>1, <1>2 DEF AllFit, ToolFits, RouteFits

LEMMA AnalyzeToolsFit == AllFit(Dispatch!AnalyzeTools)
  <1> USE Keyed DEF Serves, Dispatch!AnalyzeTools, Dispatch!NetworkTool, Dispatch!Tool, Dispatch!Route,
         Dispatch!Direct, Dispatch!ByServices, Dispatch!Prefixed, Dispatch!Pinned, Dispatch!Index,
         Dispatch!Paged, Dispatch!Handler, Dispatch!Endpoint
  <1>1. ASSUME NEW name, name = "explorer_get_address"
        PROVE  LET tool == Dispatch!AnalyzeTools[name]
               IN  /\ DOMAIN tool.routes = {"n3", "neox"}
                   /\ AtWrapper(tool, tool.routes["n3"])
                   /\ AtExplorer(tool, tool.routes["neox"])
    <2>1. LET tool == Dispatch!AnalyzeTools[name] IN AtWrapper(tool, tool.routes["n3"])
      BY <1>1 DEF AtWrapper, WrapperNeeds, WrapperNames
    <2>2. LET tool == Dispatch!AnalyzeTools[name] IN AtExplorer(tool, tool.routes["neox"])
      BY <1>1 DEF AtExplorer, Dispatch!NEOX_TOOLS, AtNeox
    <2> QED
      BY <1>1, <2>1, <2>2
  <1>2. ASSUME NEW name \in {"analyze_address", "analyze_address_connection", "analyze_account_graph"}
        PROVE  LET tool == Dispatch!AnalyzeTools[name]
               IN  /\ DOMAIN tool.routes = {"n3"}
                   /\ AtIndex(name, tool, tool.routes["n3"])
    <2>1. CASE name = "analyze_address"
      BY <2>1, Offered DEF AtIndex, Suits
    <2>2. CASE name = "analyze_address_connection"
      BY <2>2, Offered DEF AtIndex, Suits
    <2>3. CASE name = "analyze_account_graph"
      BY <2>3, Offered DEF AtIndex, Suits
    <2> QED
      BY <1>2, <2>1, <2>2, <2>3
  <1>3. DOMAIN Dispatch!AnalyzeTools = {"explorer_get_address", "analyze_address",
         "analyze_address_connection", "analyze_account_graph"}
    OBVIOUS
  <1> HIDE DEF Serves, Dispatch!AnalyzeTools
  <1> QED
    BY ONLY <1>1, <1>2, <1>3 DEF AllFit, ToolFits, RouteFits

LEMMA EvidenceToolsFit == AllFit(Dispatch!EvidenceTools)
  <1> USE Keyed DEF Serves, Dispatch!EvidenceTools, Dispatch!NetworkTool, Dispatch!Tool, Dispatch!Route,
         Dispatch!Direct, Dispatch!ByServices, Dispatch!Prefixed, Dispatch!Pinned, Dispatch!Index,
         Dispatch!Paged, Dispatch!Handler, Dispatch!Endpoint
  <1>1. ASSUME NEW name \in {"analyze_consensus_health", "analyze_transaction", "investigate_transactions",
         "analyze_contract", "inspect_contract_code"}
        PROVE  LET tool == Dispatch!EvidenceTools[name]
               IN  /\ DOMAIN tool.routes = {"n3"}
                   /\ AtIndex(name, tool, tool.routes["n3"])
    <2>1. CASE name = "analyze_consensus_health"
      BY <2>1, Offered DEF AtIndex, Suits
    <2>2. CASE name = "analyze_transaction"
      BY <2>2, Offered DEF AtIndex, Suits
    <2>3. CASE name = "investigate_transactions"
      BY <2>3, Offered DEF AtIndex, Suits
    <2>4. CASE name = "analyze_contract"
      BY <2>4, Offered DEF AtIndex, Suits
    <2>5. CASE name = "inspect_contract_code"
      BY <2>5, Offered DEF AtIndex, Suits
    <2> QED
      BY <1>1, <2>1, <2>2, <2>3, <2>4, <2>5
  <1>2. DOMAIN Dispatch!EvidenceTools = {"analyze_consensus_health", "analyze_transaction",
         "investigate_transactions", "analyze_contract", "inspect_contract_code"}
    OBVIOUS
  <1> HIDE DEF Serves, Dispatch!EvidenceTools
  <1> QED
    BY ONLY <1>1, <1>2 DEF AllFit, ToolFits, RouteFits

LEMMA ExplorerToolsFit == AllFit(Dispatch!ExplorerTools)
  <1> USE Keyed DEF Serves, Dispatch!ExplorerTools, Dispatch!NetworkTool, Dispatch!Tool, Dispatch!Route,
         Dispatch!Direct, Dispatch!ByServices, Dispatch!Prefixed, Dispatch!Pinned, Dispatch!Index,
         Dispatch!Paged, Dispatch!Handler, Dispatch!Endpoint
  <1>1. ASSUME NEW name \in {"analyze_contract_upgrades", "get_contract_source_verification"}
        PROVE  LET tool == Dispatch!ExplorerTools[name]
               IN  /\ DOMAIN tool.routes = {"n3"}
                   /\ AtIndex(name, tool, tool.routes["n3"])
    <2>1. CASE name = "analyze_contract_upgrades"
      BY <2>1, Offered DEF AtIndex, Suits
    <2>2. CASE name = "get_contract_source_verification"
      BY <2>2, Offered DEF AtIndex, Suits
    <2> QED
      BY <1>1, <2>1, <2>2
  <1>2. ASSUME NEW name \in {"explorer_list_address_transactions", "explorer_list_address_transfers",
         "explorer_list_token_holders"}
        PROVE  LET tool == Dispatch!ExplorerTools[name]
               IN  /\ DOMAIN tool.routes = {"n3", "neox"}
                   /\ AtWrapper(tool, tool.routes["n3"])
                   /\ AtExplorer(tool, tool.routes["neox"])
    <2>1. CASE name = "explorer_list_address_transactions"
      <3>1. LET tool == Dispatch!ExplorerTools[name] IN AtWrapper(tool, tool.routes["n3"])
        BY <2>1 DEF AtWrapper, WrapperNeeds, WrapperNames
      <3>2. LET tool == Dispatch!ExplorerTools[name] IN AtExplorer(tool, tool.routes["neox"])
        BY <2>1 DEF AtExplorer, Dispatch!NEOX_TOOLS, AtNeox
      <3> QED
        BY <2>1, <3>1, <3>2
    <2>2. CASE name = "explorer_list_address_transfers"
      <3>1. LET tool == Dispatch!ExplorerTools[name] IN AtWrapper(tool, tool.routes["n3"])
        BY <2>2 DEF AtWrapper, WrapperNeeds, WrapperNames
      <3>2. LET tool == Dispatch!ExplorerTools[name] IN AtExplorer(tool, tool.routes["neox"])
        BY <2>2 DEF AtExplorer, Dispatch!NEOX_TOOLS, AtNeox
      <3> QED
        BY <2>2, <3>1, <3>2
    <2>3. CASE name = "explorer_list_token_holders"
      <3>1. LET tool == Dispatch!ExplorerTools[name] IN AtWrapper(tool, tool.routes["n3"])
        BY <2>3 DEF AtWrapper, WrapperNeeds, WrapperNames
      <3>2. LET tool == Dispatch!ExplorerTools[name] IN AtExplorer(tool, tool.routes["neox"])
        BY <2>3 DEF AtExplorer, Dispatch!NEOX_TOOLS, AtNeox
      <3> QED
        BY <2>3, <3>1, <3>2
    <2> QED
      BY <1>2, <2>1, <2>2, <2>3
  <1>3. ASSUME NEW name, name = "explorer_list_address_assets"
        PROVE  LET tool == Dispatch!ExplorerTools[name]
               IN  /\ DOMAIN tool.routes = {"n3"}
                   /\ AtWrapper(tool, tool.routes["n3"])
    BY <1>3 DEF AtWrapper, WrapperNeeds, WrapperNames
  <1>4. DOMAIN Dispatch!ExplorerTools = {"analyze_contract_upgrades", "get_contract_source_verification",
         "explorer_list_address_transactions", "explorer_list_address_transfers", "explorer_list_token_holders",
         "explorer_list_address_assets"}
    OBVIOUS
  <1> HIDE DEF Serves, Dispatch!ExplorerTools
  <1> QED
    BY ONLY <1>1, <1>2, <1>3, <1>4 DEF AllFit, ToolFits, RouteFits

LEMMA SearchToolsFit == AllFit(Dispatch!SearchTools)
  <1> USE Keyed DEF Serves, Dispatch!SearchTools, Dispatch!NetworkTool, Dispatch!Tool, Dispatch!Route,
         Dispatch!Direct, Dispatch!ByServices, Dispatch!Prefixed, Dispatch!Pinned, Dispatch!Index,
         Dispatch!Paged, Dispatch!Handler, Dispatch!Endpoint
  <1>1. ASSUME NEW name, name = "explorer_search"
        PROVE  LET tool == Dispatch!SearchTools[name]
               IN  /\ DOMAIN tool.routes = {"n3", "neox"}
                   /\ AtIndex(name, tool, tool.routes["n3"])
                   /\ AtExplorer(tool, tool.routes["neox"])
    <2>1. LET tool == Dispatch!SearchTools[name] IN AtIndex(name, tool, tool.routes["n3"])
      BY <1>1, Offered DEF AtIndex, Suits
    <2>2. LET tool == Dispatch!SearchTools[name] IN AtExplorer(tool, tool.routes["neox"])
      BY <1>1 DEF AtExplorer, Dispatch!NEOX_TOOLS, AtNeox
    <2> QED
      BY <1>1, <2>1, <2>2
  <1>2. ASSUME NEW name, name = "query_explorer"
        PROVE  LET tool == Dispatch!SearchTools[name]
               IN  /\ DOMAIN tool.routes = {"n3", "neox"}
                   /\ Particular(name, tool, "n3", tool.routes["n3"])
                   /\ Particular(name, tool, "neox", tool.routes["neox"])
    <2>1. LET tool == Dispatch!SearchTools[name] IN Particular(name, tool, "n3", tool.routes["n3"])
      BY <1>2 DEF Particular
    <2>2. LET tool == Dispatch!SearchTools[name] IN Particular(name, tool, "neox", tool.routes["neox"])
      BY <1>2 DEF Particular
    <2> QED
      BY <1>2, <2>1, <2>2
  <1>3. ASSUME NEW name, name = "query_explorer_find"
        PROVE  LET tool == Dispatch!SearchTools[name]
               IN  /\ DOMAIN tool.routes = {"n3"}
                   /\ Particular(name, tool, "n3", tool.routes["n3"])
    BY <1>3 DEF Particular
  <1>4. ASSUME NEW name, name = "query_explorer_graphql"
        PROVE  LET tool == Dispatch!SearchTools[name]
               IN  /\ DOMAIN tool.routes = {"neox"}
                   /\ Particular(name, tool, "neox", tool.routes["neox"])
    BY <1>4 DEF Particular
  <1>5. DOMAIN Dispatch!SearchTools = {"explorer_search", "query_explorer", "query_explorer_find",
         "query_explorer_graphql"}
    OBVIOUS
  <1> HIDE DEF Serves, Dispatch!SearchTools
  <1> QED
    BY ONLY <1>1, <1>2, <1>3, <1>4, <1>5 DEF AllFit, ToolFits, RouteFits

LEMMA RegistryFits == AllFit(Dispatch!PUBLIC_TOOLS)
  <1>1. ASSUME NEW f, NEW g, AllFit(f), AllFit(g)
        PROVE  AllFit(Dispatch!++(f, g))
    BY <1>1 DEF AllFit, Dispatch!++
  <1> QED
    BY <1>1, MetaToolsFit, NodeToolsFit, ContractToolsFit, N3NodeToolsFit, N3TokenToolsFit, ConstructToolsFit,
       N3ConstructToolsFit, AnalyzeToolsFit, EvidenceToolsFit, ExplorerToolsFit, SearchToolsFit
       DEF Dispatch!PUBLIC_TOOLS

\* What callTool() does with a tool, by the table that has it.
LEMMA CallIs ==
    ASSUME NEW tool, NEW network, NEW args, NEW endpoint, NEW source
    PROVE  LET ended == Dispatch!CallTool(tool, network, args, endpoint, source)
           IN  /\ tool \in LocalNames \cup DataNames \cup {"get_neo_service_info"} =>
                     \E outcome \in {"answered", "refused"} : ended = Dispatch!Outcome(outcome, "missing")
               /\ tool = "query_neofs" => ended = Dispatch!Asked("n3", network, <<>>)
               /\ tool \in WrapperNames =>
                     ended = Dispatch!AskExplorer("n3", network, Dispatch!N3_INDEXER_TOOLS[tool].endpoint,
                                                 Dispatch!Wrapped(tool, args))
               /\ tool = "query_indexer" => ended = Dispatch!AskExplorer("n3", network, endpoint, source)
               /\ tool = "query_indexer_find" =>
                     ended = IF Dispatch!Gated("find") THEN Dispatch!Outcome("disabled", "find")
                            ELSE Dispatch!Asked("n3", "mainnet", <<>>)
               /\ tool = "x_query" => ended = Dispatch!AskExplorer("neox", network, endpoint, source)
               /\ tool = "x_graphql" =>
                     ended = IF Dispatch!Gated("graphql") THEN Dispatch!Outcome("disabled", "graphql")
                            ELSE Dispatch!AskNeox(network, <<>>)
               /\ tool \in XNodeNames \cup XProposalNames \cup XWrapperNames =>
                     ended = Dispatch!AskX(tool, network, args)
               /\ tool \in ReadNames \cup AccountNames \cup ContractToolNames \cup N3ProposalNames
                           \cup EcosystemNames =>
                     ended = Dispatch!AskNode(tool, network, args)
  <1> DEFINE ended == Dispatch!CallTool(tool, network, args, endpoint, source)
             home == LocalNames \cup DataNames \cup {"get_neo_service_info"}
             neox == XWrapperNames \cup XProposalNames \cup XNodeNames
             n3   == N3ProposalNames \cup EcosystemNames \cup ReadNames \cup AccountNames \cup ContractToolNames
             single == {"query_neofs", "query_indexer", "query_indexer_find", "x_query", "x_graphql"}
  <1>1. ended = CASE tool \in home -> Dispatch!Outcome(IF Dispatch!Supplied(Dispatch!Handlers[tool], args)
                                                       THEN "answered" ELSE "refused", "missing")
                 [] tool = "query_neofs" -> Dispatch!Asked("n3", network, <<>>)
                 [] tool \in WrapperNames ->
                       Dispatch!AskExplorer("n3", network, Dispatch!N3_INDEXER_TOOLS[tool].endpoint,
                                            Dispatch!Wrapped(tool, args))
                 [] tool = "query_indexer" -> Dispatch!AskExplorer("n3", network, endpoint, source)
                 [] tool = "query_indexer_find" ->
                       IF Dispatch!Gated("find") THEN Dispatch!Outcome("disabled", "find")
                       ELSE Dispatch!Asked("n3", "mainnet", <<>>)
                 [] tool = "x_query" -> Dispatch!AskExplorer("neox", network, endpoint, source)
                 [] tool = "x_graphql" ->
                       IF Dispatch!Gated("graphql") THEN Dispatch!Outcome("disabled", "graphql")
                       ELSE Dispatch!AskNeox(network, <<>>)
                 [] tool \in neox -> Dispatch!AskX(tool, network, args)
                 [] tool \in n3 -> Dispatch!AskNode(tool, network, args)
                 [] OTHER -> Dispatch!Outcome("unhandled", tool)
    BY InternalNames DEF Dispatch!CallTool
  <1>2. /\ \A x \in home : x \notin WrapperNames /\ x \notin single /\ x \notin neox /\ x \notin n3
        /\ \A x \in WrapperNames : x \notin single /\ x \notin neox /\ x \notin n3
        /\ \A x \in single : x \notin neox /\ x \notin n3
        /\ \A x \in neox : x \notin n3
    BY DEF LocalNames, DataNames, WrapperNames, XWrapperNames, XProposalNames, XNodeNames, N3ProposalNames,
           EcosystemNames, ReadNames, AccountNames, ContractToolNames
  <1> HIDE DEF ended, home, neox, n3
  <1> QED
    BY <1>1, <1>2 DEF home, neox, n3, ended

\* The chain of a call is one that its tool has a route for.
LEMMA ChainFits ==
    ASSUME NEW name \in DOMAIN Dispatch!PUBLIC_TOOLS, NEW requested
    PROVE  LET chain == Dispatch!ResolveChain(name, requested)
           IN  \/ chain = "refused"
               \/ /\ chain \in {"meta", "n3", "neox"} /\ chain \in DOMAIN Dispatch!PUBLIC_TOOLS[name].routes
                  /\ RouteFits(name, Dispatch!PUBLIC_TOOLS[name], chain)
  <1> DEFINE tool == Dispatch!PUBLIC_TOOLS[name]
             chains == Dispatch!ChainsOf(name)
             chain == Dispatch!ResolveChain(name, requested)
  <1>1. ToolFits(name, tool)
    BY RegistryFits DEF AllFit
  <1>2. chains = DOMAIN tool.routes \cap {"n3", "neox"}
    BY DEF Dispatch!ChainsOf, Dispatch!Chains
  <1>3. chain = "refused" \/ (chains = {} /\ chain = "meta") \/ chain \in chains
    BY DEF Dispatch!ResolveChain
  <1> HIDE DEF tool, chains, chain
  <1>4. \A x \in DOMAIN tool.routes : RouteFits(name, tool, x) /\ x \in {"meta", "n3", "neox"}
    BY <1>1 DEF ToolFits
  <1>5. chains = {} => "meta" \in DOMAIN tool.routes
    BY <1>1, <1>2 DEF ToolFits
  <1> QED
    BY <1>2, <1>3, <1>4, <1>5 DEF tool, chains, chain

\* What the registry hands on, but for the address of a contract on Neo X.
LEMMA ArgumentsAre ==
    ASSUME NEW name, NEW chain, NEW args, ~(name = "get_contract_info" /\ chain = "neox")
    PROVE  LET route == Dispatch!PUBLIC_TOOLS[name].routes[chain]
               sent == Dispatch!MappedArgs(name, chain, args)
           IN  /\ \A key : key \in DOMAIN sent <=> key \in DOMAIN route.args /\ route.args[key] \in DOMAIN args
               /\ \A key \in DOMAIN sent : sent[key] = args[route.args[key]]
  BY DEF Dispatch!MappedArgs, Dispatch!Mapped

\* A request that a guard has built asks for nothing but what is good, or large where
\* that may be; it has no reason to refuse arguments that suit the endpoint and are all there.
Permitted(sent) ==
    \A key \in DOMAIN sent :
       sent[key] = "good" \/ (sent[key] = "large" /\ key \in Dispatch!IntegerKeys \ Dispatch!pagination)

LEMMA BuiltIsPermitted ==
    ASSUME NEW chain, NEW endpoint, NEW source, Dispatch!Build(chain, endpoint, source).refused = "no"
    PROVE  Permitted(Dispatch!Build(chain, endpoint, source).sent)
  <1> DEFINE entry == Dispatch!CatalogOf[chain][endpoint]
             declared == entry.query \cup ({entry.path} \ {Dispatch!NoPath})
             used == Dispatch!Present(source) \cap declared
             sent == [key \in used |-> Dispatch!Clamped(key, source[key])]
  <1>1. \A key \in used : Dispatch!Valid(chain, key, source[key])
    BY DEF Dispatch!Build, Dispatch!Refuse
  <1>2. Dispatch!Build(chain, endpoint, source).sent = sent
    BY DEF Dispatch!Build, Dispatch!Refuse
  <1>3. \A key \in used : Dispatch!Clamped(key, source[key]) = "good"
                          \/ (Dispatch!Clamped(key, source[key]) = "large"
                              /\ key \in Dispatch!IntegerKeys \ Dispatch!pagination)
    BY <1>1 DEF Dispatch!Valid, Dispatch!Clamped
  <1> HIDE DEF used
  <1> QED
    BY <1>2, <1>3 DEF Permitted

\* What is sent has keys of args, and those for sure that are mapped from what is required.
Fills(source, required, args) ==
    /\ \A key \in DOMAIN source : key \in DOMAIN args
    /\ \A key \in DOMAIN args : args[key] \in required \ {"network"} =>
          key \in DOMAIN source /\ source[key] # "absent"

LEMMA SuitedIsBuilt ==
    ASSUME NEW chain, NEW endpoint, NEW source, NEW required, NEW args,
           endpoint \in DOMAIN Dispatch!CatalogOf[chain],
           Suits(required, Dispatch!CatalogOf[chain][endpoint], args),
           Fills(source, required, args)
    PROVE  Dispatch!Build(chain, endpoint, source).refused \in {"no", "invalid"}
  <1> DEFINE entry == Dispatch!CatalogOf[chain][endpoint]
             declared == entry.query \cup ({entry.path} \ {Dispatch!NoPath})
             used == Dispatch!Present(source) \cap declared
  <1>1. DOMAIN source \subseteq declared
    BY DEF Suits, Fills, Dispatch!NoPath
  <1>2. entry.required \cup ({entry.path} \ {Dispatch!NoPath}) \subseteq used
    <2>1. ASSUME NEW key \in entry.required \cup ({entry.path} \ {Dispatch!NoPath})
          PROVE  key \in Dispatch!Present(source)
      BY <2>1 DEF Suits, Fills, Dispatch!NoPath, Dispatch!Present
    <2> QED
      BY <1>1, <2>1 DEF Dispatch!Present
  <1> HIDE DEF entry
  <1>3. \/ Dispatch!Build(chain, endpoint, source) = Dispatch!Refuse("invalid")
        \/ Dispatch!Build(chain, endpoint, source).refused = "no"
    BY <1>1, <1>2 DEF Dispatch!Build, entry
  <1> QED
    BY <1>3 DEF Dispatch!Refuse

\* How a call may end: the cases of Routed, without the handlers.
Explorers == {"query_indexer", "x_query"} \cup WrapperNames \cup XWrapperNames
Unexpected(c, internal, result) ==
    result.outcome = "refused" /\
    \/ result.why \in {"endpoint", "unknown"} /\ c.tool # "query_explorer"
    \/ result.why = "missing" /\ c.tool # "query_explorer" /\ internal \in Explorers
WellAsked(c, chain, result) ==
    /\ result.chain = chain /\ result.network = Dispatch!Meant(c, chain)
    /\ c.tool = "query_explorer_find" => "find" \in switches
    /\ c.tool = "query_explorer_graphql" => "graphql" \in switches
    /\ chain = "neox" /\ result.network = "testnet" => "neoxTestnet" \in switches
    /\ Permitted(result.sent)
EndsWell(c, chain, internal, result) ==
    \/ result.outcome = "unavailable" /\ c.network \in Dispatch!Networks \ mode
    \/ result.outcome = "disabled" /\ result.why \notin switches
    \/ result.outcome = "refused" /\ ~Unexpected(c, internal, result)
    \/ result.outcome = "answered"
    \/ result.outcome = "asked" /\ WellAsked(c, chain, result)

LEMMA RoutedIf ==
    ASSUME NEW c, NEW chain, NEW result,
           LET route == Dispatch!PUBLIC_TOOLS[c.tool].routes[chain]
           IN  /\ route.internal \in DOMAIN Dispatch!Handlers =>
                     DOMAIN Dispatch!MappedArgs(c.tool, chain, c.args)
                         \subseteq Dispatch!Reads(Dispatch!Handlers[route.internal])
               /\ EndsWell(c, chain, route.internal, result)
    PROVE  Dispatch!Routed(c, chain, result)
  <1> DEFINE route == Dispatch!PUBLIC_TOOLS[c.tool].routes[chain]
  <1>1. route.internal \in {"query_indexer", "x_query"} \cup DOMAIN Dispatch!N3_INDEXER_TOOLS
                           \cup DOMAIN Dispatch!NEOX_TOOLS <=> route.internal \in Explorers
    BY InternalNames DEF Explorers
  <1> HIDE DEF route
  <1> QED
    BY <1>1 DEF Dispatch!Routed, EndsWell, Unexpected, WellAsked, Permitted, route

\* The network that a client is told is the one that was asked for, or mainnet.
LEMMA NetworkIs ==
    ASSUME NEW route, NEW network \in {"mainnet", "testnet", "none"}
    PROVE  LET told == Dispatch!MappedNetwork(route, network)
               meant == IF network = "none" THEN "mainnet" ELSE network
           IN  /\ route.network = "pass" => told = network
               /\ route.network = "drop" => told = "none"
               /\ route.network \in {"pass", "prefix"} => Dispatch!NeoxNetwork(told) = meant
               /\ Dispatch!NeoxNetwork("none") = "mainnet"
               /\ Dispatch!IndexerNetwork(network) = meant
               /\ Dispatch!IndexerNetwork("none") = "mainnet"
  BY DEF Dispatch!MappedNetwork, Dispatch!NeoxNetwork, Dispatch!IndexerNetwork

LEMMA OutcomesAre ==
    /\ \A outcome, why :
          Dispatch!Outcome(outcome, why).outcome = outcome /\ Dispatch!Outcome(outcome, why).why = why
    /\ \A chain, network, sent :
          LET asked == Dispatch!Asked(chain, network, sent)
          IN  asked.outcome = "asked" /\ asked.chain = chain /\ asked.network = network /\ asked.sent = sent
  BY DEF Dispatch!Outcome, Dispatch!Nobody, Dispatch!Asked

\* The ends of the three kinds of requests.
LEMMA NeoxEndsWell ==
    ASSUME NEW c, NEW internal, NEW network, NEW sent, Permitted(sent),
           Dispatch!NeoxNetwork(network) = Dispatch!Meant(c, "neox"),
           c.tool # "query_explorer_find", c.tool = "query_explorer_graphql" => "graphql" \in switches
    PROVE  EndsWell(c, "neox", internal, Dispatch!AskNeox(network, sent))
  BY OutcomesAre DEF EndsWell, WellAsked, Dispatch!AskNeox

LEMMA NodeEndsWell ==
    ASSUME NEW c, NEW internal, NEW args, c.network \in Dispatch!Networks \cup {"none"}, mode \in Dispatch!Modes,
           neoServices' = mode, Dispatch!PUBLIC_TOOLS[c.tool].routes["n3"].services, internal \notin Explorers,
           c.tool \notin {"query_explorer_find", "query_explorer_graphql"}
    PROVE  EndsWell(c, "n3", internal, Dispatch!AskNode(internal, c.network, args))
  <1> DEFINE selected == Dispatch!Select(c.network)
  <1>1. /\ selected = "unavailable" => c.network \in Dispatch!Networks \ mode
        /\ selected # "unavailable" => selected = Dispatch!Meant(c, "n3")
    BY DEF Dispatch!Select, Dispatch!Meant, Dispatch!Modes, Dispatch!Networks
  <1>2. Permitted(<<>>)
    BY DEF Permitted
  <1> HIDE DEF selected
  <1>3. CASE selected = "unavailable"
    BY <1>1, <1>3, OutcomesAre DEF EndsWell, Dispatch!AskNode, selected
  <1>4. CASE selected # "unavailable"
    BY <1>1, <1>2, <1>4, OutcomesAre DEF EndsWell, Unexpected, WellAsked, Dispatch!AskNode, selected
  <1> QED
    BY <1>3, <1>4

\* chosen: the caller chose the endpoint.
LEMMA ExplorerEndsWell ==
    ASSUME NEW c, NEW internal, NEW chain \in {"n3", "neox"}, NEW network, NEW endpoint, NEW source,
           c.tool \notin {"query_explorer_find", "query_explorer_graphql"},
           (IF chain = "neox" THEN Dispatch!NeoxNetwork(network) ELSE Dispatch!IndexerNetwork(network))
               = Dispatch!Meant(c, chain),
           c.tool # "query_explorer" => Dispatch!Build(chain, endpoint, source).refused \in {"no", "invalid"}
    PROVE  EndsWell(c, chain, internal, Dispatch!AskExplorer(chain, network, endpoint, source))
  <1> DEFINE built == Dispatch!Build(chain, endpoint, source)
             result == Dispatch!AskExplorer(chain, network, endpoint, source)
  <1>1. built.refused = "no" => Permitted(built.sent)
    BY BuiltIsPermitted
  <1> HIDE DEF built
  <1>2. CASE built.refused # "no"
    <2>1. result = Dispatch!Outcome("refused", built.refused)
      BY <1>2 DEF Dispatch!AskExplorer, built
    <2> QED
      BY <1>2, <2>1, OutcomesAre DEF EndsWell, Unexpected, built
  <1>3. CASE built.refused = "no" /\ chain = "neox"
    <2>1. result = Dispatch!AskNeox(network, built.sent)
      BY <1>3 DEF Dispatch!AskExplorer, built
    <2> QED
      BY <1>1, <1>3, <2>1, NeoxEndsWell
  <1>4. CASE built.refused = "no" /\ chain = "n3"
    <2>1. result = Dispatch!Asked("n3", Dispatch!IndexerNetwork(network), built.sent)
      BY <1>4 DEF Dispatch!AskExplorer, built
    <2> QED
      BY <1>1, <1>4, <2>1, OutcomesAre DEF EndsWell, WellAsked
  <1> QED
    BY <1>2, <1>3, <1>4

\* A call that a route serves is served as it should be.
LEMMA ServedIsRouted ==
    ASSUME NEW c, Dispatch!CallForm(c), Dispatch!Admitted(c), mode \in Dispatch!Modes,
           NEW chain \in {"meta", "n3", "neox"}, NEW endpoint, NEW source,
           LET tool == Dispatch!PUBLIC_TOOLS[c.tool]
               route == tool.routes[chain]
           IN  /\ RouteFits(c.tool, tool, chain)
               /\ ~Dispatch!Unserved(c.tool, chain, c.network, c.args)
               /\ Dispatch!ServicesFor(route)
               /\ route.endpoint # "none" =>
                     endpoint = route.endpoint /\ source = Dispatch!MappedArgs(c.tool, chain, c.args)
    PROVE  LET route == Dispatch!PUBLIC_TOOLS[c.tool].routes[chain]
           IN  Dispatch!Routed(c, chain,
                  Dispatch!CallTool(route.internal, Dispatch!MappedNetwork(route, c.network),
                                    Dispatch!MappedArgs(c.tool, chain, c.args), endpoint, source))
  <1> DEFINE tool == Dispatch!PUBLIC_TOOLS[c.tool]
             route == tool.routes[chain]
             args == Dispatch!MappedArgs(c.tool, chain, c.args)
             network == Dispatch!MappedNetwork(route, c.network)
             result == Dispatch!CallTool(route.internal, network, args, endpoint, source)
             Read == route.internal \in DOMAIN Dispatch!Handlers =>
                        DOMAIN args \subseteq Dispatch!Reads(Dispatch!Handlers[route.internal])
             Ends == EndsWell(c, chain, route.internal, result)
             Plain == /\ c.tool \notin {"query_explorer_find", "query_explorer_graphql"}
                      /\ ~(c.tool = "get_contract_info" /\ chain = "neox")
  <1>1. c.network \in {"mainnet", "testnet", "none"}
    BY DEF Dispatch!CallForm, Dispatch!Networks
  <1>2. /\ \A key \in DOMAIN c.args : c.args[key] # "absent"
        /\ \A key \in tool.required \ {"network"} : key \in DOMAIN c.args
    BY DEF Dispatch!CallForm
  <1>3. Plain =>
           /\ \A key : key \in DOMAIN args <=> key \in DOMAIN route.args /\ route.args[key] \in DOMAIN c.args
           /\ \A key \in DOMAIN args : args[key] = c.args[route.args[key]]
    BY ArgumentsAre
  <1>4. Dispatch!Meant(c, chain) =
           IF c.network # "none" THEN c.network
           ELSE IF route.services /\ "mainnet" \notin mode THEN "testnet" ELSE "mainnet"
    BY DEF Dispatch!Meant
  <1>5. /\ route.network = "pass" => network = c.network
        /\ route.network = "drop" => network = "none"
        /\ ~route.services /\ route.network \in {"pass", "prefix"} =>
              Dispatch!NeoxNetwork(network) = Dispatch!Meant(c, chain)
        /\ ~route.services /\ c.network # "testnet" =>
              /\ Dispatch!NeoxNetwork("none") = Dispatch!Meant(c, chain)
              /\ Dispatch!IndexerNetwork("none") = Dispatch!Meant(c, chain)
        /\ ~route.services => Dispatch!IndexerNetwork(c.network) = Dispatch!Meant(c, chain)
    BY <1>1, <1>4, NetworkIs
  <1>6. RouteFits(c.tool, tool, chain)
    OBVIOUS
  <1>7. route.services => neoServices' = mode
    BY DEF Dispatch!ServicesFor, Dispatch!EnsureServices
  <1>8. ASSUME NEW handlers, Serves(handlers, route), Within(handlers, Dispatch!Handlers),
               Plain
        PROVE  Read
    BY <1>3, <1>8 DEF Serves, Within, Dispatch!Reads
  <1>9. route.endpoint # "none" => endpoint = route.endpoint /\ source = args
    OBVIOUS
  <1>10. Read /\ Ends => Dispatch!Routed(c, chain, result)
    BY RoutedIf
  <1> HIDE DEF tool, route, args, network, result
  <1>11. ASSUME NEW handlers, Plain, AtHome(handlers, route), Within(handlers, Dispatch!Handlers),
                route.internal \in LocalNames \cup DataNames \cup {"get_neo_service_info"}
         PROVE  Read /\ Ends
    <2>1. PICK outcome \in {"answered", "refused"} : result = Dispatch!Outcome(outcome, "missing")
      BY <1>11, CallIs DEF result
    <2>2. route.internal \notin Explorers
      BY <1>11 DEF LocalNames, DataNames, Explorers, WrapperNames, XWrapperNames
    <2> QED
      BY <1>8, <1>11, <2>1, <2>2, OutcomesAre DEF AtHome, EndsWell, Unexpected
  <1>12. ASSUME NEW handlers, Plain, chain = "n3", AtNode(handlers, route), Within(handlers, Dispatch!Handlers),
                route.internal \in ReadNames \cup AccountNames \cup ContractToolNames \cup N3ProposalNames
                                   \cup EcosystemNames
         PROVE  Read /\ Ends
    <2>1. result = Dispatch!AskNode(route.internal, network, args)
      BY <1>12, CallIs DEF result
    <2>2. route.internal \notin Explorers
      BY <1>12 DEF ReadNames, AccountNames, ContractToolNames, N3ProposalNames, EcosystemNames, Explorers,
                   WrapperNames, XWrapperNames
    <2>3. network = c.network /\ neoServices' = mode
      BY <1>5, <1>7, <1>12 DEF AtNode
    <2>4. Dispatch!PUBLIC_TOOLS[c.tool].routes["n3"].services
      BY <1>12 DEF AtNode, route, tool
    <2>5. Ends
      BY <1>1, <1>12, <2>1, <2>2, <2>3, <2>4, NodeEndsWell DEF Dispatch!Networks
    <2> QED
      BY <1>8, <1>12, <2>5 DEF AtNode
  <1>13. ASSUME NEW handlers, Plain, chain = "neox", AtNeox(handlers, route), Within(handlers, Dispatch!Handlers),
                route.internal \in XNodeNames \cup XProposalNames \cup XWrapperNames,
                route.internal \in Explorers => Dispatch!Supplied(Dispatch!Handlers[route.internal], args)
         PROVE  Read /\ Ends
    <2>1. result = Dispatch!AskX(route.internal, network, args)
      BY <1>13, CallIs DEF result
    <2>2. \/ result = Dispatch!AskNeox(network, <<>>)
          \/ result = Dispatch!Outcome("refused", "missing") /\ route.internal \notin Explorers
          \/ result = Dispatch!Outcome("refused", "invalid")
      BY <1>13, <2>1 DEF Dispatch!AskX
    <2>3. EndsWell(c, "neox", route.internal, Dispatch!AskNeox(network, <<>>))
      <3>1. Permitted(<<>>)
        BY DEF Permitted
      <3>2. Dispatch!NeoxNetwork(network) = Dispatch!Meant(c, "neox")
        BY <1>5, <1>13 DEF AtNeox
      <3> QED
        BY <1>13, <3>1, <3>2, NeoxEndsWell
    <2>4. Ends
      BY <1>13, <2>2, <2>3, OutcomesAre DEF EndsWell, Unexpected
    <2> QED
      BY <1>8, <1>13, <2>4 DEF AtNeox
  <1>14. ASSUME chain = "neox", Plain, AtExplorer(tool, route)
         PROVE  Read /\ Ends
    <2>1. route.internal \in XWrapperNames
      BY <1>14, InternalNames DEF AtExplorer, AtNeox, Serves
    <2>2. Dispatch!Handlers[route.internal] = Dispatch!NEOX_TOOLS[route.internal]
      BY <2>1, InternalNames, HandlersWithin DEF Within
    <2>3. Dispatch!Supplied(Dispatch!Handlers[route.internal], args)
      BY <1>2, <1>3, <1>14, <2>2 DEF AtExplorer, Dispatch!Supplied
    <2> QED
      BY <1>13, <1>14, <2>1, <2>3, HandlersWithin DEF AtExplorer
  <1>15. ASSUME chain = "n3", Plain, AtIndex(c.tool, tool, route)
         PROVE  Read /\ Ends
    <2>1. Read
      BY <1>15, HandlersWithin DEF AtIndex
    <2>2. endpoint = route.endpoint /\ source = args
      BY <1>9, <1>15 DEF AtIndex
    <2>3. result = Dispatch!AskExplorer("n3", network, endpoint, source)
      BY <1>15, CallIs DEF result, AtIndex
    <2>4. Dispatch!IndexerNetwork(network) = Dispatch!Meant(c, "n3")
      <3>1. route.network = "drop" => c.network # "testnet"
        <4>1. ~Dispatch!Unserved(c.tool, chain, c.network, c.args)
          OBVIOUS
        <4> QED
          BY <1>15, <4>1 DEF AtIndex, Dispatch!Unserved
      <3> QED
        BY <1>5, <1>15, <3>1 DEF AtIndex
    <2>5. Dispatch!Build("n3", endpoint, source).refused \in {"no", "invalid"}
      <3>1. Dispatch!CatalogOf["n3"] = Dispatch!N3_REST_CATALOG
        BY DEF Dispatch!CatalogOf
      <3>2. Suits(tool.required, Dispatch!CatalogOf["n3"][endpoint], route.args)
        BY <1>15, <2>2, <3>1 DEF AtIndex
      <3>3. endpoint \in DOMAIN Dispatch!CatalogOf["n3"]
        BY <1>15, <2>2, <3>1 DEF AtIndex
      <3>4. Fills(source, tool.required, route.args)
        BY <1>2, <1>3, <1>15, <2>2 DEF Fills
      <3> QED
        BY <3>2, <3>3, <3>4, SuitedIsBuilt
    <2>6. Ends
      BY <1>15, <2>3, <2>4, <2>5, ExplorerEndsWell
    <2> QED
      BY <2>1, <2>6
  <1>16. ASSUME chain = "n3", Plain, AtWrapper(tool, route)
         PROVE  Read /\ Ends
    <2> DEFINE wrapper == Dispatch!N3_INDEXER_TOOLS[route.internal]
               wrapped == Dispatch!Wrapped(route.internal, args)
               needed == WrapperNeeds(route.internal)
    <2>1. Read
      BY <1>16, HandlersWithin DEF AtWrapper
    <2>2. result = Dispatch!AskExplorer("n3", network, wrapper.endpoint, wrapped)
      BY <1>16, CallIs DEF result, AtWrapper
    <2>3. Dispatch!IndexerNetwork(network) = Dispatch!Meant(c, "n3")
      BY <1>5, <1>16 DEF AtWrapper
    <2>4. needed \in DOMAIN args /\ args[needed] # "absent"
      <3>1. needed # "network"
        BY DEF WrapperNeeds
      <3> QED
        BY <1>2, <1>3, <1>16, <3>1 DEF AtWrapper
    <2>5. /\ wrapper.endpoint \in DOMAIN Dispatch!CatalogOf["n3"]
          /\ Suits({needed}, Dispatch!CatalogOf["n3"][wrapper.endpoint], wrapper.args)
      BY <1>16, WrappersFit DEF AtWrapper, WrapperFits, Dispatch!CatalogOf
    <2>6. /\ DOMAIN wrapped = DOMAIN wrapper.args
          /\ \A key \in DOMAIN wrapper.args : wrapper.args[key] = needed => wrapped[key] = args[needed]
      BY <2>4 DEF Dispatch!Wrapped
    <2> HIDE DEF wrapper, wrapped, needed
    <2>9. Fills(wrapped, {needed}, wrapper.args)
      BY <2>4, <2>6 DEF Fills
    <2>7. Dispatch!Build("n3", wrapper.endpoint, wrapped).refused \in {"no", "invalid"}
      BY <2>5, <2>9, SuitedIsBuilt
    <2>8. Ends
      BY <1>16, <2>2, <2>3, <2>7, ExplorerEndsWell
    <2> QED
      BY <2>1, <2>8
  <1>17. ASSUME Particular(c.tool, tool, chain, route)
         PROVE  Read /\ Ends
    <2>1. ~Dispatch!Unserved(c.tool, chain, c.network, c.args)
      OBVIOUS
    <2>2. "network" \notin tool.required \cup tool.optional => c.network = "none"
      BY DEF Dispatch!CallForm, Dispatch!Schema, tool
    <2>3. "network" \in tool.required => c.network # "none"
      BY DEF Dispatch!Admitted, tool
    <2>4. Permitted(<<>>)
      BY DEF Permitted
    <2>5. CASE c.tool = "query_neofs"
      <3>1. result = Dispatch!Asked("n3", c.network, <<>>) /\ chain = "n3"
        BY <1>5, <1>17, <2>5, CallIs DEF result, Particular
      <3>2. Ends
        BY <1>4, <2>3, <2>4, <2>5, <3>1, <1>17, OutcomesAre DEF Particular, EndsWell, WellAsked
      <3> QED
        BY <1>8, <1>17, <2>5, <3>2, HandlersWithin DEF Particular
    <2>6. CASE c.tool = "get_contract_info"
      <3>1. result = Dispatch!AskExplorer("neox", "none", "get_smart_contract", args) /\ chain = "neox"
        BY <1>5, <1>9, <1>17, <2>6, CallIs DEF result, Particular
      <3>2. Dispatch!NeoxNetwork("none") = Dispatch!Meant(c, "neox")
        BY <1>5, <1>17, <2>1, <2>6, <3>1 DEF Particular, Dispatch!Unserved
      <3>3. Dispatch!Build("neox", "get_smart_contract", args).refused \in {"no", "invalid"}
        <4>1. DOMAIN args = {"address"} /\ args["address"] # "absent"
          <5>1. args = [address |-> c.args[IF "address" \in DOMAIN c.args THEN "address" ELSE "contract"]]
            BY <2>6, <3>1 DEF args, Dispatch!MappedArgs
          <5>2. "address" \in DOMAIN c.args \/ "contract" \in DOMAIN c.args
            BY <2>1, <2>6, <3>1 DEF Dispatch!Unserved
          <5> QED
            BY <1>2, <5>1, <5>2
        <4>2. /\ "get_smart_contract" \in DOMAIN Dispatch!CatalogOf["neox"]
              /\ Suits({"address"}, Dispatch!CatalogOf["neox"]["get_smart_contract"], [address |-> "address"])
          BY Offered DEF Suits, Dispatch!CatalogOf, Dispatch!Endpoint
        <4>3. Fills(args, {"address"}, [address |-> "address"])
          BY <4>1 DEF Fills
        <4> QED
          BY <4>2, <4>3, SuitedIsBuilt
      <3>4. Ends
        BY <2>6, <3>1, <3>2, <3>3, ExplorerEndsWell
      <3>5. Read
        BY <1>17, <2>6, HandlersWithin DEF Particular
      <3> QED
        BY <3>4, <3>5
    <2>7. CASE c.tool = "query_explorer"
      <3>1. Read
        BY <1>17, <2>7, HandlersWithin DEF Particular
      <3>2. CASE chain = "n3"
        <4>1. result = Dispatch!AskExplorer("n3", c.network, endpoint, source)
          BY <1>5, <1>17, <2>7, <3>2, CallIs DEF result, Particular
        <4>2. Dispatch!IndexerNetwork(c.network) = Dispatch!Meant(c, "n3")
          BY <1>5, <1>17, <3>2 DEF Particular
        <4> QED
          BY <2>7, <3>1, <3>2, <4>1, <4>2, ExplorerEndsWell
      <3>3. CASE chain = "neox"
        <4>1. result = Dispatch!AskExplorer("neox", network, endpoint, source)
          BY <1>17, <2>7, <3>3, CallIs DEF result, Particular
        <4>2. Dispatch!NeoxNetwork(network) = Dispatch!Meant(c, "neox")
          BY <1>5, <1>17, <2>7, <3>3 DEF Particular
        <4> QED
          BY <2>7, <3>1, <3>3, <4>1, <4>2, ExplorerEndsWell
      <3> QED
        BY <1>17, <2>7, <3>2, <3>3 DEF Particular
    <2>8. CASE c.tool = "query_explorer_find"
      <3>1. Read
        BY <1>17, <2>8, HandlersWithin DEF Particular
      <3>2. /\ chain = "n3"
            /\ result = IF Dispatch!Gated("find") THEN Dispatch!Outcome("disabled", "find")
                        ELSE Dispatch!Asked("n3", "mainnet", <<>>)
        BY <1>17, <2>8, CallIs DEF result, Particular
      <3>3. Dispatch!Meant(c, chain) = "mainnet"
        BY <1>4, <1>17, <2>2, <2>8 DEF Particular
      <3>4. Ends
        BY <2>4, <2>8, <3>2, <3>3, OutcomesAre DEF EndsWell, WellAsked, Dispatch!Gated
      <3> QED
        BY <3>1, <3>4
    <2>9. CASE c.tool = "query_explorer_graphql"
      <3>1. Read
        BY <1>17, <2>9, HandlersWithin DEF Particular
      <3>2. /\ chain = "neox"
            /\ result = IF Dispatch!Gated("graphql") THEN Dispatch!Outcome("disabled", "graphql")
                        ELSE Dispatch!AskNeox("none", <<>>)
        BY <1>5, <1>17, <2>9, CallIs DEF result, Particular
      <3>3. Dispatch!NeoxNetwork("none") = Dispatch!Meant(c, "neox")
        BY <1>5, <1>17, <2>2, <2>9, <3>2 DEF Particular
      <3>4. CASE "graphql" \in switches
        <4>1. result = Dispatch!AskNeox("none", <<>>)
          BY <3>2, <3>4 DEF Dispatch!Gated
        <4>2. EndsWell(c, "neox", route.internal, Dispatch!AskNeox("none", <<>>))
          BY <2>4, <2>9, <3>3, <3>4, NeoxEndsWell
        <4> QED
          BY <3>1, <3>2, <4>1, <4>2
      <3>5. CASE "graphql" \notin switches
        <4>1. result = Dispatch!Outcome("disabled", "graphql")
          BY <3>2, <3>5 DEF Dispatch!Gated
        <4> QED
          BY <3>1, <3>5, <4>1, OutcomesAre DEF EndsWell
      <3> QED
        BY <3>4, <3>5
    <2> QED
      BY <1>17, <2>5, <2>6, <2>7, <2>8, <2>9 DEF Particular
  <1>18. Read /\ Ends
    <2>1. \A handlers : AtHome(handlers, route) \/ AtNode(handlers, route) \/ AtNeox(handlers, route)
                           => route.internal \in DOMAIN handlers
      BY DEF AtHome, AtNode, AtNeox, Serves
    <2>2. AtHome(Dispatch!ECOSYSTEM_META_TOOLS, route) /\ route.internal = "get_neo_service_info" /\ Plain
             => Read /\ Ends
      BY <1>11, HandlersWithin
    <2>3. AtHome(Dispatch!LocalTools, route) \/ AtHome(Dispatch!NEO_DATA_TOOLS, route) => (Plain => Read /\ Ends)
      BY <1>11, <2>1, HandlersWithin, InternalNames
    <2>4. chain = "n3" /\ Plain =>
             \A handlers \in {Dispatch!ReadHandlers, Dispatch!AccountHandlers, Dispatch!ContractHandlers,
                              Dispatch!N3_PROPOSAL_TOOLS, Dispatch!ECOSYSTEM_N3_TOOLS} :
                AtNode(handlers, route) => Read /\ Ends
      BY <1>12, <2>1, HandlersWithin, InternalNames
    <2>5. chain = "neox" /\ Plain =>
             \A handlers \in {Dispatch!NEOX_NODE_TOOLS, Dispatch!NEOX_PROPOSAL_TOOLS} :
                AtNeox(handlers, route) => Read /\ Ends
      <3>1. \A x \in XNodeNames \cup XProposalNames : x \notin Explorers
        BY DEF XNodeNames, XProposalNames, Explorers, WrapperNames, XWrapperNames
      <3> QED
        BY <1>13, <2>1, <3>1, HandlersWithin, InternalNames
    <2> HIDE DEF Read, Ends
    <2> QED
      BY <1>6, <1>14, <1>15, <1>16, <1>17, <2>2, <2>3, <2>4, <2>5 DEF RouteFits, route
  <1> QED
    BY <1>10, <1>18 DEF route, args, network, result, tool

\* What was last called was served as it should be, and the networks are the configured ones.
RoutesInv == mode \in Dispatch!Modes /\ Dispatch!RoutesAreServed

LEMMA RoutesInitially ==
    ASSUME Dispatch!Init
    PROVE  RoutesInv
  BY DEF Dispatch!Init, Dispatch!NoCall, Dispatch!Nobody, RoutesInv, Dispatch!RoutesAreServed

LEMMA RoutesInductive ==
    ASSUME RoutesInv, [Dispatch!Next]_(Dispatch!vars)
    PROVE  RoutesInv'
  <1>1. mode' = mode /\ switches' = switches
    BY DEF Dispatch!Next, Dispatch!vars, Dispatch!Call, Dispatch!ReadResource
  <1>2. CASE lastCall' = lastCall
    BY <1>1, <1>2 DEF RoutesInv, Dispatch!RoutesAreServed, Dispatch!Routed, Dispatch!Meant
  <1>3. ASSUME NEW c \in ToolCalls, Dispatch!Call(c)
        PROVE  RoutesInv'
    <2> DEFINE chain   == Dispatch!ResolveChain(c.tool, c.chain)
               route   == Dispatch!PUBLIC_TOOLS[c.tool].routes[chain]
               args    == Dispatch!MappedArgs(c.tool, chain, c.args)
               network == Dispatch!MappedNetwork(route, c.network)
               endpoint == IF route.endpoint # "none" THEN route.endpoint ELSE c.endpoint
               source  == IF route.endpoint # "none" THEN args ELSE c.params
               result  == Dispatch!CallTool(route.internal, network, args, endpoint, source)
               refused == ~Dispatch!Admitted(c) \/ chain = "refused"
                          \/ Dispatch!Unserved(c.tool, chain, c.network, c.args)
    <2>1. Dispatch!CallForm(c)
      BY PartsConstants DEF Dispatch!ConstantsOK
    <2>2. CASE refused
      <3>1. lastCall'.result.why = "registry"
        <4>1. lastCall' = [call |-> c, chain |-> chain, result |-> Dispatch!Outcome("refused", "registry")]
          BY <1>3, <2>2 DEF Dispatch!Call
        <4> QED
          BY <4>1, OutcomesAre
      <3> QED
        BY <1>1, <3>1 DEF RoutesInv, Dispatch!RoutesAreServed
    <2>3. CASE ~refused
      <3>1. /\ lastCall' = [call |-> c, chain |-> chain, result |-> result]
            /\ Dispatch!ServicesFor(route)
        BY <1>3, <2>3 DEF Dispatch!Call
      <3>2. /\ chain \in {"meta", "n3", "neox"}
            /\ RouteFits(c.tool, Dispatch!PUBLIC_TOOLS[c.tool], chain)
        BY <2>1, <2>3, ChainFits DEF Dispatch!CallForm
      <3>3. Dispatch!Routed(c, chain, result)
        <4>1. route.endpoint # "none" => endpoint = route.endpoint /\ source = args
          OBVIOUS
        <4> HIDE DEF endpoint, source
        <4> QED
          BY <2>1, <2>3, <3>1, <3>2, <4>1, ServedIsRouted DEF RoutesInv
      <3> HIDE DEF chain, result
      <3>4. (Dispatch!Routed(lastCall.call, lastCall.chain, lastCall.result))'
        BY <1>1, <3>1, <3>3 DEF Dispatch!Routed, Dispatch!Meant
      <3> QED
        BY <1>1, <3>4 DEF RoutesInv, Dispatch!RoutesAreServed
    <2> QED
      BY <2>2, <2>3
  <1> QED
    BY <1>2, <1>3 DEF Dispatch!Next, Dispatch!vars, Dispatch!ReadResource
=============================================================================
