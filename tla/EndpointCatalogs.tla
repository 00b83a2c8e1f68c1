--------------------------- MODULE EndpointCatalogs ---------------------------
(***************************************************************************)
(* What the explorers of the two chains may be asked: the catalogs         *)
(* src/src/indexer/n3-rest-catalog.ts and blockscout-catalog.ts, and the   *)
(* guards n3-rest-guard.ts and blockscout-query-guard.ts that build every  *)
(* request from them.  Path templates and the syntax of values are left    *)
(* out: a value is good for its key, bad, or too large.                    *)
(***************************************************************************)
EXTENDS Tables

\* An endpoint: the key of its one path segment or NoPath, the keys of its query, and
\* those among them that must be there.
NoPath == "none"
Endpoint(path, query, required) == [path |-> path, query |-> query, required |-> required]
Endpoints(names, path, query) == [name \in names |-> Endpoint(path, query, {})]
pagination == {"limit", "offset"}

N3Lists ==
    Endpoints({"network_summary", "network_status"}, NoPath, {})
    ++ Endpoints({"list_blocks", "list_transactions", "list_tokens", "list_contracts",
                  "analytics_daily"}, NoPath, pagination)
    ++ Entry("list_candidate_voters", Endpoint(NoPath, pagination \cup {"candidate"}, {"candidate"}))
    ++ Entry("list_validators", Endpoint(NoPath, {"limit"}, {}))
    ++ Entry("search", Endpoint(NoPath, {"q"}, {"q"}))
    ++ Entry("analyze_consensus_health", Endpoint(NoPath,
          {"lookback", "streak_threshold", "duration_threshold_s", "max_data_age_s", "max_clock_skew_s"}, {}))

N3Names ==
    Endpoints({"list_nns_domains"}, NoPath, pagination)
    ++ Entry("list_address_labels", Endpoint(NoPath, {"limit", "addresses"}, {}))
    ++ Entry("list_contract_labels", Endpoint(NoPath, {"limit", "hashes"}, {}))

N3Transactions ==
    Endpoints({"get_block"}, "blockRef", {})
    ++ Endpoints({"get_transaction", "analyze_transaction"}, "txid", {})
    ++ Entry("investigate_transactions", Endpoint(NoPath, {"txids"}, {"txids"}))

N3Accounts ==
    Endpoints({"get_address_summary"}, "address", {})
    ++ Entry("analyze_address", Endpoint("address", {"sample", "limit"}, {}))
    ++ Entry("analyze_account_graph", Endpoint("address", {"limit"}, {}))
    ++ Entry("analyze_address_connection", Endpoint("address", {"target", "sample", "limit"}, {"target"}))
    ++ Endpoints({"list_address_balances", "list_address_transactions", "list_address_transfers"},
                 "address", pagination)

N3Contracts ==
    Endpoints({"get_token", "get_contract", "analyze_contract", "analyze_contract_upgrades",
               "get_contract_source_verification"}, "hash", {})
    ++ Endpoints({"list_token_holders", "inspect_contract_code", "list_contract_calls",
                  "list_contract_notifications"}, "hash", pagination)
    ++ Entry("list_contract_events", Endpoint("hash", pagination \cup {"event_name", "tx_hash", "block_height"}, {}))

N3_REST_CATALOG == N3Lists ++ N3Names ++ N3Transactions ++ N3Accounts ++ N3Contracts

XLists ==
    Endpoints({"list_blocks", "list_token_transfers", "list_internal_transactions", "list_withdrawals",
               "stats", "main_page_transactions", "main_page_blocks"}, NoPath, {})
    ++ Entry("list_transactions", Endpoint(NoPath, {"filter"}, {}))
    ++ Entry("list_tokens", Endpoint(NoPath, {"q", "type"}, {}))
    ++ Entry("list_smart_contracts", Endpoint(NoPath, {"q"}, {}))
    ++ Entry("search", Endpoint(NoPath, {"q"}, {"q"}))

XAddresses ==
    Endpoints({"get_address", "get_address_counters", "list_address_internal_transactions",
               "list_address_logs", "list_address_token_balances", "list_address_withdrawals",
               "get_token", "get_token_counters", "list_token_holders", "list_token_transfers_of",
               "list_token_instances", "get_smart_contract"}, "address", {})
    ++ Entry("list_address_transactions", Endpoint("address", {"filter"}, {}))
    ++ Entry("list_address_token_transfers", Endpoint("address", {"type"}, {}))

XTransactions ==
    Endpoints({"get_transaction", "get_transaction_logs", "get_transaction_internal_transactions",
               "get_transaction_token_transfers", "get_transaction_state_changes"}, "hash", {})
    ++ Endpoints({"get_block", "list_block_transactions", "list_block_withdrawals"}, "blockRef", {})

X_ENDPOINT_CATALOG == XLists ++ XAddresses ++ XTransactions

CatalogOf == [n3 |-> N3_REST_CATALOG, neox |-> X_ENDPOINT_CATALOG]

-----------------------------------------------------------------------------
(* The guards.  A source is a function from the keys of the caller's       *)
(* object to what they hold; "absent" is a key whose value is undefined.   *)

Values == {"absent", "good", "bad", "large"}
IGNORED_INPUT_KEYS == {"network", "endpoint", "params"}
IntegerKeys == pagination \cup {"sample", "block_height", "lookback", "streak_threshold",
                                "duration_threshold_s", "max_data_age_s", "max_clock_skew_s"}

Present(source) == {key \in DOMAIN source : source[key] # "absent"}
Refuse(why) == [refused |-> why, endpoint |-> "none", sent |-> <<>>]

\* Whether a key has a value that its type admits.  Integers of the N3 index have no
\* upper limit of their own; strings have one, and path segments a syntax.
Valid(chain, key, value) ==
    \/ value = "good"
    \/ value = "large" /\ chain = "n3" /\ key \in IntegerKeys

\* clampInteger().
Clamped(key, value) == IF key \in pagination /\ value = "large" THEN "good" ELSE value

\* assertAllowed...() and build...Request(): the endpoint is in the catalog, no key is
\* unknown, even one that holds nothing, the segment and what is required are there,
\* and every value is valid.  Only declared keys are sent.
Build(chain, endpoint, source) ==
    IF endpoint \notin DOMAIN CatalogOf[chain] THEN Refuse("endpoint")
    ELSE LET entry == CatalogOf[chain][endpoint]
             declared == entry.query \cup ({entry.path} \ {NoPath})
             used == Present(source) \cap declared
         IN  IF ~(DOMAIN source \subseteq declared \cup IGNORED_INPUT_KEYS) THEN Refuse("unknown")
             ELSE IF ~(entry.required \cup ({entry.path} \ {NoPath}) \subseteq used) THEN Refuse("missing")
             ELSE IF \E key \in used : ~Valid(chain, key, source[key]) THEN Refuse("invalid")
             ELSE [refused |-> "no", endpoint |-> endpoint,
                   sent |-> [key \in used |-> Clamped(key, source[key])]]
===============================================================================
