---------------------------- MODULE MCServerParts ----------------------------
(***************************************************************************)
(* ServerParts with values for its constants.                              *)
(***************************************************************************)
EXTENDS ServerParts, ToolHandlers, EndpointCatalogs

-----------------------------------------------------------------------------
(* Constants of McpHttpServer: one request that is served, and those that  *)
(* differ from it in what one check looks at.                              *)

PlainHead == [host |-> "listed", origin |-> "none", method |-> "POST", path |-> "mcp", auth |-> "token",
              json |-> TRUE, declared |-> "unknown", peer |-> "client", forwarded |-> "none"]
MHeads ==
    {[PlainHead EXCEPT !.peer = p, !.forwarded = f] : p \in {"loopback", "client"}, f \in {"none", "claimed"}}
    \cup {[PlainHead EXCEPT !.host = h, !.origin = o] :
             h \in {"none", "listed", "other"}, o \in {"none", "listed", "other"}}
    \cup {[PlainHead EXCEPT !.method = m, !.path = p] :
             m \in {"OPTIONS", "GET", "POST"}, p \in {"health", "mcp", "other"}}
    \cup {[PlainHead EXCEPT !.auth = a] : a \in {"none", "wrong"}}
    \cup {[PlainHead EXCEPT !.json = FALSE], [PlainHead EXCEPT !.declared = "over"]}

MEnvironments ==
    [remote : BOOLEAN, bearer : {"none", "long"}, numbers : {TRUE}, path : {"plain"}, hosts : {TRUE}, origins : BOOLEAN]
    \cup {[remote |-> TRUE, bearer |-> "short", numbers |-> TRUE, path |-> "plain", hosts |-> TRUE, origins |-> FALSE],
          [remote |-> FALSE, bearer |-> "none", numbers |-> TRUE, path |-> "health", hosts |-> FALSE, origins |-> FALSE]}

-----------------------------------------------------------------------------
(* Constants of HttpServer.                                                *)

\* Open and local; a service behind a key; one that signs; and some that are refused.
MDeployments ==
    LET open == OpenServer
        signs == [open EXCEPT !.approvalKey = "approval", !.writesEnabled = TRUE, !.coordinator = TRUE]
    IN  {open, signs, [open EXCEPT !.walletAdministration = TRUE],
         [signs EXCEPT !.apiKey = "key"], [signs EXCEPT !.loopback = FALSE, !.apiKey = "key"],
         [open EXCEPT !.loopback = FALSE, !.apiKey = "key"],
         [open EXCEPT !.loopback = FALSE], [signs EXCEPT !.coordinator = FALSE],
         [signs EXCEPT !.apiKey = "key", !.approvalKey = "key"], [open EXCEPT !.apiKey = "short"]}

MQueries ==
    LET bodies == {"createWallet", "importWallet", "transfer", "claimGas", "invokeWrite", "deploy", "nonePost",
                   "approveIntent", "estimateInvoke", "invoke", "invokeNamed", "estimateTransfer"}
        routes == bodies \cup
            {"live", "metrics", "info", "height", "block", "transaction", "applicationLog", "wait", "balance",
             "unclaimedGas", "nep17Transfers", "nep11Balances", "nep11Transfers", "networkMode",
             "contractStatus", "contractInfo", "getWallet", "getIntent", "none"}
        Good(route) == [route |-> route, auth |-> "approval", limited |-> FALSE,
                        framing |-> IF route \in bodies THEN "object" ELSE "none",
                        valid |-> TRUE, secret |-> FALSE]
    IN  {[Good(route) EXCEPT !.auth = auth] : route \in routes, auth \in {"none", "key", "approval"}}
        \cup {[Good(route) EXCEPT !.auth = "key", !.valid = FALSE] : route \in routes}
        \cup {[Good(route) EXCEPT !.auth = "key", !.limited = TRUE] : route \in {"live", "info", "transfer"}}
        \cup {[Good("transfer") EXCEPT !.auth = "key", !.framing = framing, !.secret = secret] :
                 framing \in {"none", "object", "list", "garbage", "untyped", "otherType", "tooLong"},
                 secret \in BOOLEAN}
        \cup {[Good(route) EXCEPT !.auth = "key", !.secret = TRUE] : route \in {"invoke", "deploy", "claimGas"}}
-----------------------------------------------------------------------------
(* Constants of ContractNames: a bundled name with a hash here, one         *)
(* without, and one that only a manifest has.                               *)

MHome     == [known |-> "h1", away |-> "none"]
MManifest == [h1 |-> "foo", h2 |-> "known"]

-----------------------------------------------------------------------------
(* Constants of TransactionPreparation.                                    *)

MWallets == {[gas |-> 0, neo |-> 3, unclaimed |-> 1], [gas |-> 12, neo |-> 0, unclaimed |-> 1],
             [gas |-> 35, neo |-> 5, unclaimed |-> 0], [gas |-> 35, neo |-> 3, unclaimed |-> 1]}

Decimal(whole, fraction) == [plain |-> TRUE, whole |-> whole, fraction |-> fraction]
GoodRequest(kind) == [kind |-> kind, sender |-> TRUE, recipient |-> TRUE, attributes |-> FALSE, asset |-> "NEO",
                      amount |-> Decimal(<<1>>, <<5>>), arguments |-> TRUE, nef |-> "canonical", manifest |-> TRUE]
MRequests ==
    {[GoodRequest("transfer") EXCEPT !.asset = asset, !.amount = amount] :
        asset \in {"NEO", "GAS", "token", "unknown"},
        amount \in {Decimal(<<1>>, <<5>>), Decimal(<<3>>, <<>>), Decimal(<<0>>, <<0>>),
                    Decimal(<<9, 9>>, <<0, 0, 1>>), Decimal(<<9, 9, 9>>, <<5>>), [plain |-> FALSE, whole |-> <<>>, fraction |-> <<>>]}}
    \cup {GoodRequest(kind) : kind \in {"claimGas", "invoke", "deploy"}}
    \cup {[GoodRequest("estimate") EXCEPT !.asset = "GAS"], [GoodRequest("claimGas") EXCEPT !.sender = FALSE],
          [GoodRequest("transfer") EXCEPT !.recipient = FALSE], [GoodRequest("transfer") EXCEPT !.attributes = TRUE],
          [GoodRequest("invoke") EXCEPT !.arguments = FALSE]}
    \cup {[GoodRequest("deploy") EXCEPT !.nef = nef] : nef \in {"trailing", "oddHex", "looseBase64", "encoding"}}

-----------------------------------------------------------------------------
(* Constants of ContractParams: trees of every shape around two leaves.    *)

Leaf(kind, value) == [kind |-> kind, value |-> value, kids |-> <<>>]
Leaves ==
    {Leaf("null", "null"), Leaf("undefined", ""), Leaf("string", "text"), Leaf("string", "hash"),
     Leaf("string", "0xHASH"), Leaf("string", "address"), Leaf("number", "number -0"),
     Leaf("number", "fraction"), Leaf("bigint", "1"), Leaf("boolean", "true"),
     Leaf("bytes", "bytes"), Leaf("instance", ""), Leaf("Integer", "number 1"), Leaf("Integer", "01"),
     Leaf("Hash160", "0xHASH"), Leaf("Hash160", "text"), Leaf("String", "hash"), Leaf("String", "true"),
     Leaf("Any", "null"), Leaf("Any", "1"), Leaf("ByteArray", "base64"),
     Leaf("ByteArray", "loose"), Leaf("PublicKey", "KEY"), Leaf("Hash256", "KEY"),
     Leaf("Boolean", "true"), Leaf("Struct", "")}
MTrees ==
    LET Branch(kind, kids) == [kind |-> kind, value |-> "", kids |-> kids]
        Array(kids) == Branch("array", kids)
        Object(leaf) == Branch("object", <<Leaf("string", "hash"), leaf>>)
        Null == Leaf("null", "null")
    IN  {<<>>}
        \cup UNION {{<<a>>, <<Array(<<a>>)>>, <<Branch("toJson", <<a>>)>>, <<Object(a)>>,
                     <<Array(<<Array(<<Object(a)>>)>>)>>} : a \in Leaves}
        \cup UNION {{<<Branch("Array", <<a, b>>)>>, <<a, Array(<<b, b, b>>)>>,
                     <<Branch("Map", <<a, Null, b, Array(<<Null>>)>>)>>} : a \in Leaves, b \in Leaves}

-----------------------------------------------------------------------------
(* Constants of ToolDispatch: every tool on every chain, with all that its *)
(* schema requires and with all it knows; for the explorers one value that *)
(* is bad or too large; and every endpoint of the catalogs.                *)

Given(keys) == [key \in keys |-> "good"]
OneOff(keys, values_) == {[Given(keys) EXCEPT ![key] = value] : key \in keys, value \in values_}
AToolCall(tool, chain, network, args, endpoint, params) ==
    [tool |-> tool, chain |-> chain, network |-> network, args |-> args, endpoint |-> endpoint, params |-> params]

ExplorerTool(tool) ==
    tool \in DOMAIN (AnalyzeTools ++ EvidenceTools ++ ExplorerTools) \cup {"explorer_search"}
ArgumentsOf(tool) ==
    LET all == Schema(tool) \ {"network"}
    IN  {Given(all), Given(PUBLIC_TOOLS[tool].required \ {"network"})}
        \cup (IF ExplorerTool(tool) THEN OneOff(all, {"bad", "large"}) ELSE {})
ChainsAsked(tool) ==
    IF tool \in {"get_block", "decode_neo_script", "get_wallet"} THEN Chains \cup {"none"}
    ELSE IF ChainsOf(tool) = {} THEN {"none"} ELSE ChainsOf(tool)
NetworksAsked(tool) == IF "network" \in Schema(tool) THEN {"mainnet", "testnet", "none"} ELSE {"none"}

CallsOf(tool) ==
    {AToolCall(tool, chain, network, args, "none", <<>>) :
        chain \in ChainsAsked(tool), network \in NetworksAsked(tool), args \in ArgumentsOf(tool)}

ParamsOf(chain, endpoint) ==
    LET entry == CatalogOf[chain][endpoint]
        keys  == entry.query \cup ({entry.path} \ {NoPath})
    IN  {<<>>, Given(keys), Entry("colour", "absent") ++ Given(keys)} \cup OneOff(keys, {"bad", "large", "absent"})
QueriesOf(chain) ==
    UNION {{AToolCall("query_explorer", chain, network, Given({"endpoint", "params"}), endpoint, params) :
              network \in {"none", "testnet"}, params \in ParamsOf(chain, endpoint)}
           : endpoint \in DOMAIN CatalogOf[chain]}
    \cup {AToolCall("query_explorer", chain, "none", Given({"endpoint"}), endpoint, <<>>) :
              endpoint \in {"nothing", "list_blocks", "get_block"}}

MToolCalls ==
    UNION {CallsOf(tool) : tool \in DOMAIN PUBLIC_TOOLS \ {"query_explorer"}}
    \cup QueriesOf("n3") \cup QueriesOf("neox")

-----------------------------------------------------------------------------
(* Constants of ChainReads: every read, of blocks around the top, of       *)
(* histories of every kind, and of Neo X blocks by every reference.        *)

PlainAsk(kind) == [kind |-> kind, block |-> 1, root |-> FALSE, from |-> -1, to |-> -1, by |-> "number"]
MReadAsks ==
    {PlainAsk(kind) : kind \in {"n3Info", "n3Balance", "n3Transaction", "n3Status", "n3Log", "n3Invoke", "xInfo",
                               "xTransaction", "xBalance", "xStatus", "xCall"}}
    \cup {[PlainAsk("n3Block") EXCEPT !.block = block, !.root = root] : block \in 1 .. 3, root \in BOOLEAN}
    \cup {[PlainAsk("xBlock") EXCEPT !.block = 2, !.by = by] : by \in {"number", "tag", "hash", "garbage"}}
    \cup {[PlainAsk("n3Transfers") EXCEPT !.from = from, !.to = to] : from \in {-1, 0, 2}, to \in {-1, 1, 2}}

-----------------------------------------------------------------------------
(* Constants of Proposals: every tool with what it looks at varied, and    *)
(* functions of three arguments of which two are of any type.              *)

Amount(whole, fraction) == [whole |-> whole, fraction |-> fraction]
PlainProposal(tool) ==
    [tool |-> tool, network |-> "mainnet", from |-> "alice", to |-> "bob", asset |-> "token",
     amount |-> Amount(<<1>>, <<5>>), decimals |-> NoDecimals, operation |-> "transfer", detail |-> "good",
     signers |-> <<>>, data |-> "given", arguments |-> <<>>, value |-> 1]

ASigner(account, form, scopes) == [account |-> account, form |-> form, scopes |-> scopes]
SignersGiven ==
    {<<>>, <<ASigner("garbage", "address", "CalledByEntry")>>,
     <<ASigner("carol", "address", "Global"), ASigner("alice", "hash", "CalledByEntry")>>}

\* A type and a value of it.
Argument(name, size, value) == <<[name |-> name, size |-> size, alias |-> FALSE], value>>
AString == Argument("string", 0, <<3, 0, 2>>)
Arguments ==
    {Argument("uint", 1, 4), Argument("uint", 1, 3), Argument("int", 1, -2), Argument("int", 1, 2),
     <<[name |-> "uint", size |-> 3, alias |-> TRUE], 37>>, Argument("bool", 1, 1),
     Argument("address", 2, <<1, 2>>), Argument("fixedBytes", 2, <<3, 1>>), Argument("fixedBytes", 2, <<3>>),
     Argument("bytes", 0, <<>>), Argument("bytes", 0, <<1, 2, 3, 1>>), AString}

MProposalAsks ==
    LET n3Tools == {"n3_test_invoke", "n3_build_transfer", "n3_build_invoke", "n3_build_vote", "n3_build_nns_operation"}
        xTools  == {"x_simulate_call", "x_build_transfer", "x_build_contract_call"}
        actions == {"register", "renew", "set_record", "delete_record", "transfer", "bad"}
    IN  {[PlainProposal("n3_build_transfer") EXCEPT !.network = network, !.asset = asset, !.amount = amount, !.decimals = decimals] :
            network \in {"none", "mainnet", "testnet", "other"}, asset \in {"NEO", "GAS", "token", "unknown"},
            amount \in {Amount(<<1>>, <<5>>), Amount(<<2>>, <<>>), Amount(<<0>>, <<0>>)}, decimals \in {NoDecimals, 1, 3}}
        \cup {[PlainProposal(tool) EXCEPT !.network = network, !.operation = operation, !.signers = signers, !.detail = detail] :
            tool \in {"n3_test_invoke", "n3_build_invoke"}, network \in {"none", "testnet"},
            operation \in {"transfer", "mint"}, signers \in SignersGiven, detail \in {"good", "bad"}}
        \cup {[PlainProposal("n3_build_vote") EXCEPT !.detail = detail] : detail \in {"vote", "unvote", "bad"}}
        \cup {[PlainProposal("n3_build_nns_operation") EXCEPT !.network = network, !.detail = action] :
            network \in {"mainnet", "testnet"}, action \in actions}
        \cup {[PlainProposal(tool) EXCEPT !.network = network, !.data = data, !.value = value] :
            tool \in xTools, network \in {"none", "testnet"}, data \in {"given", "none", "odd"}, value \in -1 .. 2}
        \cup {[PlainProposal("x_build_contract_call") EXCEPT !.data = "function", !.arguments = <<a, b, AString>>] :
            a \in Arguments, b \in Arguments}
        \cup {[PlainProposal(tool) EXCEPT !.from = "garbage"] :
            tool \in (n3Tools \cup xTools) \ {"n3_build_nns_operation"}}
        \cup {[PlainProposal("n3_build_nns_operation") EXCEPT !.from = "garbage", !.detail = action] : action \in actions}

MDecimalsOn == [mainnet |-> 2, testnet |-> 1]

-----------------------------------------------------------------------------
(* Constants of EvmRpcClient: lists with nothing, a blank, a duplicate and *)
(* an endpoint that is refused, the last of them at the end.               *)

MUrlLists ==
    {<<>>, <<"blank">>, <<"a">>, <<"a", "b", "c">>, <<"a", "blank", "a", "b">>, <<"a", "b", "ftp">>}
=============================================================================
