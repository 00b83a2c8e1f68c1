----------------------------- MODULE ToolDispatch -----------------------------
(***************************************************************************)
(* A call of a public tool from its registration in src/src/index.ts       *)
(* through resolveRoute() and callTool() of src/src/handlers/              *)
(* tool-handler.ts to the request it becomes, or does not.  The services   *)
(* of Neo N3 are made when a call first needs them, so what a call gets    *)
(* may depend on what was called before.  The rate limit is in             *)
(* RateLimiter, the write tools in WriteApproval; what the node handlers   *)
(* do with their answers is in ChainReads and Proposals.                   *)
(***************************************************************************)
EXTENDS ToolRegistry, ToolHandlers, EndpointCatalogs

CONSTANTS Calls         \* [tool, chain, network, args, endpoint, params]: see CallForms

VARIABLES
    mode,               \* config.networkMode: the networks of Neo N3
    switches,           \* of findEnabled, graphqlEnabled, testnetEnabled those that are set
    neoServices,        \* the networks that have a service; contractServices has the same
    last                \* history: the examined call and what came of it
vars == <<mode, switches, neoServices, last>>

Networks == {"mainnet", "testnet"}
Modes == {Networks, {"mainnet"}, {"testnet"}}
Switches == {"find", "graphql", "neoxTestnet"}

\* args holds what is given of the schema, with Values; a network is given where the
\* schema has one; endpoint and params are those of the tools in which the caller chooses.
CallForm(c) ==
    /\ c.tool \in DOMAIN PUBLIC_TOOLS /\ c.chain \in Chains \cup {"none"}
    /\ c.network \in Networks \cup {"none"}
    /\ PUBLIC_TOOLS[c.tool].required \ {"network"} \subseteq DOMAIN c.args
    /\ DOMAIN c.args \subseteq Schema(c.tool) \ {"network"} /\ \A key \in DOMAIN c.args : c.args[key] # "absent"
    /\ c.network # "none" => "network" \in Schema(c.tool)

ConstantsOK == \A c \in Calls : CallForm(c)

\* Keys whose schema admits only what the handlers do: numbers in range, enumerations.
Typed == Paged \cup {"sample", "lookback", "streak_threshold", "duration_threshold_s", "max_data_age_s",
                     "max_clock_skew_s", "txids"}

\* What the SDK hands on: an argument of the wrong type gets no further.
Admitted(c) ==
    /\ \A key \in DOMAIN c.args \cap Typed : c.args[key] = "good"
    /\ "network" \in PUBLIC_TOOLS[c.tool].required => c.network # "none"

-----------------------------------------------------------------------------
(* What becomes of a call.                                                 *)

Nobody == [outcome |-> "none", why |-> "none", chain |-> "none", network |-> "none", sent |-> <<>>]
Outcome(outcome, why) == [Nobody EXCEPT !.outcome = outcome, !.why = why]
Asked(chain, network, sent) ==
    [outcome |-> "asked", why |-> "none", chain |-> chain, network |-> network, sent |-> sent]

\* resolveIndexerNetwork() and resolveNeoxNetwork(): mainnet unless said otherwise.
IndexerNetwork(network) == IF network = "none" THEN "mainnet" ELSE network
NeoxNetwork(network) == IF network \in {"testnet", "neox-testnet"} THEN "testnet" ELSE "mainnet"

\* A Neo X request: the testnet of either client is behind a switch.
AskNeox(network, sent) ==
    IF NeoxNetwork(network) = "testnet" /\ "neoxTestnet" \notin switches THEN Outcome("disabled", "neoxTestnet")
    ELSE Asked("neox", NeoxNetwork(network), sent)

\* An explorer request as its guard builds it.
AskExplorer(chain, network, endpoint, source) ==
    LET built == Build(chain, endpoint, source)
    IN  IF built.refused # "no" THEN Outcome("refused", built.refused)
        ELSE IF chain = "neox" THEN AskNeox(network, built.sent)
        ELSE Asked("n3", IndexerNetwork(network), built.sent)

\* dispatchN3RestEndpoint() of a wrapper.
Wrapped(tool, args) ==
    LET keys == N3_INDEXER_TOOLS[tool].args
    IN  [key \in DOMAIN keys |-> IF keys[key] \in DOMAIN args THEN args[keys[key]] ELSE "absent"]

\* The service of callTool(): the named one, the only one, mainnet.
Select(network) ==
    IF network # "none" THEN (IF network \in neoServices' THEN network ELSE "unavailable")
    ELSE IF neoServices' = {} THEN "unavailable"
    ELSE IF "mainnet" \in neoServices' THEN "mainnet" ELSE "testnet"

\* The tools that end at a service of their network.
AskNode(tool, network, args) ==
    IF Select(network) = "unavailable" THEN Outcome("unavailable", "network")
    ELSE IF ~Supplied(Handlers[tool], args) THEN Outcome("refused", "missing")
    ELSE Asked("n3", Select(network), <<>>)

\* The tools that go to the Neo X node, or to its explorer by a path of their own.
AskX(tool, network, args) ==
    IF ~Supplied(Handlers[tool], args) THEN Outcome("refused", "missing")
    ELSE IF \E key \in DOMAIN args : args[key] # "good" THEN Outcome("refused", "invalid")
    ELSE AskNeox(network, <<>>)

\* handleQueryIndexerFind() and handleXGraphql() refuse before anything else.
Gated(switch) == switch \notin switches

\* callTool() behind the rate limit, in its order; endpoint and source are those of the
\* generic explorer tools.
CallTool(tool, network, args, endpoint, source) ==
    CASE tool \in DOMAIN LocalTools \cup DOMAIN NEO_DATA_TOOLS \cup {"get_neo_service_info"} ->
            Outcome(IF Supplied(Handlers[tool], args) THEN "answered" ELSE "refused", "missing")
      [] tool = "query_neofs"              -> Asked("n3", network, <<>>)
      [] tool \in DOMAIN N3_INDEXER_TOOLS  ->
            AskExplorer("n3", network, N3_INDEXER_TOOLS[tool].endpoint, Wrapped(tool, args))
      [] tool = "query_indexer"            -> AskExplorer("n3", network, endpoint, source)
      [] tool = "query_indexer_find"       -> IF Gated("find") THEN Outcome("disabled", "find")
                                              ELSE Asked("n3", "mainnet", <<>>)
      [] tool = "x_query"                  -> AskExplorer("neox", network, endpoint, source)
      [] tool = "x_graphql"                -> IF Gated("graphql") THEN Outcome("disabled", "graphql")
                                              ELSE AskNeox(network, <<>>)
      [] tool \in DOMAIN NEOX_TOOLS \cup DOMAIN NEOX_PROPOSAL_TOOLS \cup DOMAIN NEOX_NODE_TOOLS ->
            AskX(tool, network, args)
      [] tool \in DOMAIN N3_PROPOSAL_TOOLS \cup DOMAIN ECOSYSTEM_N3_TOOLS \cup DOMAIN ReadHandlers
                  \cup DOMAIN AccountHandlers \cup DOMAIN ContractHandlers ->
            AskNode(tool, network, args)
      [] OTHER -> Outcome("unhandled", tool)

\* ensureServicesInitialized(): the services of every enabled network, at once.
EnsureServices == neoServices' = mode

\* Deviation: routes are left to the services that are there.
ServicesAsTheyAre(route) == UNCHANGED neoServices

\* A route makes the services before it needs them.
ServicesFor(route) == IF route.services THEN EnsureServices ELSE UNCHANGED neoServices

\* The handler of a registered tool.  Bound: one examined call in a behaviour.
Call(c) ==
    LET chain   == ResolveChain(c.tool, c.chain)
        route   == PUBLIC_TOOLS[c.tool].routes[chain]
        args    == MappedArgs(c.tool, chain, c.args)
        fixed   == route.endpoint # "none"
        network == MappedNetwork(route, c.network)
    IN  /\ IF ~Admitted(c) \/ chain = "refused" \/ Unserved(c.tool, chain, c.network, c.args)
           THEN /\ last' = [call |-> c, chain |-> chain, result |-> Outcome("refused", "registry")]
                /\ UNCHANGED neoServices
           ELSE /\ ServicesFor(route)
                /\ last' = [call |-> c, chain |-> chain, result |->
                      CallTool(route.internal, network, args,
                               IF fixed THEN route.endpoint ELSE c.endpoint,
                               IF fixed THEN args ELSE c.params)]
        /\ UNCHANGED <<mode, switches>>

\* A resource of src/src/handlers/resource-handler.ts is read: its service is made.
ReadResource ==
    /\ EnsureServices
    /\ UNCHANGED <<mode, switches, last>>

NoCall == [call |-> "none", chain |-> "none", result |-> Nobody]

Init ==
    /\ mode \in Modes /\ switches \in SUBSET Switches
    /\ neoServices = {} /\ last = NoCall

Next == (last.result.outcome = "none" /\ \E c \in Calls : Call(c)) \/ ReadResource

Spec == Init /\ [][Next]_vars

-----------------------------------------------------------------------------
(* Properties.                                                             *)

TypeOK ==
    /\ mode \in Modes /\ switches \subseteq Switches /\ neoServices \in {{}, mode}
    /\ last.result.outcome \in {"none", "asked", "answered", "refused", "disabled", "unavailable", "unhandled"}
    /\ last.result.outcome # "none" => CallForm(last.call) /\ last.chain \in Chains \cup {"meta", "refused"}

\* Where a request goes that names no network: to mainnet, unless it goes to a node and
\* only the testnet is enabled.
Meant(c, chain) ==
    IF c.network # "none" THEN c.network
    ELSE IF PUBLIC_TOOLS[c.tool].routes[chain].services /\ "mainnet" \notin mode THEN "testnet"
    ELSE "mainnet"

\* The registry, the handlers and the catalogs agree: every public tool has a handler
\* on every chain it offers, which reads every argument it is handed; a service is
\* missing only where its network is not enabled, whatever was called before; requests
\* go to the chain and the network that were asked for; only an endpoint the caller
\* chose is unknown, or has unknown parameters; what a schema requires is all that the
\* explorers need; and what is switched off, invalid or over a cap is not sent.
Routed(c, chain, result) ==
    LET route == PUBLIC_TOOLS[c.tool].routes[chain]
        explored == route.internal \in {"query_indexer", "x_query"} \cup DOMAIN N3_INDEXER_TOOLS \cup DOMAIN NEOX_TOOLS
        chosen == c.tool = "query_explorer"
    IN  /\ route.internal \in DOMAIN Handlers =>
              DOMAIN MappedArgs(c.tool, chain, c.args) \subseteq Reads(Handlers[route.internal])
        /\ CASE result.outcome = "unavailable" -> c.network \in Networks \ mode
             [] result.outcome = "disabled" -> result.why \notin switches
             [] result.outcome = "refused"  ->
                   /\ result.why \in {"endpoint", "unknown"} => chosen
                   /\ result.why = "missing" => chosen \/ ~explored
             [] result.outcome = "answered" -> TRUE
             [] result.outcome = "asked" ->
                   /\ result.chain = chain /\ result.network = Meant(c, chain)
                   /\ c.tool = "query_explorer_find" => "find" \in switches
                   /\ c.tool = "query_explorer_graphql" => "graphql" \in switches
                   /\ chain = "neox" /\ result.network = "testnet" => "neoxTestnet" \in switches
                   /\ \A key \in DOMAIN result.sent :
                         result.sent[key] = "good" \/ (result.sent[key] = "large" /\ key \in IntegerKeys \ pagination)
             [] OTHER -> FALSE

RoutesAreServed ==
    last.result.outcome # "none" /\ last.result.why # "registry"
        => Routed(last.call, last.chain, last.result)
===============================================================================
