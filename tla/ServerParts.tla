------------------------------ MODULE ServerParts ------------------------------
(***************************************************************************)
(* The parts of the server that share no state with one another, in one    *)
(* specification: a behaviour examines one part and leaves the others as   *)
(* they are.  The health probe and the other requests of HttpServer are    *)
(* two parts.                                                              *)
(***************************************************************************)
EXTENDS McpHttpServer

CONSTANTS
    Deployments, Queries, Ttl, ProbeTime, LastTime,                        \* HttpServer
    Hashes, NoHash, Bundled, Home, OtherNames, NoName, Manifest,           \* ContractNames
    Invocations, negativeCacheMaxEntries,
    Jobs, Requests, Lifespan, MaxFee, MinClaim, VmMax, GasDecimals,        \* TransactionPreparation
    TokenDecimals, Fees, Wallets, Top,
    Trees, MaxParameterDepth, MaxParameterNodes,                           \* ContractParams
    ToolCalls,                                                             \* ToolDispatch
    ReadAsks, MaxLag, Week,                                                \* ChainReads
    ProposalAsks, NoDecimals, DecimalsOn, MaxTokenDecimals,                \* Proposals
    Base, WordBytes, AddressBytes,
    UrlLists, Blank, Unusable, Unlisted                                    \* EvmRpcClient

VARIABLES
    part,                                                                  \* the examined part
    server, now, node, healthStatusCache, healthStatusRequest, waiting,    \* HttpServer
    lastTrue, answer, last,
    deployed, magic, discoveredContractsByName,                            \* ContractNames
    remotelyResolvedContractsByName, negativeNameCache, nameRequests, invocation,
    height, wallet, networkMagic, job,                                     \* TransactionPreparation
    callArguments, callParameters,                                         \* ContractParams
    mode, switches, neoServices, lastCall,                                 \* ToolDispatch
    tip, mined, pooled, halts, validated, read,                            \* ChainReads
    enabled, proposal,                                                     \* Proposals
    evmRequest, evmConfig, evmSignal, evmUrls, evmAsked, evmReplies,       \* EvmRpcClient
    evmOutcome

httpVars == <<server, now, node, healthStatusCache, healthStatusRequest, waiting, lastTrue, answer, last>>
contractsVars == <<deployed, magic, discoveredContractsByName, remotelyResolvedContractsByName,
                   negativeNameCache, nameRequests, invocation>>
preparationVars == <<height, wallet, networkMagic, job>>
paramsVars == <<callArguments, callParameters>>
dispatchVars == <<mode, switches, neoServices, lastCall>>
readsVars == <<tip, mined, pooled, halts, validated, read>>
proposalsVars == <<enabled, proposal>>
evmVars == <<evmRequest, evmConfig, evmSignal, evmUrls, evmAsked, evmReplies, evmOutcome>>

Http        == INSTANCE HttpServer
Contracts   == INSTANCE ContractNames
Preparation == INSTANCE TransactionPreparation
Params      == INSTANCE ContractParams
Dispatch    == INSTANCE ToolDispatch WITH Calls <- ToolCalls, last <- lastCall
Chain       == INSTANCE ChainReads WITH Asks <- ReadAsks, height <- tip
Proposed    == INSTANCE Proposals WITH services <- enabled
Evm         == INSTANCE EvmRpcClient WITH
                   request <- evmRequest, config <- evmConfig, signal <- evmSignal, urls <- evmUrls,
                   asked <- evmAsked, replies <- evmReplies, outcome <- evmOutcome

-----------------------------------------------------------------------------

ASSUME PartsConstants ==
    /\ Http!ConstantsOK /\ Contracts!ConstantsOK /\ Preparation!ConstantsOK
    /\ Params!ConstantsOK /\ Dispatch!ConstantsOK /\ Chain!ConstantsOK /\ Proposed!ConstantsOK /\ Evm!ConstantsOK

\* A server that is open and local.
OpenServer == [loopback |-> TRUE, apiKey |-> "none", approvalKey |-> "none", writesEnabled |-> FALSE,
               coordinator |-> FALSE, walletAdministration |-> FALSE]

-----------------------------------------------------------------------------
(* One part at a time.                                                     *)

Parts == {"mcp", "health", "routes", "contracts", "preparation", "params", "dispatch", "reads", "proposals",
          "evm"}
partsVars ==
    <<part, vars, httpVars, contractsVars, preparationVars, paramsVars, dispatchVars, readsVars, proposalsVars,
      evmVars>>

\* A part that is not examined stays in one of its initial states.
PartsInit ==
    /\ part \in Parts
    /\ IF part = "mcp" THEN Init
       ELSE options = (CHOOSE o \in Environments : TRUE) /\ writesEnabled = FALSE /\ Init
    /\ CASE part = "routes" -> Http!Init
         [] part = "health" -> server = OpenServer /\ Http!Init
         [] OTHER           -> server = Http!Refused /\ node = "up" /\ Http!Init
    /\ IF part = "contracts" THEN Contracts!Init ELSE deployed = {} /\ Contracts!Init
    /\ IF part = "preparation" THEN Preparation!Init
       ELSE height = 0 /\ wallet = (CHOOSE w \in Wallets : TRUE) /\ Preparation!Init
    /\ IF part = "params" THEN Params!Init ELSE callArguments = (CHOOSE l \in Trees : TRUE) /\ Params!Init
    /\ IF part = "dispatch" THEN Dispatch!Init
       ELSE mode = Dispatch!Networks /\ switches = {} /\ Dispatch!Init
    /\ IF part = "reads" THEN Chain!Init ELSE mined = 0 /\ halts = FALSE /\ validated = 0 /\ Chain!Init
    /\ IF part = "proposals" THEN Proposed!Init ELSE enabled = {"mainnet"} /\ Proposed!Init
    /\ IF part = "evm" THEN Evm!Init
       ELSE /\ evmRequest = (CHOOSE r \in Evm!RpcCalls : TRUE) /\ evmConfig = (CHOOSE c \in Evm!RpcConfigs : TRUE)
            /\ evmSignal = "open" /\ Evm!Init

\* A step of the MCP endpoint leaves everything else alone.
McpStep(A) ==
    /\ part = "mcp" /\ A
    /\ UNCHANGED <<part, httpVars, contractsVars, preparationVars, paramsVars, dispatchVars, readsVars,
                   proposalsVars, evmVars>>

HttpStep ==
    /\ \/ part = "health" /\ Http!Probing
       \/ part = "routes" /\ Http!Serving
    /\ UNCHANGED <<part, vars, contractsVars, preparationVars, paramsVars, dispatchVars, readsVars,
                   proposalsVars, evmVars>>

ContractsStep ==
    /\ part = "contracts" /\ Contracts!Next
    /\ UNCHANGED <<part, vars, httpVars, preparationVars, paramsVars, dispatchVars, readsVars,
                   proposalsVars, evmVars>>

PreparationStep ==
    /\ part = "preparation" /\ Preparation!Next
    /\ UNCHANGED <<part, vars, httpVars, contractsVars, paramsVars, dispatchVars, readsVars, proposalsVars, evmVars>>

ParamsStep ==
    /\ part = "params" /\ Params!Format
    /\ UNCHANGED <<part, vars, httpVars, contractsVars, preparationVars, dispatchVars, readsVars, proposalsVars,
                   evmVars>>

DispatchStep ==
    /\ part = "dispatch" /\ Dispatch!Next
    /\ UNCHANGED <<part, vars, httpVars, contractsVars, preparationVars, paramsVars, readsVars, proposalsVars, evmVars>>

ReadsStep ==
    /\ part = "reads" /\ Chain!Next
    /\ UNCHANGED <<part, vars, httpVars, contractsVars, preparationVars, paramsVars, dispatchVars, proposalsVars, evmVars>>

ProposalsStep ==
    /\ part = "proposals" /\ Proposed!Next
    /\ UNCHANGED <<part, vars, httpVars, contractsVars, preparationVars, paramsVars, dispatchVars, readsVars, evmVars>>

EvmStep ==
    /\ part = "evm" /\ Evm!Next
    /\ UNCHANGED <<part, vars, httpVars, contractsVars, preparationVars, paramsVars, dispatchVars, readsVars,
                   proposalsVars>>

PartsNext ==
    \/ McpStep(Next)
    \/ HttpStep
    \/ ContractsStep
    \/ PreparationStep
    \/ ParamsStep
    \/ DispatchStep
    \/ ReadsStep
    \/ ProposalsStep
    \/ EvmStep

\* The fairness of McpHttpServer.
PartsFairness ==
    /\ \A c \in Calls : WF_partsVars(McpStep(Alive /\ BodyTimeout(c)))
    /\ WF_partsVars(McpStep(Stop))

PartsSpec == PartsInit /\ [][PartsNext]_partsVars /\ PartsFairness

-----------------------------------------------------------------------------
(* Properties: those of the parts.                                         *)

\* Every variable has its type.
PartsTypeOK ==
    /\ part \in Parts /\ TypeOK /\ Http!TypeOK /\ Contracts!TypeOK /\ Preparation!TypeOK /\ Dispatch!TypeOK
    /\ Chain!TypeOK /\ Proposed!TypeOK

\* Neither endpoint lets anybody do what its configuration and the key he showed do
\* not entitle him to; and to the nodes of Neo X nothing leaves but reads.
OnlyTheEntitled == ServedAsPromised /\ Http!EffectsAreGuarded /\ Evm!OnlyReadsLeave

\* What callers are told is so: a health answer is as recent as the cache and one probe
\* allow, what is put together of several answers of nodes was true while they came, and
\* of several nodes the first that answers is believed.
ToldIsTrue == Http!HealthIsRecent /\ Chain!AnswersWereTrue /\ Evm!FirstAnswerCounts

\* Names lead to the contract that was meant and checked, and unknown ones are
\* remembered within a bound.
NamesAreSound == Contracts!InvokedIsMeantAndLive /\ Contracts!NegativeCacheIsBounded

\* What a tool was asked reaches the service it should, in the form it should.
AskedAsOffered == Dispatch!RoutesAreServed

\* What is signed, here or by the wallet that gets a proposal, is what was asked for: at
\* fees and for a time it may have, or as a node has just run it; its amounts and
\* arguments are the asked ones to the last digit, and contract parameters are typed.
SignedIsSound ==
    /\ Preparation!SignedIsSound /\ Preparation!AmountsAreExact
    /\ Proposed!ProposedWasPreviewed /\ Proposed!EncodedIsExact /\ Params!FormattedIsCanonical
=============================================================================
