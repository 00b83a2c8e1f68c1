---------------------------- MODULE EvmRpcClient ----------------------------
(***************************************************************************)
(* One call of callEvmRpc() (src/src/contracts/evm-rpc-client.ts), made by *)
(* a proposal or through the adapter of the node tools.  Unlike a Neo N3   *)
(* call it has no budget: every endpoint of the list is asked under a      *)
(* timer of its own, the next one only if this one gave no answer, and the *)
(* signal of the caller ends the walk wherever it stands.                  *)
(***************************************************************************)
EXTENDS Naturals, Sequences, FiniteSets

CONSTANTS
    Blank,      \* a list entry that is empty without its trailing slashes
    Unusable,   \* endpoints of another protocol, or with credentials
    UrlLists,   \* the configured lists of a network
    Unlisted    \* names of methods on no list

VARIABLES
    request,    \* what is called, how, and on which network
    config,     \* the switch of the testnet and the list of the network
    signal,     \* "open" | "aborted": the caller's
    urls,       \* the list that is walked, once there is one
    asked,      \* how many endpoints were sent the request
    replies,    \* history: what came of them, and the signal at that moment
    outcome     \* what the caller gets

vars == <<request, config, signal, urls, asked, replies, outcome>>

-----------------------------------------------------------------------------
(* Methods.                                                                *)

EVM_READ_ONLY_METHODS ==
    {"eth_chainId", "eth_gasPrice", "eth_estimateGas", "eth_call", "eth_getTransactionCount",
     "eth_getBalance", "eth_blockNumber", "net_version", "eth_getBlockByNumber", "eth_getBlockByHash",
     "eth_getBlockTransactionCountByNumber", "eth_getBlockTransactionCountByHash",
     "eth_getTransactionByHash", "eth_getTransactionByBlockNumberAndIndex",
     "eth_getTransactionByBlockHashAndIndex", "eth_getTransactionReceipt", "eth_getCode",
     "eth_getLogs", "eth_maxPriorityFeePerGas", "eth_feeHistory", "eth_syncing"}

EVM_FORBIDDEN_METHODS ==
    {"eth_sendRawTransaction", "eth_sendTransaction", "eth_signTransaction", "eth_sign",
     "personal_sign", "personal_sendTransaction"}

\* A list of its own, which happens to name the same methods.
NEOX_NODE_READ_METHODS ==
    {"eth_chainId", "eth_blockNumber", "eth_getBlockByNumber", "eth_getBlockByHash",
     "eth_getBlockTransactionCountByNumber", "eth_getBlockTransactionCountByHash",
     "eth_getTransactionByHash", "eth_getTransactionByBlockNumberAndIndex",
     "eth_getTransactionByBlockHashAndIndex", "eth_getTransactionReceipt",
     "eth_getTransactionCount", "eth_getBalance", "eth_getCode", "eth_getLogs", "eth_call",
     "eth_estimateGas", "eth_gasPrice", "eth_maxPriorityFeePerGas", "eth_feeHistory",
     "eth_syncing", "net_version"}

\* neoxNodeCall() has looked at its own list first.
ReadOnly(r) ==
    /\ r.adapter => r.method \in NEOX_NODE_READ_METHODS
    /\ r.method \notin EVM_FORBIDDEN_METHODS
    /\ r.method \in EVM_READ_ONLY_METHODS

RpcCalls == [method  : EVM_READ_ONLY_METHODS \cup EVM_FORBIDDEN_METHODS \cup Unlisted,
             adapter : BOOLEAN,
             network : {"neox-mainnet", "neox-testnet"}]
ConstantsOK == \A list \in UrlLists : list \in Seq({list[i] : i \in DOMAIN list})
RpcConfigs == [testnetEnabled : BOOLEAN, urls : UrlLists]

-----------------------------------------------------------------------------
(* The walk over the endpoints.                                            *)

\* resolveRpcUrls(): first occurrences of what is not blank.
RpcUrls(list) ==
    LET kept == {i \in DOMAIN list : list[i] # Blank /\ \A j \in 1 .. i - 1 : list[j] # list[i]}
    IN  [n \in 1 .. Cardinality(kept) |->
            list[CHOOSE i \in kept : Cardinality({j \in kept : j <= i}) = n]]

Resolved == RpcUrls(config.urls)

Accepted ==
    /\ ReadOnly(request)
    /\ request.network = "neox-testnet" => config.testnetEnabled
    /\ Resolved # <<>>
    /\ \A i \in DOMAIN Resolved : Resolved[i] \notin Unusable

Called == outcome = "none" /\ urls = <<>>
Asking == outcome = "none" /\ urls # <<>>

\* Whatever is wrong is found before anything is sent; and fetch() sends nothing under
\* a signal that was aborted before.
Call ==
    /\ Called
    /\ \/ ~Accepted /\ outcome' = "invalid" /\ UNCHANGED <<urls, asked>>
       \/ /\ Accepted
          /\ urls' = Resolved
          /\ IF signal = "open" THEN asked' = 1 /\ UNCHANGED outcome
             ELSE outcome' = "noAnswer" /\ UNCHANGED asked
    /\ UNCHANGED <<request, config, signal, replies>>

\* An envelope with an error, as of a call that reverts, is an answer.
Definitive == {"result", "rpcError"}

\* No connection, a status of failure, the timer of the endpoint; also a body that is no
\* JSON or too long, for readBoundedJson() throws no NetworkError.
Silent == {"unreachable", "status", "stalled", "garbled"}

Retried(reply) == reply \in Silent /\ signal = "open" /\ asked < Len(urls)

\* There is no await between a failure and the next request.
Replied(reply) ==
    /\ Asking
    /\ reply = "cancelled" => signal = "aborted"
    /\ replies' = Append(replies, [kind |-> reply, signal |-> signal])
    /\ IF Retried(reply) THEN asked' = asked + 1 /\ UNCHANGED outcome
       ELSE /\ outcome' = IF reply \in Definitive THEN reply ELSE "noAnswer"
            /\ UNCHANGED asked
    /\ UNCHANGED <<request, config, signal, urls>>

Abort ==
    /\ Asking /\ signal = "open"
    /\ signal' = "aborted"
    /\ UNCHANGED <<request, config, urls, asked, replies, outcome>>

Init ==
    /\ request \in RpcCalls /\ config \in RpcConfigs /\ signal \in {"open", "aborted"}
    /\ urls = <<>> /\ asked = 0 /\ replies = <<>> /\ outcome = "none"

Next == Call \/ Abort \/ \E reply \in Definitive \cup Silent \cup {"cancelled"} : Replied(reply)

Spec == Init /\ [][Next]_vars

-----------------------------------------------------------------------------
(* Properties.                                                             *)

\* The first endpoint that answers has the last word: all before it gave no answer, and
\* nobody is asked after it, after an abort, or twice.  There is no answer only when
\* everybody was asked or the caller left.
FirstAnswerCounts ==
    /\ \A i \in DOMAIN replies :
          i < Len(replies) => replies[i].kind \in Silent /\ replies[i].signal = "open"
    /\ \A i, j \in DOMAIN urls : urls[i] = urls[j] => i = j
    /\ asked <= Len(urls)
    /\ outcome \in Definitive => replies[Len(replies)].kind = outcome
    /\ outcome = "noAnswer" =>
          signal = "aborted" \/ (Len(replies) = Len(urls) /\ replies[Len(replies)].kind \in Silent)
    /\ outcome # "none" => asked = Len(replies)

\* No request leaves for a method that signs or sends, or for an endpoint that a
\* configuration may not name, wherever in the list it stands.
OnlyReadsLeave ==
    asked > 0 => /\ request.method \in EVM_READ_ONLY_METHODS \ EVM_FORBIDDEN_METHODS
                 /\ \A i \in DOMAIN urls : urls[i] \notin Unusable \cup {Blank}
=============================================================================
