# TLA+ models of neo-n3-mcp

`src/` is an MCP server for the Neo N3 and Neo X block chains, in TypeScript. AI
clients read chain data through it, and an approved client can have it prepare, sign
and relay Neo N3 transactions. What can go wrong is mostly in what happens *between*
awaits: crashes around a relayed transaction, lost answers of a node, a second call on
the same intent, timers against answers, answers of several endpoints put together. The
modules here model that part, and the tables and conversions every call goes through.

All paths below are relative to `src/src/` unless they name `docs/` or `tests/`.
`PROJECT.json` maps every definition that models code to its lines.

## 1. The system

| Component | State it keeps | Operations | Interacts with |
|---|---|---|---|
| Write journal (`services/write-operation-service.ts`) | one JSON file per intent under the state directory, `.writer.lock`, `activeOperations` (a promise chain per intent) | `reserve`, `approve`, `decline`, `execute`, `getById` | coordinator; file system |
| Write coordinator (`services/write-coordinator.ts`) | none | `execute` with prepare / submit / reconcile / isExpired callbacks | journal, Neo service, contract service |
| Neo service (`services/neo-service.ts`) | verified network magic, its in-flight request, `activeTransactionWaits` | reads, `prepare*`, `submitPreparedTransaction`, `waitForTransaction` | RPC client |
| Contract service (`contracts/contract-service.ts`) | network magic, discovered contract names | resolve, query, `prepareContractDeployment`, `submitPreparedTransaction` | RPC client |
| RPC client (`utils/rpc-client.ts`, `utils/rpc-deadline.ts`) | per call: attempts, remaining budget, timer | `execute` with failover; `withRpcDeadline` | nodes |
| Rate limiter (`utils/rate-limiter.ts`, `utils/client-rate-limit.ts`) | two maps of fixed windows, settings, client key per server | `checkLimit`, `cleanup`, `resetLimit`, `setEnabled`, `updateSettings`, `bindRateLimitClientId` | both HTTP servers, the MCP server |
| MCP server (`index.ts`, `handlers/*`, `registry/*`) | lazily created services, a write coordinator per network | tool calls, resources, multi-round approval of a write | everything above |
| MCP HTTP server (`mcp-http-server.ts`, `mcp-http.ts`) | `activeRequests`, the running server | `start`, `stop`, `handle`, `readJsonBody` | MCP server, rate limiter |
| HTTP server (`http-server.ts`) | health cache and its in-flight probe, sockets | REST routes, health, `stop` | services, journal, rate limiter |
| Tool registry (`registry/tool-registry.ts`) | none | `resolveRoute`: public tool, chain and arguments to an internal tool | handlers |
| Tool handlers (`handlers/*`) | lazily created services | one handler per internal tool | services, clients |
| Proposals (`handlers/proposal-tools.ts`, `utils/transaction-proposal.ts`, `utils/evm-abi.ts`) | none | simulate and build, on both chains | Neo service, EVM RPC client |
| Contract parameters (`utils/contract-params.ts`) | none | JSON arguments to typed parameters | every invocation |
| EVM RPC client (`contracts/evm-rpc-client.ts`) | none | `callEvmRpc` with failover | Neo X nodes |
| Indexer and explorer clients (`contracts/*`) | n3index: unknown names and requests in flight | one bounded request each | indexers |
| Query guards and catalogs (`indexer/*`) | none | admit or refuse a query, clamp limits | clients |
| Wallets, signers, validation, configuration, logging | files, environment | stateless conversions | MCP server |

Everything runs on the one JavaScript thread of a Node.js process, so a step of the
program is what runs between two awaits. One process owns a journal directory
(`.writer.lock`). RPC requests leave the process; their answers may be lost, late, or
come from an endpoint that lags behind.

### Hard behaviour

* **Write journal.** The one thing that must not happen is a second transaction for one
  idempotency key. Crashes, failed renames, a failed fsync of the directory, lost
  answers, several callers and a stale reader all meet in `execute()`.
* **RPC calls.** One budget over several endpoints, a deadline of the caller which does
  not cancel the sweep, and the rule that a submission never fails over.
* **Rate limiting.** Fixed windows over two horizons, a clean-up timer, and a client
  whose requests arrive through many per-session servers.
* **HTTP.** Admission counters, body readers with five ways to end, a cached health probe,
  a stop that races requests in flight.
* **Contract names.** Two caches that never forget a name, a third of unknown names, an index that is asked once for
  all callers, and a deployment check between the resolution and the invocation.
* **Signing.** A transaction is put together of the answers of several requests while blocks
  go on; what was affordable at one is not at the next.
* **Reads.** One answer to a user is made of several answers of nodes of which some lag behind.
* **Tables.** 51 public tools, their handlers and 68 endpoints of explorers in tables that must agree about
  names, arguments, chains and networks.

`PROJECT.json` lists the hazards with their lines and the properties that cover them.

## 2. Modules

| Module | Models | Checked by | Proofs |
|---|---|---|---|
| `WriteIntent` | what a write intent promises, without processes, disk or RPC | as a property of `WriteOperations` | |
| `WriteOperations` | journal, coordinator, the process, the file system and the network around them | `MCWriteOperations`, five runs | `WriteOperationsProofs` |
| `WriteApproval` | the MCP rounds and the HTTP routes that approve an intent, on top of `WriteIntent` | `MCWriteApproval`, two runs | `WriteApprovalProofs` |
| `RateLimiter` | the two windows and the clients | `MCRateLimiter` | `RateLimiterProofs` |
| `RpcFailover` | one RPC call, its caller and its nodes | `MCRpcFailover` | `RpcFailoverProofs` |
| `TransactionWait` | `waitForTransaction()`, the shared network magic, the wait route and `stop()` of the HTTP server | itself, two runs | `TransactionWaitProofs` |
| `McpHttpServer` | the MCP endpoint and its process | `MCServerParts` | `ServerPartsProofs` |
| `HttpServer` | the REST routes and the shared health probe | `MCServerParts` | `ServerPartsProofs` |
| `ContractNames` | references to contracts, the name caches, the index, deployment checks | `MCServerParts` | `ServerPartsProofs` |
| `TransactionPreparation` | from a request to a signed transaction or an estimate | `MCServerParts` | `ServerPartsProofs` |
| `ContractParams` | JSON arguments to contract parameters | `MCServerParts` | `ServerPartsProofs` |
| `ToolRegistry`, `ToolHandlers`, `EndpointCatalogs` | the tables: public tools, internal tools, endpoints of the explorers with their guards | through `ToolDispatch` | `ToolDispatchProofs` |
| `Tables` | nothing: how tables are put together of parts | through the tables | |
| `ToolDispatch` | a tool call from its registration to the request it becomes | `MCServerParts` | `ToolDispatchProofs`, `ServerPartsProofs` |
| `ChainReads` | reads that put several answers together | `MCServerParts` | `ServerPartsProofs` |
| `Numerals` | digits, numbers and scales, as `BigInt` and strings make them | through its users | `NumbersAndLists` |
| `EvmAbi`, `Proposals` | the calldata encoder; unsigned proposals and their previews | `MCServerParts` | `ServerPartsProofs` |
| `EvmRpcClient` | one call of a Neo X node | `MCServerParts` | `ServerPartsProofs` |
| `ServerParts` | the parts above that share no state, as one specification | `MCServerParts` | `ServerPartsProofs` |
| `NumbersAndLists` | nothing: lemmas about `Numerals`, about lists joined one behind the other and the entries a list of endpoints keeps | | used by `RpcFailoverProofs` and `ServerPartsProofs` |

An operator whose comment begins with "Deviation" is not part of a specification. It is a
plausible mistake in the operator that follows it; substituting it shows that a property
notices the mistake. `PROJECT.json` ("mutants") says which property each one breaks.

### WriteOperations

State to code: `visible[k]` is what `read()` finds for a key, `survivors[k]` the versions a
power loss may leave on disk, `queue[k]` the promise chain of `runExclusive` (the head
is the running call), `run[c]` where a call of `execute()` stands, `writer` and
`writerLock` the process and its lock file. `mempool`, `chain`, `height` and `late` are the
network; `late` holds requests whose sender has given up on them. `approvals`,
`relayed` and `accepted` are history variables that only properties read.

Actions follow the code from await to await. `Reserve`, `Approve` and `Decline` are the
synchronous handlers. `Execute` queues a call; `Begin*` is the head of the queue reading
the record; then `PrepareSucceeds` / `PrepareFails`, `FailBeforeSubmission`,
`ReconcileFound` / `ReconcileMissing`, `Expire` / `NotExpired`, `ReadFails`, `Send`,
`SubmitAcknowledged` / `SubmitRefused` / `SubmitUnknown` and `Complete`. Where a synchronous
section writes twice it is cut after the first write, because the process can die
there; `SyncBusy` keeps other handlers out of the gap.

A journal write has three outcomes (`WriteOutcomes`): complete, failed before the rename,
failed in the directory fsync after it. In the last case the caller sees an error and
the next reader sees the new record. A completed directory fsync makes every earlier rename
durable, hence the third case of `Store`.

Not in the module: what a transaction contains (a request and a nonce stand for it), the
fingerprint (it is the request), the result payload, and the read-only operations. The
fields of a record are abstracted to those the code branches on.

### WriteApproval

The front ends of the journal. It composes with `WriteIntent` (`Journal == INSTANCE WriteIntent`): the journal
does here whatever that module allows, and `write_faults` shows that `WriteOperations` allows no more. So a
property of `WriteApproval` holds with the real journal behind it. `front` is the process that holds the
journal, `sealed` the signed `requestState`s that still verify, `executing` the keys with a call of
`execute()` under way. `answers`, `posted` and `told` are history: what the user and the approver
decided, and what the server said.

A call of `handleMcpWrite()` has no await between reading the record and its last write (minting a state
awaits, but returns then), so each outcome of a call is one action: `Ask` (first round), `Accept`, `Refuse` (declined,
cancelled, or accepted with the wrong fingerprint), `Misfit` (refused after `reserve()`). A client may send any
answer it was given with the `requestState` that belongs to it, at any time, repeatedly, and with arguments
that do not fit. Signing is external: a client cannot make up a state. `HttpReserve` and `HttpApprove`
are the routes; `Authorized` is the rule that the approval route has a key of its own.

A request stands for its operation, network, payload and fingerprint. The fingerprint does not include the
idempotency key, so two keys can share one; that is why the intent ID is compared.

### RpcFailover

`RpcUrlList` is `toRpcUrlList()`; `Ask`, `GiveUp`, `Answered`, `TransportFails` and
`AttemptTimesOut` are the loop of `executeWithFailover()` and `executeQuery()`; `Settle` and
`DeadlinePasses` are `withRpcDeadline()`; `Verdict` is the classification in
`submitPreparedTransaction()`. `NodeActs` lets a node take or refuse a request at any
time, also after everybody stopped waiting. `Early` and `Late` bound how far a timer is off.

### RateLimiter

The entries of `minuteLimiters` and `hourLimiters`, keyed as the code keys them: the stdio
server under a key of its own, an HTTP client under the key bound to its per-session
server. `Charge` is `checkLimit`, both windows in order, in one step because the code
does not await in it.

### TransactionWait

`wait[w]` is where a call of `pollForTransaction()` stands: awaiting the network magic, awaiting a
node (its `timer` is the deadline of that step), or sleeping until the next poll. `flight` is the deadline of
`networkMagicRequest`, `open` the HTTP waits with a connection, and `Controllers` the set
`activeWaitControllers`. The loop body is written as operators from the wait at one await to the wait at
the next (`AskHeight`, `AskTransaction`, `AskLog`, `Deadlined`, `Answered`, `Sleep`), as none of it awaits in
between. `Start` is the admission against the cap; `RpcAnswers`, `RpcTimesOut` and `PollEnds` end an
await; `FlightEnds` ends the shared `getversion` and resumes every wait behind it; `Disconnect`, `Stop`,
`Closed` and `ForceClose` are the HTTP server. Connections that carry no wait are left out, so `Closed`
stands for the moment the last connection of a wait is gone.

### McpHttpServer

`call[c].pc` is where a request is: `reading` its body, `handling`, `over`. `process` is the life of the
process from `start()` to `process.exit()`; between `listening` and `exited` are the awaits of `stop()`. `Arrive`
is `handle()` up to the body, all checks in their order (`Refusal`); `Data`, `End`, `BodyError`,
`BodyTimeout` and `Hangup` are the ways `readJsonBody()` goes on or ends; `Handled` is the end of the handler and
`Release` the `finally` that gives the slot back. `Signal`, `CutConnections`, `ServerClosed` and `Exit` are a
shutdown. `Server` is the MCP server made for each request with the write tools left out, although the flag
`writesEnabled` of the process may be set.

### HttpServer

A request other than for health awaits only services and changes nothing of the server in between, so `Request`
is one step: gate, body, route, status (`Refusal` has the order of the checks). `Health`, `ProbeEnds`, `Tick` and
`NodeTurns` are the probe: one request for all callers, its answer cached for `Ttl`. `lastTrue` and
`answer` are history; they say how old what was told is.

### ContractNames

`Resolve` and `ResolveCached` are the resolution; `Call` runs to the first request, `Check` starts the
deployment check, which resolves again, `StateAnswers` and `InvokeAnswers` end the requests. `IndexAnswers`
resumes every call that waits for the name. `live` is history: the contracts that existed at some time during a call.
A name that was learned may later mean another contract, so a query by a *learned* name can check and
invoke two different hashes, and learned names never expire; the property is about hashes and bundled names, and
says of all calls that the checked contract existed during the call.

### TransactionPreparation

`job[j].pc` is the request a preparation awaits: network magic, decimals, claimable balances, block count, system fee, network
fee, GAS balance. Each answer is an action (`Step`), and `Block` lets the chain and the wallet change between any two.
Amounts are sequences of digits, so that scaling is what `scaleTokenAmount()` does.

### ContractParams and EvmAbi

Pure functions. An argument is a tree, which is inferred from its JavaScript value or names its type; `Argument` holds those within
the limit of nesting. `FormatNode` is what becomes of a node over formatted kids, `FormatContractParameter` of a tree, `Nodes` how many values
of the budget it uses up. All are functions over the levels of nesting, so that the provers can follow them. The result is checked
against `FormattedContractParameter`, the interface of that name with the promises of the code added, and against its own fixed point: once
formatted, a parameter stays as it is. The budget of nodes is not part of that: the keys of a plain object cost nothing, the keys of the map
it becomes do, so that a call just within the budget may be over it when it is formatted again.

The encoder is checked against a decoder written from the ABI rather than from the code (`Decoded`), which also says where a contract reverts. Bytes
have `Base` values and a word `WordBytes` of them, 256 and 32 in the code; a length or an offset that is no word is refused. `uint` and `int` without a
size are accepted by `encodeComponent` while `functionSelector` does not expand them (`utils/evm-abi.ts:146-149`); the
selector property leaves such aliases out. Keccak-256 is not modelled.

### ToolDispatch and the tables

The tables are the code's tables entry by entry, schemas reduced to their keys. `Call` is `resolveRoute()` and `callTool()` up to
the request: chain, renamed arguments, network, required arguments, switches, guard. `neoServices` is the lazily made services, so
that a call may depend on the ones before. Tables of several parts are put together by `Tables`, the first part first, as the object
literals and lists of the code are.

### ChainReads and Proposals

A read is a function from the answers it has to the next requests (`Wanted`) and to its result (`Result`). Each answer
comes from an endpoint that may be up to `MaxLag` blocks behind. `Proposals` is built the same way: decimals, the call, the
preview by a node, and only then the proposal.

What these models show of the code and the properties except on purpose:
* A proposal or a status on Neo N3 that names no network is labelled "mainnet" also by a server that has only the
  testnet (`handlers/proposal-tools.ts:96`, `handlers/n3-transaction-status.ts:77`); `Mislabelled`.
* A node that answers "method not found" is taken to say that there is no such transaction
  (`handlers/n3-transaction-status.ts:29`); `Mistaken`.
* The block number of a status is computed from two answers and is off by the blocks in between
  (`handlers/n3-transaction-status.ts:122-138`); the property allows that much.
* The fallback for balances asks for NEO and GAS one after the other (`services/neo-service.ts:1013`), so
  the two may be of different blocks; the property is about each.

### EvmRpcClient

`Call` is everything up to the first `fetch()`; `Replied` ends one attempt and, as the code does not await in between,
starts the next; `Abort` is the signal of the caller. There is no budget over the attempts: each has a timer of its own. A body that
is no JSON, or too long, counts as no answer (`Silent`), because `readBoundedJson()` throws a plain error; the comment at
`contracts/evm-rpc-client.ts:173` speaks of connections, statuses and stalls only.

### ServerParts and MCServerParts

These parts share no state, so `ServerParts` composes them as a sum: a behaviour picks a `part` and takes only
its steps, the others stay in an initial state. Every part keeps all of its behaviours. The health probe and the other requests of
`HttpServer` are two parts, since neither reads what the other changes. `MCServerParts` gives the constants their values.

## 3. Runs

| Run | Asks | Shows |
|---|---|---|
| `write_faults` | two callers, one intent, every fault but power loss, stale reads, late answers | the safety properties below, that every call settles, and that the journal implements `WriteIntent` |
| `write_power` | two intents in one directory, failing writes and power loss | relayed bytes are durable |
| `write_expired` | no fault at all | **violated**: an expired intent may be on the chain |
| `write_rejected` | no fault at all | **violated**: a rejected intent may be on the chain |
| `write_second_tx` | failing directory fsync and power loss | **violated**: a second transaction is relayed |
| `rate_limiter` | a client over two sessions and a stdio user, every administrative operation | the burst bound, per client, and that quiet clients are forgiven |
| `rpc_failover` | every list of up to three entries with blanks and repetitions, reads and submissions | budget, single submission, reliable rejection, termination |
| `write_approval` | two keys, two requests, replayed rounds, both front ends, restarts | consent, refusals, and that closing is final |
| `declined_relayed` | two rounds of one intent | **violated**: an intent that was said to be declined is relayed |
| `transaction_wait` | two HTTP waits and one of the tool under a cap of two, disconnects, stops, late timers | slots, the bound of the overrun, abort, and that every wait and every stop ends |
| `server_parts` | ten parts, one in each behaviour: see `ServerParts` | slots and shutdown, entitlement, freshness, names, what is signed, where requests go, what is told |
| `wait_timeout` | a single wait on a fresh service | **violated**: a wait outlives its timeout |

### Properties

`WriteOperations`
* `AtMostOneTransaction`: one transaction per idempotency key is ever handed to the network.
* `OnlyApprovedIsRelayed`: what is relayed for a key was approved for that key.
* `ClosedIsNeverRelayed`: a declined or failed intent has nothing on the network.
* `SubmittedWasAccepted`: success is recorded only for a transaction a node accepted.
* `RelayedIsDurable`: relayed bytes survive a power loss.
* `Exclusive`, `VerdictIsFinal`: overlapping calls neither share an intent nor change a verdict.
* `ExpiredStaysOffChain`: a transaction that is off the chain when its intent expires stays off.
* `CallsSettle`: no queue jams.
* `ImplementsIntent`: refinement of `WriteIntent`.

`RateLimiter`
* `MinuteBound`, `HourBound`: what a client gets through in any window of that length,
  aligned or not, is at most twice the largest limit in force (the fixed-window burst),
  however many sessions it uses and whenever the clean-up runs.
* `QuietIsForgiven`: a client that stays quiet for a window is let in again.

`RpcFailover`
* `WithinBudget`, `StallCostsOneCeiling`: one budget for all attempts; a stalled endpoint costs
  one ceiling of it.
* `SubmittedToOne`, `AskedOnce`, `RejectedWasNotTaken`: who is asked, and what a rejection means.
* `CallEnds`: every caller gets a verdict and every sweep ends.

`WriteApproval`
* `RelayedWithConsent`: what is relayed for a key was accepted for that key, by the user or the approver.
* `ClosedByRefusal`: an intent that awaits its approval is closed only by a refusal of that intent.
* `ClosedIsFinal`: an answer to an older form does not bring it back.

`TransactionWait`
* `SlotsAreExact`: the cap on waits neither leaks nor overflows, however a wait ends.
* `OverrunIsOneTimeout`: the network magic holds a wait past its timeout by one RPC timeout at most,
  also when its request fails and is made again.
* `AbortFreesSlot`: an abort ends a wait at once, unless it awaits the network magic.
* `UnconfirmedIsLate`: "not confirmed" is never said while time is left.
* `EverythingEnds`: every wait and every stop ends although no node ever answers.

`MCServerParts`
* `SlotsAreExact`: a slot of the MCP endpoint is counted once and given back once.
* `OnlyTheEntitled`: `ServedAsPromised` of the MCP endpoint (bearer, rate key, no write tools), `EffectsAreGuarded` of the REST
  routes (switches, keys, secrets, words of failures), and only reads leave for Neo X, to admissible endpoints (`OnlyReadsLeave`).
* `ToldIsTrue`: `/health` says what was true at most one probe and one cache lifetime ago (`HealthIsRecent`); what a read tells was
  true while its answers came (`AnswersWereTrue`); the first Neo X endpoint that answers has the last word, nobody is asked after it
  or after an abort (`FirstAnswerCounts`).
* `NamesAreSound`: what is invoked under a hash or a bundled name is that contract, and the checked one
  existed during the call; the cache of unknown names keeps to its limit.
* `SignedIsSound`: what is signed has the asked amount, an acceptable block limit, fees within the cap that were
  affordable, and the verified network; what is proposed to a wallet is, in every part, what a node has just run. A signed transfer moves the
  digits that were given and a fee that is told is read back as itself (`AmountsAreExact`); a proposed amount is the asked one, and the
  contract decodes proposed calldata to the asked arguments (`EncodedIsExact`).
* `AskedAsOffered`: registry, handlers and catalogs agree, and requests go to the chain and network that were asked for
  (`RoutesAreServed`); formatted parameters are canonical (`FormattedIsCanonical`).
* `ReadingAndStoppingEnd`: no body is read for ever, and a stop ends in an exit.

### Findings

Five runs end in a violation of something the repository says of itself.

1. `write_expired`. `execute()` looks for the transaction and then, after another await, for
   the block count. A transaction mined in between is recorded as expired. The error
   says that the transaction expired "before it could be observed on-chain" and advises a new
   key (`services/write-operation-service.ts:303-305`).
2. `write_rejected`. After an unknown outcome the same bytes are sent again; the node that
   already holds them refuses; the refusal is recorded as final. `docs/API.md:211` recommends
   exactly that retry.
3. `write_second_tx`. `update()` fails after its rename, the retry relays without another
   fsync, a power loss brings the previous record back, and a second transaction is
   prepared. `docs/ARCHITECTURE.md:174` rules this out. It takes two independent faults.
4. `wait_timeout`. `NeoService.withRpcDeadline()` awaits the network magic before the deadline of the
   operation starts (`services/neo-service.ts:954`). `tests/neo-service.test.ts:885` says that a wait is
   bounded by its timeout when RPC never resolves; on a service whose magic is not known yet it
   lasts up to one `rpcTimeoutMs` longer.
5. `declined_relayed`. A form answered with decline is answered with "Write intent was declined or cancelled"
   (`index.ts:566`) although the intent was approved in another round and is being executed; its transaction goes
   out afterwards. `docs/EXAMPLES.md:84` says that a declined approval fails closed.

## 4. Bounds

Bounds are constants of the modules or of the configurations.

* Keys and callers: one key and two callers for interleavings (queues of different keys share
  nothing but the directory fsync), two keys where they do (`write_power`). Callers are
  interchangeable, and a third call would only wait in the queue behind the second.
* `MaxPreparations = 2`: the second transaction is the forbidden one; a third adds nothing.
* `MaxHeight = 2`, `Lifespan = 1`: blocks before, at and past `validUntilBlock`.
* `MaxCrashes = 1`: a second crash meets a state that one crash already reaches, as only the
  files survive. The proofs have no such bound.
* Rate limiter: limits 1 and 2, windows of 2 and 3 ticks, four ticks of time, so that every
  window opens, is exceeded, expires, and is replaced; two charges per client and tick.
* `WriteApproval`: two keys with one transaction each (`WriteIntent` binds one only) and two requests, so that keys share
  a fingerprint or not; two principals. Nothing else needs a bound. `declined_relayed` needs one key and one request.
* `TransactionWait`: three waits for two slots, one of them without a signal and one with a log;
  timeouts longer than an RPC timeout, which is as long as the poll interval; timers up to one tick late;
  starts at two different times, so that a wait meets a flight somebody else began.
* RPC: three endpoints, budgets of 1 (below the ceiling), 4 (a multiple) and 5, a ceiling of 2,
  one tick of early or late timer.

* `server_parts`: two HTTP requests for one slot, so that one is refused and one takes the place of another; two
  contracts, one bundled name with and one without a hash, one name from a manifest, two calls and room for one unknown name; one
  preparation at a time (preparations share only the network magic) with every kind of request, wallets that can and cannot pay, three fees
  around the cap; every tree of arguments of two leaves up to one level and one node past the limits; every public tool on
  every chain and network, with all and with only the required arguments, and every endpoint of the catalogs with good, bad, large,
  missing and unknown parameters; reads around the top of a chain of three blocks with endpoints one block behind; proposals with
  a base of 4 and words of 3 bytes, so that padding, signs and lengths matter; lists of Neo X endpoints with blanks,
  repetitions and an inadmissible last entry, every method of both lists.

Deadlock checking is off where the system may come to rest: a bounded clock or chain, no
call pending.

## 5. Fairness

* `WriteOperations`: strong fairness of `Advance(c)` for each call. Every RPC await ends by an
  answer or by its deadline, and the event loop is a first-in-first-out queue, so a ready
  continuation runs; strong, because `SyncBusy` and a crash disable a continuation for a
  while. Nothing is assumed of callers, approvers, nodes or operators.
* `RpcFailover`: weak fairness of the clock, of the timers and of the continuation of the loop.
  Nodes are not fair: they may never answer.
* `TransactionWait`: weak fairness of the clock, of due timers, of the deadline of the shared request and of
  the callbacks of a stop. Nodes need not answer, clients need not leave.
* `McpHttpServer`: weak fairness of body timers while the process lives and of the steps of `stop()`, timers among them.
  Clients, handlers and operators need do nothing. Weak fairness is enough, since nothing but the end itself disables these.
* The other parts of `server_parts` have no liveness property: each call ends by an answer or a deadline, which `RpcFailover` shows.
* `RateLimiter` has no liveness property; `QuietIsForgiven` is safety over a history of time.

## 6. Proofs

TLC checks small instances; the theorems below hold for every value of the constants.

**`WriteOperationsProofs`.** `TypeCorrect`, `OneTransaction`, `ApprovedOnly`,
`ClosedStaysOffTheNetwork`, `MutualExclusion`, `FinalVerdicts`, `ExpiredStaysOff`, `SuccessIsReal`, `RelayedStays` and `Implements`, for any number of keys,
callers, crashes and failing writes. Assumptions: `ConstantsAssumption` and `OneStorageFault`, that power losses and
failing fsyncs of the directory do not come together. Either alone is allowed; run `write_second_tx` shows that `OneTransaction` is false
with both. `RelayedStays` assumes that the fsync of the directory does not fail.
The module itself assumes that one process owns the journal, which is what the lock file is for.

The inductive invariant `IInv` has five parts. `TypeOK` alone says too little:
* `QueueInv`: a queue holds each unsettled call once and the working call is its head. Without
  it two calls could work on one intent, and `VerdictIsFinal` would not be inductive.
* `JournalInv`: a record has a transaction exactly from `recordPrepared` on, it is its own,
  and the record was approved. It links states to transactions.
* `RunInv`: where a call stands agrees with the record on disk, so the record it writes next
  follows from the one it read before its await.
* `RelayInv`: a relayed transaction is the one in the record of its key. This is
  `AtMostOneTransaction` in the form that is preserved.

Four more invariants are proved on top of it:
* `Durable`: without failing fsyncs, what a power loss leaves of a record is what is visible, so that a
  power loss is a crash as far as the journal goes.
* `ExpiredInv`: the chain is past the last block that may hold the transaction of an expired intent, as an endpoint may lag
  behind the chain but is never ahead of it. What a block takes is still valid, so `ExpiredStaysOffChain` follows.
* `Witnessed`: what is in the pool or on the chain was accepted by a node, and so was the transaction of every acknowledged call.
* `Sent`: what was accepted or is still on its way was relayed. With it every step is a step of `WriteIntent` or a
  stutter under the mapping of `ImplementsIntent`; theorem `Implements` is the whole refinement, initial states and steps.

The proof has one lemma per action (`ReserveStep`, ..., `StartWriterStep`), each of which shows
the parts the action can disturb; `StoreEffect` and `StoreThenStep` deal with the three
outcomes of a journal write once.

**`RpcFailoverProofs`.** `BudgetKept`, `OneSubmission`, `RejectionIsReliable`,
`OneCeilingPerStall`, for any number of endpoints, any budget, ceiling and timer error. The
invariant: an attempt never outlives the budget (`Punctual`), the attempts that had a fallback
cost at most `attempted * (Ceiling + Late)` together (`Thrifty`), only attempted endpoints have
seen the request (`InOrder`), a rejection comes from the endpoint asked last (`Reliable`). `NoneAskedTwice` says
of every list that `toRpcUrlList()` makes one without duplicates: ranks of kept entries are
found by least elements (`WellFoundedInduction`), not by recursion over the list. `Typed` is type correctness.

**`RateLimiterProofs`.** `Typed`, `Minute`, `Hour`, `Forgiven`, for any clients, servers, limits, windows no longer than the hour and
settings. The bound on any stretch of time is not inductive: it says nothing of a window that is being filled. `Kept` says for each entry of a
window which of the times its user was served at it has counted, that those before end a length before the window does, and
that a whole limit of them earlier all are a length ago (`Remembers`). `Bound` says that all sessions of a client share one
bucket; `Fading` that no entry outlives its last charge by more than the longest window.

**`TransactionWaitProofs`.** `Typed`, `Slots`, `Overrun`, `AbortFrees`, `NeverTooEarly`, for any number of waits, any cap and any times. The
invariant says where each running wait stands (`Stands`): behind the network magic it can lose what is left of one RPC timeout
(`HeldUp`), elsewhere its timer is not overdue and a poll never sleeps past the timeout (`Timed`); the shared request is punctual itself.

**`ServerPartsProofs`.** The parts of `ServerParts`, for any values of all their constants that meet `PartsConstants`: numbers are
natural, tables hold hashes, and requests, wallets and lists have the forms the code can be handed. Every step of the whole is a
step of each part or leaves it alone (`PartsMove`), so each part has an invariant of its own and `PartsInv` (`PartsInvariant`) is their
conjunction:
* `IInv`, of `McpHttpServer`, which `ServerParts` extends: `SlotsAreExact` and `ServedAsPromised` are inductive together with the types
  and `Configured`, that a process that runs has accepted its options. `Typed`, `SlotsExact` and `Promised`, for any requests,
  configurations, cap and body limit.
* `HealthInv`: what a probe met was true since it started (`ProbeIsFresh`), and what the cache holds was true when it was filled or one
  probe before (`CacheIsFresh`). `HealthRecent` follows for any lifetime and any duration of a probe.
* `EffectsInv`: the constructor accepted the options (`Constructed`). Without it a server could run whose approval key is its API key, and
  `EffectsGuarded` would not hold of its next request.
* `NamesInv`: a call has seen everything that was deployed since it began, only a reference nobody can redirect keeps its target
  (`Meant`: such a reference is never asked for), and the second resolution gave what the first one did (`Checked`). `MeantAndLive`.
* `UnknownInv`: unknown names are remembered once each and within the limit, and none of them is being asked for. What
  `cacheNegativeResult()` removes and drops is shown for lists of any length (`DeletedLeaves`, `DistinctParts`, `NegativeKept`). `NegativeCacheBounded`.
* `SigningInv`, of every job at every await: whose network is verified (`Verified`), which wallets it has seen and which of them it read
  its balances from (`Witnessing`), what it moves (`Moved`), which blocks its limit is from (`Limited`). `PreparedIsSound` says of a
  signed transaction what these say along the way.
* `ReadsInv`: an answer said what was so at some height of the window (`SaidSo`), a read that goes on has met only good or tolerated
  answers (`Going`), and the height that is asked for after a transaction lags behind it by no more than endpoints do (`Ordered`).
  `AnswersTrue` then takes one case per kind of read, for any chain and any lag.
* `ProposalInv`: only a transfer of an unknown token waits for decimals, what is previewed is built with those of its asset
  (`AskedDecimals`), and all answers of a simulation are about one call (`Simulated`). `ProposalsArePreviewed`.
* `EvmInv`: what is walked is the list of the configuration, after everything was found in order (`Walked`); all who were asked but the
  last gave way (`Counted`), and the outcome is what the last one made of it (`Concluded`). `EvmWalksInOrder`, for any list: like
  `NoneAskedTwice` it finds the rank of a kept entry by least elements (`NumbersAndLists`).

* `AmountsInv`: what is signed is scaled from digits, with the decimals that were in force, and what is told of a fee was formatted
  from it. `AmountsExact` then needs that formatting and parsing are inverse (`FormattedParses`), for any number of decimals.
* `EncodingInv`: arguments that are on their way were accepted, and so was the amount, with the decimals that were known then. `EncodedExact` is
  the encoder against the decoder (`EncodingDecodes`), for any types, values and number of arguments, any base above 1 and any width of a
  word that holds an address: where the head of an argument is (`HeadOfArgument`), that its offset points at its tail
  (`TailOfArgument`), and that each type is read back from its word (`StaticDecoded`, `DynamicComponent`).

* `ParamsInv`: what was accepted is what formatting the arguments gives. The recursive functions of `ContractParams` exist (`ArgumentIs`,
  `ParameterIs`, `FormatIs`) and grow with the levels; that formatting makes canonical parameters (`FormattedCanonical`) and leaves those
  alone (`CanonicalKept`) is by induction over the levels, with `NodeFormatted` for one node. Arguments may be of any shape and number.
* `RoutesInv`: see `ToolDispatchProofs`.

The library's induction takes an operator, which the provers cannot instantiate. `NumbersAndLists` does without: what holds at 0 and is
handed on to the successor is a *set* of numbers, whose complement has no least element (`Induction`). A recursive function over
`0 .. n` is unfolded once (`Recursion`), and from there powers, digits and joined lists are proved for every length: digits behind digits
(`NumberOf` of a concatenation), `DigitsOf` as its inverse, and the middle part of joined lists.

`Entitled`, `ToldTrue`, `NamesSound`, `SignedSound` and `AskedSound` say of the whole what the run checks. `PartsTyped` is type correctness of all
parts; it uses `PartsInv` in both states of a step, as most types follow from it.

**`ToolDispatchProofs`.** The part of `ServerPartsProofs` about calls of tools, which `AskedSound` rests on. `RoutesInv`: the last call
was served as it should be, and the networks are the configured ones. The registry is looked through once:
each route of each tool is of one of a few kinds (`RouteFits`), which say where it ends, that what is there reads every argument of the
route, and that what it cannot do without is required by the schema. There is one lemma for each table of the registry
(`MetaToolsFit` .. `SearchToolsFit`), on top of lemmas about the other tables (`InternalNames`, `HandlersWithin`, `CatalogParts`,
`Offered`, `WrappersFit`). `ServedIsRouted` then takes one case per kind, for any arguments, networks and switches: that the arms of
`callTool()` do not overlap (`CallIs`), that a service that is missing is one of a network that is not enabled (`NodeEndsWell`), that a
guard lets through only what may be sent (`BuiltIsPermitted`) and refuses no call for its form that the registry let through
(`SuitedIsBuilt`).

**`WriteApprovalProofs`.** `TypeCorrect`, `Consent`, `OnlyRefusalCloses`, `ClosingIsFinal`, for any keys, requests,
principals and transactions, from `ApprovalConstants` and from what `WriteIntent` says of the journal. The invariant
(`ConsentInv`): every intent past its approval was consented to; a relayed transaction belongs to an intent
that is bound or concluded, and is its own. `RelayedWithConsent` alone is not inductive, since an intent is
authorised long before its transaction goes out.

**Only model-checked.**
Liveness under fairness is outside the prover's reach: `CallsSettle`, `CallEnds`, `EverythingEnds`, `ReadingAndStoppingEnd`.

Every other property of a passing run is a theorem. The tables are constants of the system, so `AskedSound` is about the tables as they are,
and for every call that could be made of them; TLC makes those of the configuration.

## 7. Plan

1. `WriteIntent`, `WriteOperations`, `WriteApproval`, their runs and proofs, the refinement among them. *Done.*
2. `RateLimiter`, `RpcFailover`, `TransactionWait`, their runs and proofs. *Done.*
3. Both HTTP servers, contract names, preparation, parameters, tools with their tables, reads, proposals, the Neo X client, their runs and
   proofs, the tables and the formatting of parameters among them. *Done.*
4. To model: the file of a wallet between its encryption and its rename, when two imports of one account overlap.

### Not modelled

* Wallets and signers: `WalletService` writes one file per account and moves it into place; signers are looked up in the environment.
* The guards of `query_explorer_find` and GraphQL, which parse text against a grammar; only the switches in front of them are modelled.
* `neo-data-tools.ts` and the NNS, NeoFS and oracle answers of `ecosystem-tools.ts`: conversions of one answer or of none, with no state.
* Configuration parsing, validation of syntax, logging, types, the website, examples and packaging.
* Keccak-256, base58, NEP-2 and signatures, which are external or taken for injective.

## 8. Running

    tlc -workers 2 -config WriteOperations_faults.cfg MCWriteOperations.tla
    tlc -workers 2 -config ServerParts.cfg MCServerParts.tla
    tlapm WriteOperationsProofs.tla
