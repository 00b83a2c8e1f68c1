------------------------------ MODULE HttpServer ------------------------------
(***************************************************************************)
(* handleRequest() of src/src/http-server.ts: the checks in front of the   *)
(* routes, the body, the routes, the mapping of errors to answers, and the *)
(* health probe that all callers share.  Between the awaits of a request   *)
(* other than a probe the server changes no state of its own, so such a    *)
(* request is one step.  The rate limiter is the module RateLimiter, the   *)
(* wait route and stop() are in TransactionWait, the journal behind the    *)
(* write routes in WriteApproval.                                          *)
(***************************************************************************)
EXTENDS Integers

CONSTANTS
    Deployments,        \* the options a server may be constructed with: see Options
    Queries,            \* the requests other than for health: see QueryForms
    Ttl,                \* healthCacheTtlMs
    ProbeTime,          \* the deadlines of getBlockCount(), all endpoints together
    LastTime            \* bound: time ends here

VARIABLES
    server,             \* the options the server runs with, or Refused
    now, node,          \* the clock; whether the Neo node answers
    healthStatusCache,  \* [expiresAt, value] or NoCache
    healthStatusRequest,\* when the probe under way started and what it met, or NoProbe
    waiting,            \* callers of /health who share the probe
    lastTrue,           \* history: when the node last was up, and last was down
    answer,             \* history: the last health answer and its age
    last                \* history: the last other request, what it did and was told

healthVars == <<healthStatusCache, healthStatusRequest, waiting, lastTrue, answer>>
vars == <<server, now, node, healthVars, last>>

Options == [loopback : BOOLEAN, apiKey : {"none", "short", "key"}, approvalKey : {"none", "short", "key", "approval"},
            writesEnabled : BOOLEAN, coordinator : BOOLEAN, walletAdministration : BOOLEAN]
Refused == [refused |-> TRUE]
NoCache == [expiresAt |-> -1, value |-> "none"]
NoProbe == [started |-> -1, met |-> {}]
NoRequest == [route |-> "none", auth |-> "none", secret |-> FALSE, status |-> 0,
              changed |-> FALSE, failure |-> "none", details |-> FALSE]
NoAnswer == [value |-> "none", age |-> 0]
Running == server # Refused

-----------------------------------------------------------------------------
(* The constructor.                                                        *)

\* What the constructor of HttpServer accepts; numbers are checked likewise.
Accepts(o) ==
    /\ ~o.loopback => o.apiKey # "none"
    /\ o.apiKey # "short" /\ o.approvalKey # "short"
    /\ o.writesEnabled => o.coordinator /\ o.approvalKey # "none"
    /\ o.apiKey # "none" => o.approvalKey # o.apiKey

-----------------------------------------------------------------------------
(* Routes.                                                                 *)

Probes == {"live", "health"}

\* The routes that ask the chain: a reference or a query parameter is validated first.
ChainReads ==
    {"metrics", "info", "height", "block", "transaction", "applicationLog", "wait", "balance",
     "unclaimedGas", "nep17Transfers", "nep11Balances", "nep11Transfers", "networkMode"}

\* Contracts by reference; a named one is asserted to be deployed before it is invoked.
ContractReads == {"contractStatus", "contractInfo", "estimateInvoke", "invoke", "invokeNamed", "estimateTransfer"}
Administration == {"createWallet", "importWallet"}
Reservations == {"transfer", "claimGas", "invokeWrite", "deploy"}
Routes == Probes \cup ChainReads \cup ContractReads \cup Administration \cup Reservations
             \cup {"getWallet", "getIntent", "approveIntent", "none", "nonePost"}

HasBody(route) == route \in Administration \cup Reservations \cup
    {"nonePost", "approveIntent", "estimateInvoke", "invoke", "invokeNamed", "estimateTransfer"}
WriteRoute(route) == route \in Reservations \cup {"getIntent", "approveIntent"}

\* What a request brings: its key, how its body is framed, whether its arguments are
\* all there and valid, whether it has a field with a secret or "confirm".
QueryForms ==
    [route : Routes \ {"health"}, auth : {"none", "key", "approval"}, limited : BOOLEAN,
     framing : {"none", "object", "list", "garbage", "untyped", "otherType", "tooLong"},
     valid : BOOLEAN, secret : BOOLEAN]

ConstantsOK ==
    /\ Deployments \subseteq Options /\ Queries \subseteq QueryForms
    /\ Ttl \in Nat /\ ProbeTime \in Nat /\ LastTime \in Nat

-----------------------------------------------------------------------------
(* In front of the routes.                                                 *)

\* isAuthorized(): probes are public, the approval has a key of its own, and without
\* an API key everything else is open.
Authorized(q) ==
    LET expected == IF q.route = "approveIntent" THEN server.approvalKey ELSE server.apiKey
    IN  \/ q.route \in Probes
        \/ expected = "none" /\ q.route # "approveIntent"
        \/ expected # "none" /\ q.auth = expected

\* Rate limit, authorization and the two switches, in this order; 0 lets it through.
Gate(q) ==
    IF q.route \notin Probes /\ q.limited THEN 429
    ELSE IF ~Authorized(q) THEN 401
    ELSE IF q.route \in Administration /\ ~server.walletAdministration THEN 403
    ELSE IF WriteRoute(q.route) /\ ~server.writesEnabled THEN 403
    ELSE 0

\* parseRequestBody(); nothing at all is an empty object.
BodyStatus(q) ==
    IF ~HasBody(q.route) THEN 0
    ELSE CASE q.framing \in {"none", "object"}        -> 0
           [] q.framing \in {"otherType", "untyped"} -> 415
           [] q.framing = "tooLong"           -> 413
           [] q.framing \in {"list", "garbage"} -> 400

-----------------------------------------------------------------------------
(* Behind the routes.                                                      *)

\* What the services throw, by the class of the error or the words of its message.
Failures == {"validation", "rate", "unknownOutcome", "rpc", "notFound", "invalid",
             "unauthorized", "forbidden", "timeout", "other"}
FailureStatus ==
    [validation |-> 400, rate |-> 429, unknownOutcome |-> 504, rpc |-> 502, notFound |-> 404,
     invalid |-> 400, unauthorized |-> 401, forbidden |-> 403, timeout |-> 504, other |-> 500]

\* details go out below 500, and for a submission whose outcome is unknown.
Detailed(failure) == FailureStatus[failure] < 500 \/ failure = "unknownOutcome"

\* Missing and malformed arguments are refused before a service is called, except
\* that some routes ask in between whether the contract is deployed.
LooksFirst(q) ==
    \/ q.route = "invokeNamed"
    \/ q.route \in {"estimateInvoke", "invoke", "invokeWrite"} /\ q.framing = "object"
WellFormed(q) == q.valid /\ (HasBody(q.route) => q.framing = "object" \/ q.route = "claimGas")

\* rejectSecretWriteFields() guards whatever reserves, first of all.
Secretive(q) == q.route \in Reservations /\ q.secret

\* These ask nobody, or do without an answer.
Unfailing(route) == route \in {"live", "metrics", "networkMode"}

\* The routes that change state once their service succeeds.
Changes(route) == route \in Administration \cup Reservations \cup {"approveIntent"}
Missing(route) == route \in {"none", "nonePost"}
Success(route) == IF route \in Reservations THEN 202 ELSE 200

\* What ends a request in front of its service, or 0.
Refusal(q, failure) ==
    IF Gate(q) # 0 THEN Gate(q)
    ELSE IF BodyStatus(q) # 0 THEN BodyStatus(q)
    ELSE IF Missing(q.route) THEN 404
    ELSE IF Secretive(q) THEN 400
    ELSE IF WellFormed(q) \/ (LooksFirst(q) /\ failure # "none") THEN 0
    ELSE 400

\* The service fails, or a write came to the read route, or all is well.
Served(q, failure) ==
    IF failure # "none" THEN FailureStatus[failure]
    ELSE IF q.route = "invoke" /\ q.secret THEN 400
    ELSE Success(q.route)

\* A request other than for health, and what its service throws.  Bound: one in a
\* behaviour; the next meets the same server.
Request(q, thrown) ==
    LET failure == IF Unfailing(q.route) THEN "none" ELSE thrown
        refusal == Refusal(q, failure)
        status  == IF refusal # 0 THEN refusal ELSE Served(q, failure)
    IN  /\ last' = [route |-> q.route, auth |-> q.auth, secret |-> q.secret, status |-> status,
                    changed |-> Changes(q.route) /\ refusal = 0 /\ status = Success(q.route),
                    failure |-> failure,
                    details |-> refusal = 0 /\ failure # "none" /\ Detailed(failure)]
        /\ UNCHANGED <<server, now, node, healthVars>>

-----------------------------------------------------------------------------
(* Health.                                                                 *)

Told(value) == [value |-> value, age |-> now - lastTrue[value]]

\* Deviation: an answer of the node is cached for good.
CachedOnce == healthStatusCache # NoCache

\* The cache is good until it expires.
Cached == healthStatusCache.expiresAt > now

\* getHealthStatus(): from the cache, with the probe under way, or with a new one.
Health ==
    /\ Running
    /\ \/ Cached /\ answer' = Told(healthStatusCache.value)
          /\ UNCHANGED <<healthStatusRequest, waiting>>
       \/ ~Cached /\ healthStatusRequest # NoProbe /\ waiting' = TRUE
          /\ UNCHANGED <<healthStatusRequest, answer>>
       \/ ~Cached /\ healthStatusRequest = NoProbe /\ waiting' = TRUE
          /\ healthStatusRequest' = [started |-> now, met |-> {node}]
          /\ UNCHANGED answer
    /\ UNCHANGED <<server, now, node, healthStatusCache, lastTrue, last>>

\* then() and finally(): the cache is filled and the probe is over.
Filled(value) ==
    /\ healthStatusCache' = [expiresAt |-> now + Ttl, value |-> value]
    /\ healthStatusRequest' = NoProbe

\* fetchHealthStatus() ends with what the node was at some time since it started; a
\* failure is an answer too, and all who wait get it.
ProbeEnds(value) ==
    /\ healthStatusRequest # NoProbe /\ value \in healthStatusRequest.met
    /\ Filled(value)
    /\ answer' = Told(value) /\ waiting' = FALSE
    /\ UNCHANGED <<server, now, node, lastTrue, last>>

\* The node goes and comes back.
NodeTurns ==
    /\ node' \in {"up", "down"} \ {node}
    /\ lastTrue' = [lastTrue EXCEPT ![node'] = now]
    /\ healthStatusRequest' = IF healthStatusRequest = NoProbe THEN NoProbe
                              ELSE [healthStatusRequest EXCEPT !.met = @ \cup {node'}]
    /\ UNCHANGED <<server, now, healthStatusCache, waiting, answer, last>>

\* A probe takes ProbeTime at most.
Tick ==
    /\ now < LastTime
    /\ healthStatusRequest # NoProbe => now < healthStatusRequest.started + ProbeTime
    /\ now' = now + 1
    /\ lastTrue' = [lastTrue EXCEPT ![node] = now + 1]
    /\ UNCHANGED <<server, node, healthStatusCache, healthStatusRequest, waiting, answer, last>>

-----------------------------------------------------------------------------

Init ==
    /\ \E o \in Deployments : server = IF Accepts(o) THEN o ELSE Refused
    /\ now = 0 /\ node \in {"up", "down"}
    /\ lastTrue = [up |-> 0, down |-> 0]
    /\ healthStatusCache = NoCache /\ healthStatusRequest = NoProbe
    /\ waiting = FALSE /\ answer = NoAnswer /\ last = NoRequest

Serving ==
    /\ Running /\ last = NoRequest
    /\ \E q \in Queries, failure \in Failures \cup {"none"} : Request(q, failure)
Probing == Health \/ (\E value \in {"up", "down"} : ProbeEnds(value)) \/ NodeTurns \/ Tick

Next == Serving \/ Probing

Spec == Init /\ [][Next]_vars

-----------------------------------------------------------------------------
(* Properties.                                                             *)

TypeOK ==
    /\ server = Refused \/ server \in Options
    /\ now \in 0 .. LastTime /\ node \in {"up", "down"}
    /\ healthStatusCache \in [expiresAt : -1 .. LastTime + Ttl, value : {"none", "up", "down"}]
    /\ healthStatusRequest \in [started : -1 .. LastTime, met : SUBSET {"up", "down"}]
    /\ waiting \in BOOLEAN /\ lastTrue \in [{"up", "down"} -> 0 .. LastTime]
    /\ answer \in [value : {"none", "up", "down"}, age : 0 .. LastTime]
    /\ last \in [route : Routes, auth : {"none", "key", "approval"}, secret : BOOLEAN,
                 status : {0, 200, 202, 400, 401, 403, 404, 413, 415, 429, 500, 502, 504},
                 changed : BOOLEAN, failure : Failures \cup {"none"}, details : BOOLEAN]

\* What /health says was true of the node not longer ago than one probe and one
\* lifetime of the cache, through however many callers and flips of the node, and
\* failures are forgotten as quickly as successes.
HealthIsRecent == answer.age <= Ttl + ProbeTime

\* Nothing changes state but what the switches allow and the right key asked for; a
\* secret in a body gets into no intent; and the words of a failed service get out
\* only where they say what the caller did wrong, or that a submission is in doubt.
EffectsAreGuarded ==
    /\ last.changed =>
          /\ last.route \in Administration => server.walletAdministration
          /\ WriteRoute(last.route) => server.writesEnabled /\ server.coordinator
          /\ last.route = "approveIntent" => last.auth = server.approvalKey /\ last.auth # server.apiKey
          /\ ~server.loopback => last.auth # "none"
          /\ last.route \in Reservations => ~last.secret
    /\ last.details => last.failure \notin {"rpc", "timeout", "other"}
===============================================================================
