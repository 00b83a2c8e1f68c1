---------------------------- MODULE McpHttpServer ----------------------------
(***************************************************************************)
(* The read-only MCP endpoint over HTTP: src/src/mcp-http-server.ts and    *)
(* its process, src/src/mcp-http.ts.  A request is checked, takes one of   *)
(* maxConcurrentRequests slots, has its body read under a size limit and a *)
(* timer, and is then served by an MCP server of its own.  Signals stop    *)
(* the process while requests are at any of these places.                  *)
(***************************************************************************)
EXTENDS Integers, FiniteSets

CONSTANTS
    Calls,                  \* the HTTP requests of a behaviour
    Heads, Environments,    \* what they say, and what the process is told: see below
    maxConcurrentRequests,
    maxBodyBytes            \* in units of one chunk

Bearers == {"none", "short", "long"}      \* "long" has MIN_REMOTE_BEARER_BYTES
Options == [remote : BOOLEAN, bearer : Bearers, numbers : BOOLEAN, path : {"plain", "bad", "health"},
            hosts : BOOLEAN, origins : BOOLEAN]

\* What a request says of itself.  "listed" is in the allowlist, and "token" is the
\* bearer; peer is the TCP peer, forwarded what the proxy headers claim.
RequestHeads ==
    [host : {"none", "listed", "other"}, origin : {"none", "listed", "other"},
     method : {"OPTIONS", "GET", "POST"}, path : {"health", "mcp", "other"},
     auth : {"none", "wrong", "token"}, json : BOOLEAN, declared : {"unknown", "fits", "over"},
     peer : {"loopback", "client"}, forwarded : {"none", "claimed"}]

ASSUME McpConstants ==
    /\ IsFiniteSet(Calls)
    /\ Heads \subseteq RequestHeads /\ Environments \subseteq Options
    /\ maxConcurrentRequests \in Nat \ {0}
    /\ maxBodyBytes \in Nat

VARIABLES
    options,         \* of the process, from its environment
    process,         \* "created", "listening", "closing", "draining", "closed", "exited"
    call,            \* [Calls -> record]
    activeRequests,
    writesEnabled    \* config.writes.enabled, which the whole process shares

vars == <<options, process, call, activeRequests, writesEnabled>>

Idle == [pc |-> "idle", status |-> 0, size |-> 0, open |-> FALSE,
         key |-> "none", token |-> FALSE, peer |-> "none", writes |-> FALSE]

Holding(c) == call[c].pc \in {"reading", "handling"}

-----------------------------------------------------------------------------
(* Configuration.                                                          *)

\* resolveMcpHttpBearer(): off loopback the bearer is there and is long.
BearerResolves(o) == o.remote => o.bearer = "long"

\* What the environment and the constructor accept.
OptionsAccepted(o) == o.numbers /\ o.path = "plain" /\ BearerResolves(o)

-----------------------------------------------------------------------------
(* The checks of handle(), in their order.                                 *)

HostAllowed(h)   == ~options.hosts \/ h.host = "listed"
OriginAllowed(h) == h.origin = "none" \/ (options.origins /\ h.origin = "listed")
Authorized(h)    == options.bearer = "none" \/ h.auth = "token"

CapacityLeft == activeRequests < maxConcurrentRequests

\* The status that ends a request before its body is read, or 0.
Refusal(h) ==
    IF ~HostAllowed(h) \/ ~OriginAllowed(h) THEN 403
    ELSE IF h.method = "OPTIONS"  THEN 204
    ELSE IF h.path = "health"     THEN (IF h.method = "GET" THEN 200 ELSE 405)
    ELSE IF h.path # "mcp"        THEN 404
    ELSE IF ~Authorized(h)        THEN 401
    ELSE IF h.method # "POST"     THEN 405
    ELSE IF ~h.json               THEN 415
    ELSE IF ~CapacityLeft         THEN 503
    ELSE 0

\* deriveRateLimitKey(): forwarded headers count when the peer is the local proxy.
RateKey(h) == IF h.peer = "loopback" /\ h.forwarded # "none" THEN h.forwarded ELSE h.peer

-----------------------------------------------------------------------------
(* Requests.                                                               *)

\* The answer of a request without a slot; Connection: close, or the client reads on.
Answered(c, status) == [call EXCEPT ![c] = [Idle EXCEPT !.pc = "over", !.status = status]]

\* Deviation: a body that fails keeps its slot.
ReleaseKept(c, status) ==
    /\ call' = Answered(c, status)
    /\ activeRequests' = IF call[c].pc = "reading" THEN activeRequests ELSE activeRequests - 1

\* finally: the slot comes back before the error is answered.
Release(c, status) ==
    /\ call' = Answered(c, status)
    /\ activeRequests' = activeRequests - 1

\* The server accepts until stop() calls server.close().
Accepting == process \in {"listening", "closing"}

\* handle() up to its first await; a declared length over the limit rejects at once.
Arrive(c, h) ==
    /\ Accepting /\ call[c].pc = "idle"
    /\ IF Refusal(h) # 0 \/ h.declared = "over"
       THEN /\ call' = Answered(c, IF Refusal(h) # 0 THEN Refusal(h) ELSE 413)
            /\ UNCHANGED activeRequests
       ELSE /\ call' = [call EXCEPT ![c] = [Idle EXCEPT
                          !.pc = "reading", !.open = TRUE, !.token = (h.auth = "token"),
                          !.key = RateKey(h), !.peer = h.peer]]
            /\ activeRequests' = activeRequests + 1
    /\ UNCHANGED <<options, process, writesEnabled>>

\* 'data': one chunk more.
Data(c) ==
    /\ call[c].pc = "reading" /\ call[c].open
    /\ IF call[c].size + 1 > maxBodyBytes
       THEN Release(c, 413)
       ELSE /\ call' = [call EXCEPT ![c].size = @ + 1]
            /\ UNCHANGED activeRequests
    /\ UNCHANGED <<options, process, writesEnabled>>

\* Deviation: the server of a request is made with the flag of the process.
ServerAsConfigured == [writes |-> writesEnabled, after |-> writesEnabled]

\* createReadOnlyNeoServer(): constructed with the flag pinned off, which is put back.
Server == [writes |-> FALSE, after |-> writesEnabled]

\* 'end': the body parses and nodeHandler() gets a server of its own, or it does not.
End(c, valid) ==
    /\ call[c].pc = "reading" /\ call[c].open
    /\ IF valid
       THEN /\ call' = [call EXCEPT ![c].pc = "handling", ![c].writes = Server.writes]
            /\ writesEnabled' = Server.after
            /\ UNCHANGED activeRequests
       ELSE Release(c, 400) /\ UNCHANGED writesEnabled
    /\ UNCHANGED <<options, process>>

\* 'error' of the request, which a connection that goes brings about.
BodyError(c) ==
    /\ call[c].pc = "reading"
    /\ Release(c, 400)
    /\ UNCHANGED <<options, process, writesEnabled>>

\* bodyTimeoutMs after the first listener.
BodyTimeout(c) ==
    /\ call[c].pc = "reading"
    /\ Release(c, 408)
    /\ UNCHANGED <<options, process, writesEnabled>>

\* nodeHandler() returns, or throws: 500 then, unless headers are out.
Handled(c, status) ==
    /\ call[c].pc = "handling"
    /\ Release(c, status)
    /\ UNCHANGED <<options, process, writesEnabled>>

\* The client goes; of itself that ends nothing but what its events end.
Hangup(c) ==
    /\ Holding(c) /\ call[c].open
    /\ call' = [call EXCEPT ![c].open = FALSE]
    /\ UNCHANGED <<options, process, activeRequests, writesEnabled>>

-----------------------------------------------------------------------------
(* The process.                                                            *)

\* start(): listens, or the options or the bind failed and the process exits.
Boot ==
    /\ process = "created"
    /\ process' \in IF OptionsAccepted(options) THEN {"listening", "exited"} ELSE {"exited"}
    /\ UNCHANGED <<options, call, activeRequests, writesEnabled>>

\* The first signal starts stop(); the shutdown() of a second one returns at once,
\* and its finally exits.  Before start() returned no handler is registered.
Signal ==
    /\ process \notin {"exited"}
    /\ process' = IF process = "listening" THEN "closing" ELSE "exited"
    /\ UNCHANGED <<options, call, activeRequests, writesEnabled>>

\* Deviation: connections in use are left to end by themselves.
CutConnectionsPolitely ==
    /\ process = "closing"
    /\ process' = "draining"
    /\ UNCHANGED <<options, call, activeRequests, writesEnabled>>

\* mcpHandler.close() resolved: the listener closes and every connection is cut.
CutConnections ==
    /\ process = "closing"
    /\ process' = "draining"
    /\ call' = [c \in Calls |-> [call[c] EXCEPT !.open = FALSE]]
    /\ UNCHANGED <<options, activeRequests, writesEnabled>>

\* The callback of server.close(): no connection is left, whatever handlers do.
ServerClosed ==
    /\ process = "draining" /\ \A c \in Calls : ~call[c].open
    /\ process' = "closed"
    /\ UNCHANGED <<options, call, activeRequests, writesEnabled>>

Exit ==
    /\ process = "closed"
    /\ process' = "exited"
    /\ UNCHANGED <<options, call, activeRequests, writesEnabled>>

\* The handlers of a process that is gone are gone.
Alive == process \notin {"created", "exited"}

Init ==
    /\ options \in Environments
    /\ process = "created"
    /\ call = [c \in Calls |-> Idle]
    /\ activeRequests = 0
    /\ writesEnabled \in BOOLEAN

Serve(c) ==
    /\ Alive
    /\ \/ \E h \in Heads : Arrive(c, h)
       \/ Data(c) \/ BodyError(c) \/ BodyTimeout(c) \/ Hangup(c)
       \/ \E valid \in BOOLEAN : End(c, valid)
       \/ \E status \in {200, 500} : Handled(c, status)

Stop == CutConnections \/ ServerClosed \/ Exit

Next == (\E c \in Calls : Serve(c)) \/ Boot \/ Signal \/ Stop

\* Timers fire and stop() goes on; clients, handlers and operators need do nothing.
Fairness ==
    /\ \A c \in Calls : WF_vars(Alive /\ BodyTimeout(c))
    /\ WF_vars(Stop)

Spec == Init /\ [][Next]_vars

-----------------------------------------------------------------------------
(* Properties.                                                             *)

\* Every variable has its type.
TypeOK ==
    /\ options \in Options
    /\ process \in {"created", "listening", "closing", "draining", "closed", "exited"}
    /\ call \in [Calls -> [pc : {"idle", "reading", "handling", "over"}, status : Nat,
                           size : 0 .. maxBodyBytes, open : BOOLEAN, token : BOOLEAN,
                           key : {"none", "loopback", "client", "claimed"},
                           peer : {"none", "loopback", "client"}, writes : BOOLEAN]]
    /\ activeRequests \in Int
    /\ writesEnabled \in BOOLEAN

\* However the body of a request ends and however its handler does, in any order
\* with a stop, its slot is counted once and given back once.
SlotsAreExact ==
    /\ activeRequests = Cardinality({c \in Calls : Holding(c)})
    /\ activeRequests <= maxConcurrentRequests

\* A request is served only by a process that has the bearer its address calls for
\* and only if it showed it; it is charged to its peer unless the local proxy
\* speaks for another; and its server has no write tools, whatever the flag says.
ServedAsPromised ==
    \A c \in Calls : Holding(c) =>
        /\ options.remote => call[c].token
        /\ call[c].peer = "client" => call[c].key = "client"
        /\ ~call[c].writes

\* No body is read for ever, though the client stalls, and no handler that hangs
\* keeps the process from going down.
ReadingAndStoppingEnd ==
    /\ \A c \in Calls : call[c].pc = "reading" ~> call[c].pc # "reading" \/ process = "exited"
    /\ process = "closing" ~> process = "exited"
=============================================================================
