----------------------------- MODULE RpcFailover -----------------------------
(***************************************************************************)
(* One RPC call of src/src/utils/rpc-client.ts: the endpoints are tried in *)
(* order, one budget is shared by all attempts, an attempt is capped while *)
(* a fallback remains, and a submission goes to the first endpoint only.   *)
(* The caller waits under the deadline of src/src/utils/rpc-deadline.ts,   *)
(* which does not cancel the sweep, and classifies what it gets the way    *)
(* submitPreparedTransaction() does.  A request on the wire reaches its    *)
(* node whenever it likes, even when nobody waits for the answer any more. *)
(***************************************************************************)
EXTENDS Integers, Sequences, FiniteSets

CONSTANTS
    Urls,        \* endpoints
    Blank,       \* a list entry that is empty once trimmed
    UrlLists,    \* the configured lists
    Timeouts,    \* timeoutMs, after the per-call minimum was taken
    Ceiling,     \* MAX_ATTEMPT_TIMEOUT_MS
    Early,       \* a timer may fire this much before it is due by Date.now()
    Late         \* bound: a busy event loop delays a timer this much at most

ASSUME FailoverConstants ==
    /\ Blank \notin Urls
    /\ UrlLists \subseteq Seq(Urls \cup {Blank})
    /\ Timeouts \subseteq Nat \ {0}
    /\ Ceiling \in Nat \ {0} /\ Early \in Nat /\ Late \in Nat

VARIABLES
    method,     \* "read" | "submit", a member of NON_FAILOVER_METHODS
    endpoints,  \* the list after createRpcClient()
    timeoutMs,  \* the budget of the call
    now,        \* Date.now() since the call started
    attempted,  \* attempts made; the last one asked endpoints[attempted]
    timer,      \* when the timer of the current attempt is due
    phase,      \* "choosing" | "asking" | "over": the loop of the sweep
    lastError,  \* what the sweep would throw or return
    caller,     \* "waiting", or the verdict of the caller
    node        \* [1 .. Len(endpoints) -> what became of the request to it]

vars == <<method, endpoints, timeoutMs, now, attempted, timer, phase, lastError, caller, node>>
callVars == <<method, endpoints, timeoutMs>>

NodeStates == {"idle", "sent", "taken", "refused", "dropped"}
Errors     == {"deadline", "transport"}
Answers    == {"result", "mismatch", "rejection", "unsupported"}
Outcomes   == Errors \cup Answers \cup {"none"}
Verdicts   == {"acknowledged", "rejected", "unknown"}

-----------------------------------------------------------------------------
(* Endpoints and budgets.                                                  *)

\* Deviation: duplicates stay.
RpcUrlListUnfiltered(list) == SelectSeq(list, LAMBDA url : url # Blank)

\* toRpcUrlList(): first occurrences, blanks dropped.
RpcUrlList(list) ==
    LET kept == {i \in DOMAIN list :
                    list[i] # Blank /\ \A j \in 1 .. i - 1 : list[j] # list[i]}
    IN  [n \in 1 .. Cardinality(kept) |->
            list[CHOOSE i \in kept : Cardinality({j \in kept : j <= i}) = n]]

\* Deviation: a submission fails over like a read.
FailoverAlways == Len(endpoints) > 1

FailoverAllowed == Len(endpoints) > 1 /\ method # "submit"

\* Deviation: the loop runs once too often.
TriesOneMore == IF FailoverAllowed THEN Len(endpoints) + 1 ELSE 1

Tries == IF FailoverAllowed THEN Len(endpoints) ELSE 1

Remaining == timeoutMs - now
Budget    == IF attempted = 0 THEN timeoutMs ELSE Remaining

\* Deviation: the cap is forgotten.
UncappedTimeout == Budget

\* Deviation: every attempt gets the whole budget.
FreshTimeout == timeoutMs

AttemptTimeout ==
    IF attempted + 1 = Tries \/ Budget <= Ceiling THEN Budget ELSE Ceiling

\* The first attempt always runs.
Spent == attempted > 0 /\ Remaining <= 0

-----------------------------------------------------------------------------
(* The sweep.                                                              *)

Ask ==
    /\ phase = "choosing"
    /\ attempted < Tries /\ ~Spent
    /\ attempted' = attempted + 1
    /\ timer' = now + AttemptTimeout
    /\ phase' = "asking"
    /\ node' = [node EXCEPT ![attempted + 1] = "sent"]
    /\ UNCHANGED <<callVars, now, lastError, caller>>

GiveUp ==
    /\ phase = "choosing"
    /\ attempted = Tries \/ Spent
    /\ phase' = "over"
    /\ UNCHANGED <<callVars, now, attempted, timer, lastError, caller, node>>

\* The chain answered: nobody else is asked.  A result that names another
\* transaction is a "mismatch"; "unsupported" is an error without a code whose
\* text says that the method does not exist.
Answered(outcome) ==
    /\ phase = "asking"
    /\ outcome = "mismatch" => method = "submit"
    /\ node[attempted] = IF outcome \in {"result", "mismatch"} THEN "taken" ELSE "refused"
    /\ lastError' = outcome
    /\ phase' = "over"
    /\ UNCHANGED <<callVars, now, attempted, timer, caller, node>>

\* An unreachable host, an HTTP error, a malformed body, an error without a code.
TransportFails ==
    /\ phase = "asking"
    /\ lastError' = "transport"
    /\ phase' = "choosing"
    /\ UNCHANGED <<callVars, now, attempted, timer, caller, node>>

\* Deviation: the last attempt runs without a timer.
AttemptTimesOutUnlessLast ==
    /\ phase = "asking"
    /\ now + Early >= timer /\ attempted < Tries
    /\ lastError' = "deadline"
    /\ phase' = "choosing"
    /\ UNCHANGED <<callVars, now, attempted, timer, caller, node>>

AttemptTimesOut ==
    /\ phase = "asking"
    /\ now + Early >= timer
    /\ lastError' = "deadline"
    /\ phase' = "choosing"
    /\ UNCHANGED <<callVars, now, attempted, timer, caller, node>>

-----------------------------------------------------------------------------
(* The caller.                                                             *)

\* Deviation: a transport error counts as a refusal.
VerdictHasty(outcome) ==
    CASE outcome = "result"                    -> "acknowledged"
      [] outcome \in {"rejection", "transport"} -> "rejected"
      [] OTHER                                 -> "unknown"

\* submitPreparedTransaction(): only an RPC error is a definitive refusal.
Verdict(outcome) ==
    CASE outcome = "result"    -> "acknowledged"
      [] outcome = "rejection" -> "rejected"
      [] OTHER                 -> "unknown"

\* The sweep settles before the deadline of the caller.
Settle ==
    /\ caller = "waiting"
    /\ phase = "over"
    /\ caller' = Verdict(lastError)
    /\ UNCHANGED <<callVars, now, attempted, timer, phase, lastError, node>>

\* withRpcDeadline(): the caller goes, the sweep goes on.
DeadlinePasses ==
    /\ caller = "waiting"
    /\ now + Early >= timeoutMs
    /\ caller' = Verdict("deadline")
    /\ UNCHANGED <<callVars, now, attempted, timer, phase, lastError, node>>

-----------------------------------------------------------------------------
(* The nodes and the clock.                                                *)

\* A node takes the request, refuses it, or never sees it.
NodeActs(n, state) ==
    /\ node[n] = "sent"
    /\ state \in {"taken", "refused", "dropped"}
    /\ node' = [node EXCEPT ![n] = state]
    /\ UNCHANGED <<callVars, now, attempted, timer, phase, lastError, caller>>

\* Choosing takes no time; a due timer fires within Late.
Tick ==
    /\ phase # "choosing"
    /\ phase = "asking" => now < timer + Late
    /\ caller = "waiting" => now < timeoutMs + Late
    /\ phase # "over" \/ caller = "waiting"
    /\ now' = now + 1
    /\ UNCHANGED <<callVars, attempted, timer, phase, lastError, caller, node>>

-----------------------------------------------------------------------------

Init ==
    /\ method \in {"read", "submit"}
    /\ endpoints \in {RpcUrlList(list) : list \in UrlLists} \ {<<>>}
    /\ timeoutMs \in Timeouts
    /\ now = 0 /\ attempted = 0 /\ timer = 0
    /\ phase = "choosing" /\ lastError = "none" /\ caller = "waiting"
    /\ node = [n \in 1 .. Len(endpoints) |-> "idle"]

Next ==
    \/ Ask \/ GiveUp
    \/ \E outcome \in Answers : Answered(outcome)
    \/ TransportFails \/ AttemptTimesOut
    \/ Settle \/ DeadlinePasses
    \/ \E n \in DOMAIN node, state \in NodeStates : NodeActs(n, state)
    \/ Tick

\* Time passes, timers fire and the loop goes on; nodes need not answer.
Fairness ==
    /\ WF_vars(Tick) /\ WF_vars(Ask) /\ WF_vars(GiveUp)
    /\ WF_vars(AttemptTimesOut) /\ WF_vars(Settle) /\ WF_vars(DeadlinePasses)

Spec == Init /\ [][Next]_vars
FairSpec == Spec /\ Fairness

-----------------------------------------------------------------------------
(* Properties.                                                             *)

\* Every variable has its type.
TypeOK ==
    /\ method \in {"read", "submit"}
    /\ endpoints \in Seq(Urls) /\ Len(endpoints) > 0
    /\ timeoutMs \in Timeouts
    /\ now \in Nat /\ timer \in Nat /\ attempted \in 0 .. Len(endpoints)
    /\ phase \in {"choosing", "asking", "over"}
    /\ lastError \in Outcomes
    /\ caller \in Verdicts \cup {"waiting"}
    /\ node \in [1 .. Len(endpoints) -> NodeStates]

Failed == phase = "over" /\ lastError \in Errors

\* However many endpoints stall, the sweep is over within the one budget of the
\* call, give or take one timer.
WithinBudget == phase # "over" => now <= timeoutMs + Late

\* A submission never reaches a second endpoint.
SubmittedToOne ==
    method = "submit" => \A n \in DOMAIN node : node[n] # "idle" => n = 1

\* No endpoint is asked twice, whatever the configured list repeats.
AskedOnce ==
    \A m, n \in DOMAIN node :
        node[m] # "idle" /\ node[n] # "idle" /\ endpoints[m] = endpoints[n] => m = n

\* A caller who is told that the transaction was rejected can rely on it: no
\* endpoint of this call took it, or will.
RejectedWasNotTaken ==
    method = "submit" /\ caller = "rejected"
        => \A n \in DOMAIN node : node[n] \notin {"sent", "taken"}

\* A read fails only when every endpoint was asked or the budget is spent, and a
\* stalled endpoint costs one ceiling of it, not the whole.
StallCostsOneCeiling ==
    method = "read" /\ Failed
        => attempted = Len(endpoints) \/ (attempted * (Ceiling + Late) >= timeoutMs /\ now >= timeoutMs)

\* Every caller gets a verdict and every sweep ends, although no node need ever
\* answer: neither a promise nor a request is left behind.
CallEnds == <>(caller # "waiting" /\ phase = "over")
=============================================================================
