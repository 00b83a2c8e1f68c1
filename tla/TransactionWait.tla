--------------------------- MODULE TransactionWait ---------------------------
(***************************************************************************)
(* waitForTransaction() of src/src/services/neo-service.ts, called by the  *)
(* wait route of src/src/http-server.ts and by the wait tool of            *)
(* src/src/handlers/tool-handler.ts: a capped number of polls, each with a *)
(* deadline, an abort signal for the HTTP ones, and in front of every RPC  *)
(* call the network magic, which is asked for once for all callers and     *)
(* outside the deadline and the signal of the caller.  stop() of the HTTP  *)
(* server aborts the waits it knows and closes what is left by force.      *)
(***************************************************************************)
EXTENDS Integers, FiniteSets

CONSTANTS
    Requests,    \* waits that arrive by HTTP
    Tools,       \* waits of the tool, which has no signal
    WithLog,     \* the waits with includeApplicationLog
    MaxWaits,    \* maxConcurrentTransactionWaits
    RpcTimeout,  \* rpcTimeoutMs
    Timeouts,    \* timeoutMs of a wait
    Interval,    \* pollIntervalMs
    Grace,       \* shutdownGraceMs
    Late,        \* bound: a timer fires this late at most
    MaxStart     \* bound: no wait starts later

Waits == Requests \cup Tools

ASSUME WaitConstants ==
    /\ Requests \cap Tools = {} /\ IsFiniteSet(Waits)
    /\ Timeouts \subseteq Nat \ {0}
    /\ {MaxWaits, RpcTimeout, Interval} \subseteq Nat \ {0}
    /\ {Grace, Late, MaxStart} \subseteq Nat

VARIABLES
    now,
    magic,        \* TRUE once networkMagic is known
    flight,       \* when the deadline of networkMagicRequest is due, or NoTimer
    wait,         \* [Waits -> record]
    activeTransactionWaits,
    open,         \* HTTP waits whose connection still stands
    server,       \* "up" | "closing" | "closed"
    forceCloseTimer

vars == <<now, magic, flight, wait, activeTransactionWaits, open, server, forceCloseTimer>>
serverVars == <<server, forceCloseTimer>>

NoTimer == -1
Steps    == {"height", "transaction", "log"}
Verdicts == {"confirmed", "unconfirmed", "aborted", "failed", "refused"}
NotStarted == [pc |-> "idle", step |-> "height", log |-> FALSE, aborted |-> FALSE,
               deadline |-> 0, allotted |-> 0, timer |-> 0, verdict |-> "none"]

Running(r) == r.pc \in {"magic", "rpc", "polling"}
Active == {w \in Waits : Running(wait[w])}
Controllers == {w \in Active \cap Requests : ~wait[w].aborted}  \* activeWaitControllers

Lesser(a, b) == IF a < b THEN a ELSE b

-----------------------------------------------------------------------------
(* The body of pollForTransaction(), as functions from the wait at one     *)
(* await to the wait at its next one.                                      *)

Over(r, verdict) == [NotStarted EXCEPT !.pc = "over", !.aborted = r.aborted, !.verdict = verdict]

\* The end of the loop body; waitForPollInterval() rejects at once after an abort.
Sleep(r) ==
    IF r.deadline - now <= 0 THEN Over(r, "unconfirmed")
    ELSE IF r.aborted THEN Over(r, "aborted")
    ELSE [r EXCEPT !.pc = "polling", !.timer = now + Lesser(Interval, r.deadline - now)]

\* The request goes out under its deadline.
Issue(r) == [r EXCEPT !.pc = "rpc", !.timer = now + r.allotted, !.allotted = 0]

\* Deviation: a step may take a whole RPC timeout whatever is left.
AllotWhole(r) == [r EXCEPT !.allotted = RpcTimeout]

\* The time of a step is fixed before the magic is awaited.
Allot(r) == [r EXCEPT !.allotted = Lesser(RpcTimeout, r.deadline - now)]

\* Whatever keeps the log away, the transaction is confirmed.
AskLog(r) ==
    LET q == Allot([r EXCEPT !.step = "log"])
    IN  IF q.allotted <= 0 \/ q.aborted THEN Over(q, "confirmed") ELSE Issue(q)

\* With the details or without them.
AfterDetails(r) == IF r.log THEN AskLog(r) ELSE Over(r, "confirmed")

\* Deviation: any spent deadline ends the wait.
DeadlinedForGood(r) ==
    CASE r.step = "height"      -> Over(r, "unconfirmed")
      [] r.step = "transaction" -> AfterDetails(r)
      [] r.step = "log"         -> Over(r, "confirmed")

\* RpcDeadlineError at each step.
Deadlined(r) ==
    CASE r.step = "height"      -> IF now >= r.deadline THEN Over(r, "unconfirmed") ELSE Sleep(r)
      [] r.step = "transaction" -> AfterDetails(r)
      [] r.step = "log"         -> Over(r, "confirmed")

\* withRpcDeadline() of utils: no time is left, or the signal is aborted, or the
\* request goes out.
Ask(r) ==
    IF r.allotted <= 0 THEN Deadlined(r)
    ELSE IF r.aborted THEN Over(r, "aborted")
    ELSE Issue(r)

AskTransaction(r) == Ask(Allot([r EXCEPT !.step = "transaction"]))

\* The head of the loop.
AskHeight(r) ==
    LET q == Allot([r EXCEPT !.step = "height"])
    IN  IF now > r.deadline THEN Over(r, "unconfirmed")
        ELSE IF magic THEN Ask(q)
        ELSE [q EXCEPT !.pc = "magic"]

\* What a node answers: the thing, an error the loop retries, another error.
Answers == {"ok", "retryable", "failure"}
Answered(r, answer) ==
    CASE r.step = "log"        -> Over(r, "confirmed")
      [] r.step = "transaction" /\ answer = "ok" -> AfterDetails(r)
      [] r.step = "height" /\ answer = "ok"      -> AskTransaction(r)
      [] r.step # "log" /\ answer = "failure"   -> Over(r, "failed")
      [] OTHER                 -> Sleep(r)

\* Deviation: an abort does not wake a poll.
AbortedAsleep(r) ==
    CASE r.pc \in {"magic", "polling"} -> [r EXCEPT !.aborted = TRUE]
      [] r.pc = "rpc" /\ r.step = "log" -> [Over(r, "confirmed") EXCEPT !.aborted = TRUE]
      [] OTHER -> [Over(r, "aborted") EXCEPT !.aborted = TRUE]

\* The abort event at each await; the log step takes it for a missing log.
Aborted(r) ==
    CASE r.pc = "magic" -> [r EXCEPT !.aborted = TRUE]
      [] r.pc = "rpc" /\ r.step = "log" -> [Over(r, "confirmed") EXCEPT !.aborted = TRUE]
      [] OTHER -> [Over(r, "aborted") EXCEPT !.aborted = TRUE]

-----------------------------------------------------------------------------
(* Steps of the waits.                                                     *)

Ended(new) == {w \in Active : ~Running(new[w])}

\* Deviation: an aborted wait keeps its slot.
MoveAndLeak(new, cut) ==
    /\ wait' = new
    /\ activeTransactionWaits' = activeTransactionWaits
          - Cardinality({w \in Ended(new) : ~new[w].aborted})
    /\ open' = open \ (Ended(new) \cup cut)

\* Deviation: an ended wait keeps its connection.
MoveUnanswered(new, cut) ==
    /\ wait' = new
    /\ activeTransactionWaits' = activeTransactionWaits - Cardinality(Ended(new))
    /\ open' = open \ cut

\* The waits go on; one that ends gives its slot back and answers its request.
Move(new, cut) ==
    /\ wait' = new
    /\ activeTransactionWaits' = activeTransactionWaits - Cardinality(Ended(new))
    /\ open' = open \ (Ended(new) \cup cut)

\* getNetworkMagic() starts a request unless one is in flight.
FlightFor(r) == IF r.pc = "magic" /\ flight = NoTimer THEN now + RpcTimeout ELSE flight

\* Once closing, only a connection that is still open brings a request.
Reachable == server = "up" \/ (server = "closing" /\ open # {})

Start(w, timeoutMs) ==
    LET fresh == [NotStarted EXCEPT !.deadline = now + timeoutMs, !.log = (w \in WithLog)]
    IN  /\ wait[w].pc = "idle"
        /\ now <= MaxStart
        /\ w \in Requests => Reachable
        /\ IF activeTransactionWaits >= MaxWaits
           THEN /\ wait' = [wait EXCEPT ![w] = Over(fresh, "refused")]
                /\ UNCHANGED <<activeTransactionWaits, open, flight>>
           ELSE /\ wait' = [wait EXCEPT ![w] = AskHeight(fresh)]
                /\ activeTransactionWaits' = activeTransactionWaits + 1
                /\ open' = (open \cup ({w} \cap Requests)) \ {v \in {w} : ~Running(wait'[w])}
                /\ flight' = FlightFor(wait'[w])
        /\ UNCHANGED <<now, magic, serverVars>>

RpcAnswers(w, answer) ==
    /\ wait[w].pc = "rpc"
    /\ Move([wait EXCEPT ![w] = Answered(@, answer)], {})
    /\ UNCHANGED <<now, magic, flight, serverVars>>

\* Deviation: the details are awaited without a deadline.
RpcTimesOutOnHeight(w) ==
    /\ wait[w].pc = "rpc" /\ now >= wait[w].timer /\ wait[w].step = "height"
    /\ Move([wait EXCEPT ![w] = Deadlined(@)], {})
    /\ UNCHANGED <<now, magic, flight, serverVars>>

RpcTimesOut(w) ==
    /\ wait[w].pc = "rpc" /\ now >= wait[w].timer
    /\ Move([wait EXCEPT ![w] = Deadlined(@)], {})
    /\ UNCHANGED <<now, magic, flight, serverVars>>

PollEnds(w) ==
    /\ wait[w].pc = "polling" /\ now >= wait[w].timer
    /\ Move([wait EXCEPT ![w] = AskHeight(@)], {})
    /\ flight' = FlightFor(wait'[w])
    /\ UNCHANGED <<now, magic, serverVars>>

-----------------------------------------------------------------------------
(* getNetworkMagic(): one request, all who wait for it resume together.    *)

Landed(r, outcome) ==
    IF r.pc # "magic" THEN r
    ELSE CASE outcome = "ok"        -> Ask(r)
           [] outcome = "failure"   -> Over(r, "failed")
           [] outcome = "retryable" -> Sleep(r)
           [] outcome = "deadline"  -> Deadlined(r)

FlightEnds(outcome) ==
    /\ flight # NoTimer
    /\ outcome = "deadline" => now >= flight
    /\ magic' = (outcome = "ok")
    /\ flight' = NoTimer
    /\ Move([w \in Waits |-> Landed(wait[w], outcome)], {})
    /\ UNCHANGED <<now, serverVars>>

-----------------------------------------------------------------------------
(* The HTTP server.                                                        *)

Abort(set, cut) == Move([w \in Waits |-> IF w \in set THEN Aborted(wait[w]) ELSE wait[w]], cut)

\* The client goes: "aborted" of the request or "close" of the response.
Disconnect(w) ==
    /\ w \in open
    /\ Abort({w} \cap Controllers, {w})
    /\ UNCHANGED <<now, magic, flight, serverVars>>

\* stop(), the first time and again.
Stop ==
    /\ server # "closed"
    /\ Abort(Controllers, {})
    /\ IF server = "up"
       THEN server' = "closing" /\ forceCloseTimer' = now + Grace
       ELSE UNCHANGED serverVars
    /\ UNCHANGED <<now, magic, flight>>

\* server.close() calls back once no connection is left.
Closed ==
    /\ server = "closing" /\ open = {}
    /\ server' = "closed" /\ forceCloseTimer' = NoTimer
    /\ UNCHANGED <<now, magic, flight, wait, activeTransactionWaits, open>>

\* closeAllConnections(): every open response is closed, which aborts its wait.
ForceClose ==
    /\ server = "closing" /\ forceCloseTimer # NoTimer /\ now >= forceCloseTimer
    /\ Abort(open \cap Controllers, open)
    /\ forceCloseTimer' = NoTimer
    /\ UNCHANGED <<now, magic, flight, server>>

-----------------------------------------------------------------------------

\* Something has a timer running.
Pending == Active # {} \/ flight # NoTimer \/ forceCloseTimer # NoTimer

Tick ==
    /\ now < MaxStart \/ Pending
    /\ \A w \in Active : wait[w].pc # "magic" => now < wait[w].timer + Late
    /\ flight # NoTimer => now < flight + Late
    /\ forceCloseTimer # NoTimer => now < forceCloseTimer + Late
    /\ now' = now + 1
    /\ UNCHANGED <<magic, flight, wait, activeTransactionWaits, open, serverVars>>

Init ==
    /\ now = 0 /\ magic = FALSE /\ flight = NoTimer
    /\ wait = [w \in Waits |-> NotStarted]
    /\ activeTransactionWaits = 0 /\ open = {}
    /\ server = "up" /\ forceCloseTimer = NoTimer

Timer(w) == RpcTimesOut(w) \/ PollEnds(w)

Next ==
    \/ \E w \in Waits :
          \/ \E timeoutMs \in Timeouts : Start(w, timeoutMs)
          \/ \E answer \in Answers : RpcAnswers(w, answer)
          \/ Timer(w)
          \/ Disconnect(w)
    \/ \E outcome \in Answers \cup {"deadline"} : FlightEnds(outcome)
    \/ Stop \/ Closed \/ ForceClose
    \/ Tick

\* Time passes and due timers fire; nodes need not answer, nobody need stop.
Fairness ==
    /\ WF_vars(Tick) /\ \A w \in Waits : WF_vars(Timer(w))
    /\ WF_vars(FlightEnds("deadline")) /\ WF_vars(Closed) /\ WF_vars(ForceClose)

Spec == Init /\ [][Next]_vars
FairSpec == Spec /\ Fairness

-----------------------------------------------------------------------------
(* Properties.                                                             *)

\* Every variable has its type; only a running HTTP wait has an open connection.
TypeOK ==
    /\ now \in Nat /\ magic \in BOOLEAN /\ flight \in Nat \cup {NoTimer}
    /\ wait \in [Waits -> [pc : {"idle", "magic", "rpc", "polling", "over"}, step : Steps,
                           log : BOOLEAN, aborted : BOOLEAN, deadline : Nat,
                           allotted : Int, timer : Nat, verdict : Verdicts \cup {"none"}]]
    /\ activeTransactionWaits \in Int
    /\ open \subseteq Active \cap Requests
    /\ server \in {"up", "closing", "closed"} /\ forceCloseTimer \in Nat \cup {NoTimer}

\* However a wait ends, by an answer, a deadline, an error of the shared getversion,
\* an abort or a stop, its slot comes back once: the cap neither leaks nor overflows.
SlotsAreExact ==
    activeTransactionWaits = Cardinality(Active) /\ activeTransactionWaits <= MaxWaits

\* The network magic can hold a wait past its timeout, by one RPC timeout and the
\* lateness of two timers at most, however often its request fails and is made again.
OverrunIsOneTimeout ==
    \A w \in Active : now <= wait[w].deadline + RpcTimeout + 2 * Late

\* An aborted wait is over, unless it awaits a getversion that is in flight.
AbortFreesSlot ==
    \A w \in Active : wait[w].aborted => wait[w].pc = "magic" /\ flight # NoTimer

\* "Not confirmed" is never said before the timeout of the wait.
UnconfirmedIsLate ==
    [][\A w \in Active : wait'[w].verdict = "unconfirmed" => now >= wait[w].deadline]_vars

\* Every wait ends although no node ever answers, and so does every stop.
EverythingEnds ==
    /\ \A w \in Waits : Running(wait[w]) ~> wait[w].pc = "over"
    /\ server = "closing" ~> server = "closed"

\* A wait is over by its timeout, give or take a timer.
EndsByItsTimeout ==
    \A w \in Active : now <= wait[w].deadline + Late
=============================================================================
