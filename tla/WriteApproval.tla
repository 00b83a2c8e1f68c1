---------------------------- MODULE WriteApproval ----------------------------
(***************************************************************************)
(* How a write intent gets its approval: the rounds of handleMcpWrite() in *)
(* src/src/index.ts, whose requestState the server signs and the client    *)
(* carries, and the two routes of src/src/http-server.ts, which are for    *)
(* two principals.  One of the two processes serves the journal at a time; *)
(* of the journal this module uses no more than WriteIntent promises.  A request stands for its       *)
(* fingerprint, which does not depend on the idempotency key.              *)
(***************************************************************************)
CONSTANTS
    Keys,         \* idempotency keys
    Requests,     \* operation, network and payload
    NoRequest,
    Principals,   \* who can reach the HTTP server
    Approver,     \* the one with writeApprovalApiKey
    Tx, NoTx

ASSUME ApprovalConstants ==
    /\ NoRequest \notin Requests
    /\ NoTx \notin Tx /\ \A tx \in Tx : tx.key \in Keys

VARIABLES
    intent, relayed,  \* of WriteIntent
    front,      \* the process that holds the journal: "mcp" or "http"
    bound,      \* [Keys -> request of the record, or NoRequest]
    sealed,     \* the requestStates whose signature and expiry still verify
    executing,  \* keys with a call of execute() under way
    answers,    \* what the user answered to the form of a requestState
    posted,     \* what the approver posted to the approval route
    told        \* keys of which the server said that the intent was declined

vars == <<intent, relayed, front, bound, sealed, executing, answers, posted, told>>
history == <<answers, posted, told>>

Journal == INSTANCE WriteIntent
journalVars == <<intent, relayed>>

\* What is asked about: a key and the request bound to it (WriteApprovalState).
Intents == [key : Keys, request : Requests]
Intent(k, request) == [key |-> k, request |-> request]

\* accept names the exact fingerprint and approves; amiss is an accepted form that
\* does not; decline stands for cancel too.
Actions == {"accept", "amiss", "decline"}
Answer(s, action) == [about |-> s, action |-> action]

-----------------------------------------------------------------------------
(* The journal as the front ends call it.                                  *)

\* Deviation: a key is not compared with the request it is bound to.
ReserveAny(k, request) ==
    \/ bound[k] # NoRequest /\ UNCHANGED <<journalVars, bound>>
    \/ bound[k] = NoRequest /\ Journal!Reserve(k) /\ bound' = [bound EXCEPT ![k] = request]

\* reserve(): a new record, or the one that is bound to this very request.
Reserve(k, request) ==
    \/ bound[k] = request /\ UNCHANGED <<journalVars, bound>>
    \/ bound[k] = NoRequest /\ Journal!Reserve(k) /\ bound' = [bound EXCEPT ![k] = request]

\* Deviation: every intent can be approved.
ApprovableAlways == Journal!Phases \ {"none"}

\* The states that approve() does not refuse.
Approvable == {"pending", "authorised", "bound", "submitted"}

\* approve() and the start of execute(): no await between them.
Approve(k) ==
    /\ intent[k].phase \in Approvable
    /\ IF intent[k].phase \in {"authorised", "bound", "submitted"}
       THEN UNCHANGED intent ELSE intent' = [intent EXCEPT ![k].phase = "authorised"]
    /\ executing' = executing \cup {k}
    /\ UNCHANGED relayed

\* decline(), called for a record that awaits approval only.
Decline(k) ==
    IF intent[k].phase = "pending"
    THEN intent' = [intent EXCEPT ![k].phase = "closed"] /\ UNCHANGED relayed
    ELSE UNCHANGED journalVars

-----------------------------------------------------------------------------
(* The MCP write tools.                                                    *)

\* A call without a requestState: the record, and a form to fill in.
Ask(k, request) ==
    /\ front = "mcp"
    /\ Reserve(k, request)
    /\ sealed' = sealed \cup {Intent(k, request)}
    /\ UNCHANGED <<front, executing, history>>

\* Deviation: a requestState is good for every intent with its fingerprint.
MatchesFingerprint(s, k, request) == s.request = request

\* assertWriteApprovalState().
Matches(s, k, request) == s = Intent(k, request)

\* A call that re-enters with a requestState and the answer to its form.  One whose
\* answer is missing is asked again and changes nothing.
Reenters(k, request, s, action) ==
    /\ front = "mcp" /\ bound[k] = request
    /\ s \in sealed /\ Matches(s, k, request)
    /\ Answer(s, action) \in answers
    /\ UNCHANGED <<front, bound, sealed>>

Accept(k, request, s) ==
    /\ Reenters(k, request, s, "accept")
    /\ Approve(k)
    /\ UNCHANGED history

Refuse(k, request, s, action) ==
    /\ action # "accept"
    /\ Reenters(k, request, s, action)
    /\ Decline(k)
    /\ told' = IF action = "decline" THEN told \cup {k} ELSE told
    /\ UNCHANGED <<executing, answers, posted>>

\* A call that reserves its key and is then refused: it has an answer without a
\* requestState, or a requestState that does not match.
Misfit(k, request) ==
    /\ front = "mcp"
    /\ Reserve(k, request)
    /\ UNCHANGED <<front, sealed, executing, history>>

\* Ten minutes after it was signed.
Expire(s) ==
    /\ s \in sealed
    /\ sealed' = sealed \ {s}
    /\ UNCHANGED <<journalVars, front, bound, executing, history>>

\* The user fills in the form, which the client may show more than once.
UserAnswers(s, action) ==
    /\ s \in sealed
    /\ answers' = answers \cup {Answer(s, action)}
    /\ UNCHANGED <<journalVars, front, bound, sealed, executing, posted, told>>

-----------------------------------------------------------------------------
(* The HTTP routes.                                                        *)

\* POST of a write by anybody with the ordinary key.
HttpReserve(k, request) ==
    /\ front = "http"
    /\ Reserve(k, request)
    /\ UNCHANGED <<front, sealed, executing, history>>

\* Deviation: the ordinary key opens the approval route.
AuthorizedAnybody(principal) == principal \in Principals

\* isAuthorized() of the approval route.
Authorized(principal) == principal = Approver

HttpApprove(principal, k, fingerprint) ==
    /\ front = "http" /\ Authorized(principal)
    /\ bound[k] = fingerprint
    /\ Approve(k)
    /\ posted' = IF principal = Approver THEN posted \cup {Intent(k, fingerprint)} ELSE posted
    /\ UNCHANGED <<front, bound, sealed, answers, told>>

-----------------------------------------------------------------------------
(* The execution of an intent, and the process.                            *)

Works(k) ==
    /\ k \in executing
    /\ \/ \E tx \in Tx : Journal!Bind(k, tx)
       \/ Journal!Relay(k)
       \/ \E verdict \in Journal!Verdicts : Journal!Conclude(k, verdict)
       \/ Journal!Move(k, "authorised", "closed")
    /\ UNCHANGED <<front, bound, sealed, executing, history>>

\* The call returns or throws.
Returns(k) ==
    /\ k \in executing
    /\ executing' = executing \ {k}
    /\ UNCHANGED <<journalVars, front, bound, sealed, history>>

\* The key that signs is configured, so a requestState survives its process.  The
\* process that starts need not be the one that stopped.
Restart ==
    /\ front' \in {"mcp", "http"}
    /\ executing' = {}
    /\ UNCHANGED <<journalVars, bound, sealed, history>>

Init ==
    /\ Journal!Init
    /\ front \in {"mcp", "http"}
    /\ bound = [k \in Keys |-> NoRequest]
    /\ sealed = {} /\ executing = {}
    /\ answers = {} /\ posted = {} /\ told = {}

Next ==
    \/ \E k \in Keys, request \in Requests :
          \/ Ask(k, request) \/ Misfit(k, request) \/ HttpReserve(k, request)
          \/ \E s \in sealed : Accept(k, request, s)
          \/ \E s \in sealed, action \in Actions : Refuse(k, request, s, action)
          \/ \E principal \in Principals : HttpApprove(principal, k, request)
    \/ \E s \in sealed : Expire(s) \/ \E action \in Actions : UserAnswers(s, action)
    \/ \E k \in Keys : Works(k) \/ Returns(k)
    \/ Restart

Spec == Init /\ [][Next]_vars

-----------------------------------------------------------------------------
(* Properties.                                                             *)

Consented == {s \in Intents : Answer(s, "accept") \in answers \/ s \in posted}
Refused == {s \in Intents : \E action \in {"amiss", "decline"} : Answer(s, action) \in answers}

\* Every variable has its type; a form names a key and the request its record holds.
TypeOK ==
    /\ Journal!TypeOK
    /\ front \in {"mcp", "http"}
    /\ bound \in [Keys -> Requests \cup {NoRequest}]
    /\ \A k \in Keys : bound[k] = NoRequest <=> intent[k].phase = "none"
    /\ executing \subseteq Keys /\ told \subseteq Keys
    /\ \A s \in sealed \cup posted \cup {a.about : a \in answers} :
          s \in Intents /\ bound[s.key] = s.request
    /\ answers \subseteq [about : Intents, action : Actions]

\* A transaction goes out only for a key of which the user, or the approver, accepted
\* the very request: consent to one key is never used for another with the same payload.
RelayedWithConsent ==
    \A tx \in relayed : Intent(tx.key, bound[tx.key]) \in Consented

\* An intent that awaits its approval is closed only by a refusal of that intent.
ClosedByRefusal ==
    [][\A k \in Keys : intent[k].phase = "pending" /\ intent'[k].phase = "closed"
          => Intent(k, bound[k]) \in Refused]_vars

\* An answer to an older form does not bring a closed intent back.
ClosedIsFinal ==
    [][\A k \in Keys : intent[k].phase = "closed" => intent'[k].phase = "closed"]_vars

\* After "declined or cancelled" nothing of the intent goes out.
DeclinedIsNotRelayed ==
    [][\A tx \in relayed' \ relayed : tx.key \notin told]_vars
=============================================================================
