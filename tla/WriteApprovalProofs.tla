------------------------- MODULE WriteApprovalProofs -------------------------
(***************************************************************************)
(* The safety properties of WriteApproval for any keys, requests and       *)
(* principals, from one inductive invariant.                               *)
(***************************************************************************)
EXTENDS WriteApproval, TLAPS

Open == {"bound"} \cup Journal!Verdicts

\* What awaits no approval and was not closed has been consented to; what is relayed
\* is of such an intent, whose transaction is its own.
ConsentInv ==
    /\ \A k \in Keys : intent[k].phase \in {"authorised"} \cup Open
          => Intent(k, bound[k]) \in Consented
    /\ \A tx \in relayed : intent[tx.key].phase \in Open
    /\ \A k \in Keys : intent[k].phase \in Open => intent[k].tx \in Tx /\ intent[k].tx.key = k

IInv == TypeOK /\ ConsentInv

-----------------------------------------------------------------------------

\* Consent is never withdrawn.
LEMMA ConsentGrows ==
    ASSUME answers \subseteq answers', posted \subseteq posted'
    PROVE  Consented \subseteq Consented'
BY DEF Consented

LEMMA InitInv == Init => IInv
<1> SUFFICES ASSUME Init PROVE IInv
  OBVIOUS
<1>1. Journal!TypeOK /\ \A k \in Keys : intent[k].phase = "none" /\ bound[k] = NoRequest
  BY DEF Init, Journal!Init, Journal!TypeOK, Journal!Phases
<1>2. TypeOK
  BY <1>1 DEF Init, TypeOK
<1>3. ConsentInv
  BY <1>1 DEF Init, ConsentInv, Open, Journal!Init, Journal!Verdicts
<1> QED BY <1>2, <1>3 DEF IInv

\* A record is new or unchanged, and belongs to this request.
LEMMA ReserveStep ==
    ASSUME IInv, NEW k \in Keys, NEW request \in Requests, Reserve(k, request)
    PROVE  /\ relayed' = relayed
           /\ intent' \in [Keys -> [phase : Journal!Phases, tx : Tx \cup {NoTx}]]
           /\ bound' \in [Keys -> Requests \cup {NoRequest}] /\ bound'[k] = request
           /\ \A j \in Keys : bound'[j] = NoRequest <=> intent'[j].phase = "none"
           /\ \A j \in Keys : bound[j] # NoRequest => bound'[j] = bound[j] /\ intent'[j] = intent[j]
           /\ \A j \in Keys : bound[j] = NoRequest => intent'[j].phase \in {"none", "pending"}
<1>1. CASE bound[k] = request /\ UNCHANGED <<journalVars, bound>>
  BY <1>1, ApprovalConstants DEF IInv, TypeOK, Journal!TypeOK, journalVars
<1>2. CASE bound[k] = NoRequest /\ Journal!Reserve(k) /\ bound' = [bound EXCEPT ![k] = request]
  BY <1>2, ApprovalConstants DEF IInv, TypeOK, Journal!TypeOK, Journal!Reserve, Journal!Move, Journal!Phases
<1> QED BY <1>1, <1>2 DEF Reserve

\* What approve() and execute() change: one intent, if it can be approved at all.
LEMMA ApproveStep ==
    ASSUME IInv, NEW k \in Keys, Approve(k)
    PROVE  /\ Journal!TypeOK' /\ executing' \subseteq Keys /\ relayed' = relayed
           /\ \A j \in Keys \ {k} : intent'[j] = intent[j]
           /\ intent'[k].phase \in {"authorised"} \cup Open /\ intent[k].phase # "none"
           /\ intent'[k].phase \in Open => intent'[k] = intent[k]
           /\ intent[k].phase \in Open => intent'[k] = intent[k]
BY DEF IInv, TypeOK, Journal!TypeOK, Journal!Phases, Approve, Approvable, Open, Journal!Verdicts

\* decline() closes an intent that awaits its approval, or does nothing.
LEMMA DeclineStep ==
    ASSUME IInv, NEW k \in Keys, Decline(k)
    PROVE  /\ Journal!TypeOK' /\ relayed' = relayed
           /\ \A j \in Keys \ {k} : intent'[j] = intent[j]
           /\ \/ intent'[k] = intent[k]
              \/ intent[k].phase = "pending" /\ intent'[k].phase = "closed"
BY DEF IInv, TypeOK, Journal!TypeOK, Journal!Phases, Decline, journalVars

\* The execution moves one intent that was authorised before.
LEMMA WorksStep ==
    ASSUME IInv, NEW k \in Keys, Works(k)
    PROVE  /\ Journal!TypeOK'
           /\ \A j \in Keys \ {k} : intent'[j] = intent[j]
           /\ intent[k].phase \in {"authorised"} \cup Open
           /\ intent'[k].phase \in {"closed"} \cup Open
           /\ intent[k].phase \in Open => intent'[k].phase \in Open
           /\ intent'[k].phase \in Open => intent'[k].tx \in Tx /\ intent'[k].tx.key = k
           /\ \A tx \in relayed' : tx \in relayed \/ (tx.key = k /\ intent'[k].phase \in Open)
<1> USE DEF IInv, TypeOK, ConsentInv, Journal!TypeOK, Journal!Phases, Journal!Verdicts, Open
<1>1. ASSUME NEW tx \in Tx, Journal!Bind(k, tx)
      PROVE  intent' = [intent EXCEPT ![k] = [phase |-> "bound", tx |-> tx]]
             /\ tx.key = k /\ intent[k].phase = "authorised" /\ relayed' = relayed
  BY <1>1 DEF Journal!Bind
<1>2. CASE \E tx \in Tx : Journal!Bind(k, tx)
  BY <1>1, <1>2
<1>3. CASE Journal!Relay(k)
  BY <1>3 DEF Journal!Relay
<1>4. ASSUME NEW verdict \in Journal!Verdicts, Journal!Conclude(k, verdict)
      PROVE  intent' = [intent EXCEPT ![k].phase = verdict]
             /\ intent[k].phase = "bound" /\ relayed' = relayed
  BY <1>4 DEF Journal!Conclude, Journal!Move
<1>5. CASE \E verdict \in Journal!Verdicts : Journal!Conclude(k, verdict)
  BY <1>4, <1>5
<1>6. CASE Journal!Move(k, "authorised", "closed")
  BY <1>6 DEF Journal!Move
<1> QED BY <1>2, <1>3, <1>5, <1>6 DEF Works

-----------------------------------------------------------------------------
(* The invariant, action by action.                                        *)

\* Every call that does no more than reserve its key, and may seal a form for it.
LEMMA ReservingStep ==
    ASSUME IInv, NEW k \in Keys, NEW request \in Requests, Reserve(k, request),
           sealed' \subseteq sealed \cup {Intent(k, request)},
           UNCHANGED <<front, executing, history>>
    PROVE  IInv'
<1> DEFINE Forms == sealed \cup posted \cup {a.about : a \in answers}
<1>1. /\ relayed' = relayed
      /\ intent' \in [Keys -> [phase : Journal!Phases, tx : Tx \cup {NoTx}]]
      /\ bound' \in [Keys -> Requests \cup {NoRequest}] /\ bound'[k] = request
      /\ \A j \in Keys : bound'[j] = NoRequest <=> intent'[j].phase = "none"
      /\ \A j \in Keys : bound[j] # NoRequest => bound'[j] = bound[j] /\ intent'[j] = intent[j]
      /\ \A j \in Keys : bound[j] = NoRequest => intent'[j].phase \in {"none", "pending"}
  BY ReserveStep
<1>2. Forms' \subseteq Forms \cup {Intent(k, request)}
  BY DEF history
<1>3. \A s \in Forms : s \in Intents /\ bound[s.key] = s.request
  BY DEF IInv, TypeOK
<1>4. \A s \in Forms' : s \in Intents /\ bound'[s.key] = s.request
  <2> SUFFICES ASSUME NEW s \in Forms' PROVE s \in Intents /\ bound'[s.key] = s.request
    OBVIOUS
  <2>1. CASE s = Intent(k, request)
    BY <2>1, <1>1 DEF Intent, Intents
  <2>2. CASE s \in Forms
    BY <2>2, <1>3, <1>1, ApprovalConstants DEF Intents
  <2> QED BY <2>1, <2>2, <1>2
<1>5. TypeOK'
  BY <1>1, <1>4 DEF IInv, TypeOK, Journal!TypeOK, history
<1>6. Consented' = Consented
  BY DEF Consented, history
<1>7. ConsentInv'
  <2>1. \A j \in Keys : intent'[j].phase \in {"authorised"} \cup Open
          => bound'[j] = bound[j] /\ intent'[j] = intent[j]
    BY <1>1 DEF Open, Journal!Verdicts
  <2>2. \A tx \in relayed : intent[tx.key].phase \in Open /\ tx.key \in Keys
    BY ApprovalConstants DEF IInv, TypeOK, Journal!TypeOK, ConsentInv
  <2>3. \A tx \in relayed : bound[tx.key] # NoRequest
    BY <2>2 DEF IInv, TypeOK, Open, Journal!Verdicts
  <2>4. \A tx \in relayed : intent'[tx.key] = intent[tx.key]
    BY <2>2, <2>3, <1>1
  <2> QED BY <1>1, <1>6, <2>1, <2>2, <2>4 DEF IInv, ConsentInv
<1> QED BY <1>5, <1>7 DEF IInv

\* A call that approves, on the strength of a consent that is on record.
LEMMA ApprovingStep ==
    ASSUME IInv, NEW k \in Keys, Approve(k), UNCHANGED <<front, bound, sealed, told>>,
           answers' = answers, posted \subseteq posted',
           Intent(k, bound[k]) \in Consented',
           posted' \subseteq posted \cup {Intent(k, bound[k])}, bound[k] # NoRequest
    PROVE  IInv'
<1>1. /\ Journal!TypeOK' /\ executing' \subseteq Keys /\ relayed' = relayed
      /\ \A j \in Keys \ {k} : intent'[j] = intent[j]
      /\ intent'[k].phase \in {"authorised"} \cup Open /\ intent[k].phase # "none"
      /\ intent'[k].phase \in Open => intent'[k] = intent[k]
      /\ intent[k].phase \in Open => intent'[k] = intent[k]
  BY ApproveStep
<1>2. Intent(k, bound[k]) \in Intents
  BY DEF Consented
<1>3. TypeOK'
  <2>1. \A s \in sealed' \cup posted' \cup {a.about : a \in answers'} :
          s \in Intents /\ bound'[s.key] = s.request
    BY <1>2 DEF IInv, TypeOK, Intent
  <2>2. \A j \in Keys : bound'[j] = NoRequest <=> intent'[j].phase = "none"
    BY <1>1 DEF IInv, TypeOK, Open, Journal!Verdicts
  <2> QED BY <1>1, <2>1, <2>2 DEF IInv, TypeOK
<1>4. ConsentInv'
  <2>1. Consented \subseteq Consented'
    BY ConsentGrows
  <2>2. \A tx \in relayed : tx.key \in Keys
    BY ApprovalConstants DEF IInv, TypeOK, Journal!TypeOK
  <2> QED BY <1>1, <2>1, <2>2 DEF IInv, ConsentInv
<1> QED BY <1>3, <1>4 DEF IInv

LEMMA RefuseStep ==
    ASSUME IInv, NEW k \in Keys, NEW request \in Requests, NEW s \in sealed,
           NEW action \in Actions, Refuse(k, request, s, action)
    PROVE  IInv'
<1>1. /\ Journal!TypeOK' /\ relayed' = relayed
      /\ \A j \in Keys \ {k} : intent'[j] = intent[j]
      /\ \/ intent'[k] = intent[k]
         \/ intent[k].phase = "pending" /\ intent'[k].phase = "closed"
  BY DeclineStep DEF Refuse
<1>2. UNCHANGED <<front, bound, sealed, executing, answers, posted>> /\ told' \subseteq told \cup {k}
  BY DEF Refuse, Reenters
<1>3. TypeOK'
  <2>1. \A j \in Keys : bound'[j] = NoRequest <=> intent'[j].phase = "none"
    BY <1>1, <1>2 DEF IInv, TypeOK
  <2> QED BY <1>1, <1>2, <2>1 DEF IInv, TypeOK
<1>4. ConsentInv'
  <2>1. Consented' = Consented
    BY <1>2 DEF Consented
  <2>2. \A tx \in relayed : tx.key \in Keys
    BY ApprovalConstants DEF IInv, TypeOK, Journal!TypeOK
  <2> QED BY <1>1, <1>2, <2>1, <2>2 DEF IInv, ConsentInv, Open, Journal!Verdicts
<1> QED BY <1>3, <1>4 DEF IInv

LEMMA WorkingStep ==
    ASSUME IInv, NEW k \in Keys, Works(k)
    PROVE  IInv'
<1>1. /\ Journal!TypeOK'
      /\ \A j \in Keys \ {k} : intent'[j] = intent[j]
      /\ intent[k].phase \in {"authorised"} \cup Open
      /\ intent'[k].phase \in {"closed"} \cup Open
      /\ intent[k].phase \in Open => intent'[k].phase \in Open
      /\ intent'[k].phase \in Open => intent'[k].tx \in Tx /\ intent'[k].tx.key = k
      /\ \A tx \in relayed' : tx \in relayed \/ (tx.key = k /\ intent'[k].phase \in Open)
  BY WorksStep
<1>2. UNCHANGED <<front, bound, sealed, executing, history>>
  BY DEF Works
<1>3. TypeOK'
  <2>1. \A j \in Keys : bound'[j] = NoRequest <=> intent'[j].phase = "none"
    BY <1>1, <1>2 DEF IInv, TypeOK, Open, Journal!Verdicts
  <2> QED BY <1>1, <1>2, <2>1 DEF IInv, TypeOK, history
<1>4. ConsentInv'
  <2>1. Consented' = Consented
    BY <1>2 DEF Consented, history
  <2>2. \A tx \in relayed : tx.key \in Keys
    BY ApprovalConstants DEF IInv, TypeOK, Journal!TypeOK
  <2> QED BY <1>1, <1>2, <2>1, <2>2 DEF IInv, ConsentInv
<1> QED BY <1>3, <1>4 DEF IInv

\* What leaves the journal and its bindings alone, and adds an answer at most.
LEMMA QuietStep ==
    ASSUME IInv, UNCHANGED <<journalVars, bound, posted, told>>, front' \in {"mcp", "http"},
           executing' \subseteq executing, sealed' \subseteq sealed, answers \subseteq answers',
           answers' \subseteq answers \cup {Answer(s, action) : s \in sealed, action \in Actions}
    PROVE  IInv'
<1>1. \A s \in sealed : s \in Intents /\ bound[s.key] = s.request
  BY DEF IInv, TypeOK
<1>2. answers' \subseteq [about : Intents, action : Actions]
  BY <1>1 DEF IInv, TypeOK, Answer
<1>3. \A a \in answers' : a.about \in Intents /\ bound[a.about.key] = a.about.request
  BY <1>1 DEF IInv, TypeOK, Answer
<1>4. TypeOK'
  BY <1>1, <1>2, <1>3 DEF IInv, TypeOK, Journal!TypeOK, journalVars
<1>5. ConsentInv'
  BY ConsentGrows DEF IInv, ConsentInv, journalVars
<1> QED BY <1>4, <1>5 DEF IInv

LEMMA NextStep == IInv /\ [Next]_vars => IInv'
<1> SUFFICES ASSUME IInv, [Next]_vars PROVE IInv'
  OBVIOUS
<1>1. ASSUME NEW k \in Keys, NEW request \in Requests,
             Ask(k, request) \/ Misfit(k, request) \/ HttpReserve(k, request)
      PROVE  IInv'
  BY <1>1, ReservingStep DEF Ask, Misfit, HttpReserve
<1>2. ASSUME NEW k \in Keys, NEW request \in Requests, NEW s \in sealed, Accept(k, request, s)
      PROVE  IInv'
  <2>1. s = Intent(k, bound[k]) /\ bound[k] # NoRequest /\ Answer(s, "accept") \in answers
    BY <1>2, ApprovalConstants DEF Accept, Reenters, Matches
  <2>2. s \in Intents
    BY DEF IInv, TypeOK
  <2>3. Intent(k, bound[k]) \in Consented'
    BY <2>1, <2>2, <1>2 DEF Accept, Consented, history
  <2> QED BY <1>2, <2>1, <2>3, ApprovingStep DEF Accept, Reenters, history
<1>3. ASSUME NEW k \in Keys, NEW request \in Requests, NEW s \in sealed, NEW action \in Actions,
             Refuse(k, request, s, action)
      PROVE  IInv'
  BY <1>3, RefuseStep
<1>4. ASSUME NEW k \in Keys, NEW request \in Requests, NEW principal \in Principals,
             HttpApprove(principal, k, request)
      PROVE  IInv'
  <2>1. bound[k] = request /\ bound[k] # NoRequest /\ posted' = posted \cup {Intent(k, bound[k])}
    BY <1>4, ApprovalConstants DEF HttpApprove, Authorized
  <2>2. Intent(k, bound[k]) \in Consented'
    BY <2>1 DEF Consented, Intents, Intent
  <2> QED BY <1>4, <2>1, <2>2, ApprovingStep DEF HttpApprove
<1>5. ASSUME NEW s \in sealed, Expire(s)
      PROVE  IInv'
  BY <1>5, QuietStep DEF Expire, history, IInv, TypeOK
<1>6. ASSUME NEW s \in sealed, NEW action \in Actions, UserAnswers(s, action)
      PROVE  IInv'
  BY <1>6, QuietStep DEF UserAnswers, IInv, TypeOK
<1>7. ASSUME NEW k \in Keys, Works(k)
      PROVE  IInv'
  BY <1>7, WorkingStep
<1>8. ASSUME NEW k \in Keys, Returns(k)
      PROVE  IInv'
  BY <1>8, QuietStep DEF Returns, history, IInv, TypeOK
<1>9. CASE Restart
  BY <1>9, QuietStep DEF Restart, history, IInv, TypeOK
<1>10. CASE UNCHANGED vars
  BY <1>10, QuietStep DEF vars, journalVars, IInv, TypeOK
<1> QED BY <1>1, <1>2, <1>3, <1>4, <1>5, <1>6, <1>7, <1>8, <1>9, <1>10 DEF Next

\* The inductive invariant holds in every state.
THEOREM Invariance == Spec => []IInv
BY InitInv, NextStep, PTL DEF Spec

\* The typing of the rounds: a requestState or an answer always names a key and the
\* request that the record of this key holds.
THEOREM TypeCorrect == Spec => []TypeOK
<1>1. IInv => TypeOK
  BY DEF IInv
<1> QED BY <1>1, Invariance, PTL

\* Nothing is relayed for a key of whose request nobody with that right has approved.
THEOREM Consent == Spec => []RelayedWithConsent
<1>1. IInv => RelayedWithConsent
  <2>1. IInv => \A tx \in relayed : tx.key \in Keys
    BY ApprovalConstants DEF IInv, TypeOK, Journal!TypeOK
  <2> QED BY <2>1 DEF IInv, ConsentInv, RelayedWithConsent
<1> QED BY <1>1, Invariance, PTL

-----------------------------------------------------------------------------
(* How an intent comes to be closed, and stays so.                         *)

\* What a step does to an intent that awaits approval or is closed.
LEMMA ClosingStep ==
    ASSUME IInv, Next, NEW j \in Keys
    PROVE  /\ intent[j].phase = "closed" => intent'[j].phase = "closed"
           /\ intent[j].phase = "pending" /\ intent'[j].phase = "closed"
                => Intent(j, bound[j]) \in Refused
<1> DEFINE Goal == /\ intent[j].phase = "closed" => intent'[j].phase = "closed"
                   /\ intent[j].phase = "pending" /\ intent'[j].phase = "closed"
                        => Intent(j, bound[j]) \in Refused
<1>1. ASSUME UNCHANGED intent PROVE Goal
  BY <1>1
<1>2. ASSUME NEW k \in Keys, NEW request \in Requests, Reserve(k, request) PROVE Goal
  <2>1. \A i \in Keys : bound[i] # NoRequest => intent'[i] = intent[i]
    BY <1>2, ReserveStep
  <2> QED BY <2>1 DEF IInv, TypeOK
<1>3. ASSUME NEW k \in Keys, Approve(k) PROVE Goal
  <2>1. intent[k].phase # "closed" /\ \A i \in Keys \ {k} : intent'[i] = intent[i]
    BY <1>3, ApproveStep DEF Approve, Approvable
  <2>2. intent'[k].phase # "closed"
    BY <1>3, ApproveStep DEF Open, Journal!Verdicts
  <2> QED BY <2>1, <2>2
<1>4. ASSUME NEW k \in Keys, NEW request \in Requests, NEW s \in sealed, NEW action \in Actions,
             Refuse(k, request, s, action)
      PROVE  Goal
  <2>1. /\ \A i \in Keys \ {k} : intent'[i] = intent[i]
        /\ \/ intent'[k] = intent[k]
           \/ intent[k].phase = "pending" /\ intent'[k].phase = "closed"
    BY <1>4, DeclineStep DEF Refuse
  <2>2. s = Intent(k, bound[k]) /\ s \in Intents /\ Answer(s, action) \in answers
    BY <1>4 DEF Refuse, Reenters, Matches, IInv, TypeOK
  <2>3. Intent(k, bound[k]) \in Refused
    BY <2>2, <1>4 DEF Refused, Refuse, Actions
  <2> QED BY <2>1, <2>3
<1>5. ASSUME NEW k \in Keys, Works(k) PROVE Goal
  <2>1. /\ \A i \in Keys \ {k} : intent'[i] = intent[i]
        /\ intent[k].phase \in {"authorised"} \cup Open
    BY <1>5, WorksStep
  <2> QED BY <2>1 DEF Open, Journal!Verdicts
<1>6. CASE \E k \in Keys, request \in Requests :
             \/ Ask(k, request) \/ Misfit(k, request) \/ HttpReserve(k, request)
             \/ \E s \in sealed : Accept(k, request, s)
             \/ \E s \in sealed, action \in Actions : Refuse(k, request, s, action)
             \/ \E principal \in Principals : HttpApprove(principal, k, request)
  BY <1>6, <1>2, <1>3, <1>4 DEF Ask, Misfit, HttpReserve, Accept, HttpApprove
<1>7. CASE \E s \in sealed : Expire(s) \/ \E action \in Actions : UserAnswers(s, action)
  BY <1>7, <1>1 DEF Expire, UserAnswers, journalVars
<1>8. CASE Restart \/ \E k \in Keys : Returns(k)
  BY <1>8, <1>1 DEF Restart, Returns, journalVars
<1> QED BY <1>5, <1>6, <1>7, <1>8 DEF Next

\* Only a refusal of the very intent closes one that awaits its approval.
THEOREM OnlyRefusalCloses == Spec => ClosedByRefusal
<1>1. IInv /\ [Next]_vars =>
        [\A k \in Keys : intent[k].phase = "pending" /\ intent'[k].phase = "closed"
            => Intent(k, bound[k]) \in Refused]_vars
  BY ClosingStep
<1> QED BY <1>1, Invariance, PTL DEF Spec, ClosedByRefusal

\* No later round brings a closed intent back.
THEOREM ClosingIsFinal == Spec => ClosedIsFinal
<1>1. IInv /\ [Next]_vars =>
        [\A k \in Keys : intent[k].phase = "closed" => intent'[k].phase = "closed"]_vars
  BY ClosingStep
<1> QED BY <1>1, Invariance, PTL DEF Spec, ClosedIsFinal
=============================================================================
