-------------------------- MODULE RpcFailoverProofs --------------------------
(***************************************************************************)
(* Proofs about RpcFailover, for every number of endpoints, every budget   *)
(* and every ceiling.                                                      *)
(***************************************************************************)
EXTENDS RpcFailover, NumbersAndLists

-----------------------------------------------------------------------------
(* The inductive invariant.                                                *)

\* The part of TypeOK the other parts rest on.
Shape ==
    /\ method \in {"read", "submit"}
    /\ Len(endpoints) \in Nat \ {0}
    /\ timeoutMs \in Nat \ {0}
    /\ now \in Nat /\ timer \in Nat
    /\ attempted \in Nat /\ attempted <= Tries
    /\ phase \in {"choosing", "asking", "over"}
    /\ phase = "asking" => attempted > 0
    /\ node \in [1 .. Len(endpoints) -> NodeStates]

\* The budget: an attempt never outlives it.
Punctual ==
    /\ attempted = 0 /\ phase = "choosing" => now = 0
    /\ phase = "choosing" => now <= timeoutMs + Late
    /\ phase = "asking" => now <= timer + Late /\ timer <= timeoutMs

\* The cost of the attempts that had a fallback.
Cost == Ceiling + Late
Thrifty ==
    /\ phase = "choosing" /\ attempted < Tries => now <= attempted * Cost
    /\ phase = "asking" /\ attempted < Tries => timer + Late <= attempted * Cost
    /\ Failed => attempted = Tries \/ (attempted * Cost >= timeoutMs /\ now >= timeoutMs)

\* Only endpoints that were attempted have seen the request.
InOrder == \A n \in DOMAIN node : node[n] # "idle" => n <= attempted

\* A rejection was answered by the endpoint asked last.
Reliable ==
    /\ caller = "rejected" => phase = "over" /\ lastError = "rejection"
    /\ phase = "over" /\ lastError = "rejection" => attempted > 0 /\ node[attempted] = "refused"
    /\ phase # "over" => lastError # "rejection"

\* The list of the call, which nothing changes.
Distinct ==
    /\ endpoints \in Seq(Urls) /\ timeoutMs \in Timeouts
    /\ \A m, n \in 1 .. Len(endpoints) : endpoints[m] = endpoints[n] => m = n

\* What the sweep and the caller hold.
Spoken ==
    lastError \in Outcomes /\ caller \in Verdicts \cup {"waiting"}

IInv == Shape /\ Punctual /\ Thrifty /\ InOrder /\ Reliable

-----------------------------------------------------------------------------

LEMMA TriesBound ==
    ASSUME Shape
    PROVE  /\ Tries \in Nat \ {0} /\ Tries <= Len(endpoints)
           /\ method = "submit" => Tries = 1
           /\ method = "read" => Tries = Len(endpoints)
  <1>1. Len(endpoints) \in Nat \ {0} /\ method \in {"read", "submit"}
    BY DEF Shape
  <1>2. CASE method = "submit"
    BY <1>1, <1>2 DEF Tries, FailoverAllowed
  <1>3. CASE method = "read" /\ Len(endpoints) > 1
    BY <1>1, <1>3 DEF Tries, FailoverAllowed
  <1>4. CASE method = "read" /\ ~(Len(endpoints) > 1)
    <2>1. Tries = 1
      BY <1>4 DEF Tries, FailoverAllowed
    <2> DEFINE l == Len(endpoints)
    <2>2. l \in Nat \ {0} /\ ~(l > 1)
      BY <1>1, <1>4
    <2> HIDE DEF l
    <2>3. l = 1
      BY <2>2
    <2> QED
      BY <1>4, <2>1, <2>3 DEF l
  <1> QED
    BY <1>1, <1>2, <1>3, <1>4

\* toRpcUrlList() returns a list without blanks in which no endpoint comes twice.
LEMMA RpcUrlListDistinct ==
    ASSUME NEW list \in UrlLists
    PROVE  /\ RpcUrlList(list) \in Seq(Urls)
           /\ \A m, n \in 1 .. Len(RpcUrlList(list)) :
                 RpcUrlList(list)[m] = RpcUrlList(list)[n] => m = n
           /\ RpcUrlList(list) # <<>> => Len(RpcUrlList(list)) \in Nat \ {0}
  <1> DEFINE kept == {i \in DOMAIN list :
                         list[i] # Blank /\ \A j \in 1 .. i - 1 : list[j] # list[i]}
  <1>1. list \in Seq(Urls \cup {Blank})
    BY FailoverConstants
  <1>2. Len(list) \in Nat /\ DOMAIN list = 1 .. Len(list)
        /\ \A i \in 1 .. Len(list) : list[i] \in Urls \cup {Blank}
    BY <1>1
  <1>3. kept \in SUBSET (1 .. Len(list))
    BY <1>2
  <1>4. \A i \in kept : list[i] \in Urls
    BY <1>2
  <1>5. ASSUME NEW i \in kept, NEW k \in kept, list[i] = list[k]
        PROVE  i = k
    <2>1. i \in Nat \ {0} /\ k \in Nat \ {0}
      BY <1>2
    <2>2. ~(i < k) /\ ~(k < i)
      BY <1>5, <2>1
    <2> QED
      BY <2>1, <2>2
  <1>6. RpcUrlList(list) = KeptInOrder(list, kept)
    BY DEF RpcUrlList, KeptInOrder
  <1> HIDE DEF kept
  <1> DEFINE urls == KeptInOrder(list, kept)
  <1>7. /\ urls \in Seq(Urls) /\ \A m, n \in 1 .. Len(urls) : urls[m] = urls[n] => m = n
        /\ urls # <<>> => Len(urls) \in Nat \ {0}
    BY <1>2, <1>3, <1>4, <1>5, KeptListed
  <1> HIDE DEF urls
  <1> QED
    BY <1>6, <1>7 DEF urls

LEMMA InitInv == Init => IInv
  <1> SUFFICES ASSUME Init PROVE IInv
    OBVIOUS
  <1>1. Len(endpoints) \in Nat \ {0}
    BY RpcUrlListDistinct DEF Init
  <1>2. timeoutMs \in Nat \ {0}
    BY FailoverConstants DEF Init
  <1>3. Shape
    BY <1>1, <1>2 DEF Init, Shape, Tries, NodeStates
  <1>4. Punctual /\ Reliable /\ InOrder
    BY <1>1, <1>2, FailoverConstants DEF Init, Punctual, Reliable, InOrder
  <1>5. Thrifty
    BY <1>1, FailoverConstants DEF Init, Thrifty, Failed, Cost
  <1> QED
    BY <1>3, <1>4, <1>5 DEF IInv

-----------------------------------------------------------------------------
(* One lemma per action.                                                   *)

LEMMA NextMultiple ==
    ASSUME NEW a \in Nat, NEW c \in Nat
    PROVE  a * c \in Nat /\ (a + 1) * c = a * c + c
  OBVIOUS

LEMMA AskStep ==
    ASSUME IInv, Ask
    PROVE  IInv'
  <1> DEFINE a == attempted  T == AttemptTimeout
  <1>1. Tries \in Nat /\ Tries' = Tries /\ Tries <= Len(endpoints)
    BY TriesBound DEF IInv, Ask, callVars, Tries, FailoverAllowed
  <1>2. /\ a \in Nat /\ now \in Nat /\ timeoutMs \in Nat \ {0}
        /\ Ceiling \in Nat /\ Late \in Nat /\ Cost \in Nat
        /\ phase = "choosing" /\ phase' = "asking" /\ a < Tries
        /\ attempted' = a + 1 /\ timer' = now + T
        /\ now' = now /\ timeoutMs' = timeoutMs /\ endpoints' = endpoints /\ method' = method
        /\ lastError' = lastError /\ caller' = caller
    BY FailoverConstants DEF IInv, Shape, Ask, callVars, Cost
  <1>3. /\ T \in Int /\ now + T <= timeoutMs
        /\ a + 1 < Tries => T <= Ceiling
        /\ T > 0
    <2>1. Budget \in Int /\ Budget > 0 /\ now + Budget <= timeoutMs
      BY <1>2 DEF Budget, Remaining, IInv, Punctual, Ask, Spent
    <2> QED
      BY <1>1, <1>2, <2>1, FailoverConstants DEF AttemptTimeout
  <1> HIDE DEF T
  <1>4. Shape'
    BY <1>1, <1>2, <1>3 DEF IInv, Shape, Ask, NodeStates
  <1>5. Punctual'
    BY <1>1, <1>2, <1>3 DEF Punctual
  <1>6. Thrifty'
    <2>1. now <= a * Cost
      BY <1>2 DEF IInv, Thrifty
    <2>2. a * Cost \in Nat /\ (a + 1) * Cost = a * Cost + Cost
      BY <1>2, NextMultiple
    <2>3. Cost' = Cost
      BY DEF Cost
    <2>4. a + 1 < Tries => timer' + Late <= (a + 1) * Cost
      <3>1. a + 1 < Tries => now + T + Late <= a * Cost + Cost
        <4> DEFINE m == a * Cost
        <4>1. m \in Nat /\ now <= m
          BY <2>1, <2>2
        <4> HIDE DEF m
        <4>2. a + 1 < Tries => now + T + Late <= m + (Ceiling + Late)
          BY <1>2, <1>3, <4>1
        <4> QED
          BY <4>2 DEF m, Cost
      <3> QED
        BY <1>2, <2>2, <3>1
    <2> QED
      BY <1>1, <1>2, <2>3, <2>4 DEF Thrifty, Failed
  <1>7. InOrder'
    BY <1>2 DEF IInv, InOrder, Shape, Ask
  <1>8. Reliable'
    BY <1>2 DEF IInv, Reliable
  <1> QED
    BY <1>4, <1>5, <1>6, <1>7, <1>8 DEF IInv

LEMMA GiveUpStep ==
    ASSUME IInv, GiveUp
    PROVE  IInv'
  <1>1. Tries \in Nat /\ Tries' = Tries
    BY TriesBound DEF IInv, GiveUp, callVars, Tries, FailoverAllowed
  <1>2. Shape' /\ InOrder' /\ Reliable' /\ Punctual'
    BY <1>1 DEF IInv, Shape, InOrder, Reliable, Punctual, GiveUp, callVars
  <1>3. Thrifty'
    <2>1. attempted = Tries \/ (attempted < Tries /\ now <= attempted * Cost /\ Remaining <= 0)
      BY <1>1 DEF IInv, Shape, Thrifty, GiveUp, Spent
    <2>2. attempted \in Nat /\ Cost \in Nat /\ now \in Nat /\ timeoutMs \in Nat
      BY FailoverConstants DEF IInv, Shape, Cost
    <2>3. attempted * Cost \in Nat
      BY <2>2, NextMultiple
    <2>4. attempted = Tries \/ (attempted * Cost >= timeoutMs /\ now >= timeoutMs)
      BY <2>1, <2>2, <2>3 DEF Remaining
    <2> QED
      BY <1>1, <2>4 DEF Thrifty, GiveUp, callVars, Cost, Failed
  <1> QED
    BY <1>2, <1>3 DEF IInv

LEMMA AnsweredStep ==
    ASSUME IInv, NEW outcome \in Answers, Answered(outcome)
    PROVE  IInv'
  <1>1. Tries \in Nat /\ Tries' = Tries
    BY TriesBound DEF IInv, Answered, callVars, Tries, FailoverAllowed
  <1>2. Shape' /\ InOrder' /\ Punctual'
    BY <1>1 DEF IInv, Shape, InOrder, Punctual, Answered, callVars
  <1>3. Reliable'
    BY DEF IInv, Shape, Reliable, Answered, callVars
  <1>4. Thrifty'
    BY DEF Thrifty, Failed, Answered, Answers, Errors
  <1> QED
    BY <1>2, <1>3, <1>4 DEF IInv

\* Both failures leave the loop at the next endpoint.
LEMMA FailureStep ==
    ASSUME IInv, TransportFails \/ AttemptTimesOut
    PROVE  IInv'
  <1>1. Tries \in Nat /\ Tries' = Tries
    BY TriesBound DEF IInv, TransportFails, AttemptTimesOut, callVars, Tries, FailoverAllowed
  <1>2. /\ phase = "asking" /\ phase' = "choosing" /\ lastError' # "rejection"
        /\ UNCHANGED <<callVars, now, attempted, timer, caller, node>>
    BY DEF TransportFails, AttemptTimesOut
  <1>3. Shape' /\ InOrder' /\ Reliable'
    BY <1>1, <1>2 DEF IInv, Shape, InOrder, Reliable, callVars
  <1>4. Punctual'
    BY <1>2, FailoverConstants DEF IInv, Shape, Punctual, callVars
  <1>5. Thrifty'
    <2>1. attempted \in Nat /\ Cost \in Nat /\ now \in Nat /\ timer \in Int /\ Late \in Nat
      BY FailoverConstants DEF IInv, Shape, Cost
    <2>2. attempted * Cost \in Nat
      BY <2>1, NextMultiple
    <2>3. attempted < Tries => now <= attempted * Cost
      BY <1>2, <2>1, <2>2 DEF IInv, Thrifty, Punctual
    <2> QED
      BY <1>1, <1>2, <2>3 DEF Thrifty, Failed, callVars, Cost
  <1> QED
    BY <1>3, <1>4, <1>5 DEF IInv

LEMMA CallerStep ==
    ASSUME IInv, Settle \/ DeadlinePasses
    PROVE  IInv'
  <1>1. Tries' = Tries
    BY DEF Settle, DeadlinePasses, callVars, Tries, FailoverAllowed
  <1>2. Shape' /\ InOrder' /\ Punctual'
    BY <1>1 DEF IInv, Shape, InOrder, Punctual, Settle, DeadlinePasses, callVars
  <1>3. Thrifty'
    BY <1>1 DEF IInv, Thrifty, Failed, Cost, Settle, DeadlinePasses, callVars
  <1>4. Reliable'
    BY DEF IInv, Reliable, Settle, DeadlinePasses, Verdict
  <1> QED
    BY <1>2, <1>3, <1>4 DEF IInv

LEMMA NodeStep ==
    ASSUME IInv, NEW n \in DOMAIN node, NEW state \in NodeStates, NodeActs(n, state)
    PROVE  IInv'
  <1>1. Tries' = Tries
    BY DEF NodeActs, callVars, Tries, FailoverAllowed
  <1>2. Shape' /\ InOrder' /\ Punctual'
    BY <1>1 DEF IInv, Shape, InOrder, Punctual, NodeActs, callVars
  <1>3. Thrifty'
    BY <1>1 DEF IInv, Thrifty, Failed, Cost, NodeActs, callVars
  <1>4. Reliable'
    BY DEF IInv, Shape, Reliable, NodeActs
  <1> QED
    BY <1>2, <1>3, <1>4 DEF IInv

LEMMA TickStep ==
    ASSUME IInv, Tick
    PROVE  IInv'
  <1>1. Tries' = Tries
    BY DEF Tick, callVars, Tries, FailoverAllowed
  <1>2. Shape' /\ InOrder' /\ Punctual' /\ Reliable'
    BY <1>1, FailoverConstants DEF IInv, Shape, InOrder, Punctual, Reliable, Tick, callVars
  <1>3. Thrifty'
    <2>1. now \in Nat /\ timeoutMs \in Nat /\ now' = now + 1
      BY DEF IInv, Shape, Tick
    <2> QED
      BY <1>1, <2>1 DEF IInv, Thrifty, Failed, Cost, Tick, callVars
  <1> QED
    BY <1>2, <1>3 DEF IInv

LEMMA StutterStep ==
    ASSUME IInv, UNCHANGED vars
    PROVE  IInv'
  BY DEF vars, IInv, Shape, Punctual, Thrifty, InOrder, Reliable, Tries, FailoverAllowed,
         Failed, Cost

\* The invariant of a call, whatever the nodes do and however late its timers
\* fire.
THEOREM Invariance == Spec => []IInv
  <1>1. ASSUME IInv, [Next]_vars
        PROVE  IInv'
    BY <1>1, AskStep, GiveUpStep, AnsweredStep, FailureStep, CallerStep, NodeStep, TickStep,
       StutterStep
    DEF Next
  <1> QED
    BY InitInv, <1>1, PTL DEF Spec

-----------------------------------------------------------------------------
(* What it implies.                                                        *)

\* The time of all attempts together stays within the budget of the call plus
\* the lateness of one timer, for any number of endpoints.
THEOREM BudgetKept == Spec => []WithinBudget
  <1>1. IInv => WithinBudget
    BY FailoverConstants DEF IInv, Shape, Punctual, WithinBudget
  <1> QED
    BY <1>1, Invariance, PTL

\* executeWithFailover() gives a submission to no node but the first.
THEOREM OneSubmission == Spec => []SubmittedToOne
  <1>1. IInv => SubmittedToOne
    <2> SUFFICES ASSUME IInv, method = "submit", NEW n \in DOMAIN node, node[n] # "idle"
                 PROVE  n = 1
      BY DEF SubmittedToOne
    <2>1. attempted <= 1 /\ attempted \in Nat
      BY TriesBound DEF IInv, Shape
    <2>2. n \in Nat \ {0} /\ n <= attempted
      BY DEF IInv, Shape, InOrder
    <2> QED
      BY <2>1, <2>2
  <1> QED
    BY <1>1, Invariance, PTL

\* What submitPreparedTransaction() reports as rejected, no node of the call has
\* taken or can still take.
THEOREM RejectionIsReliable == Spec => []RejectedWasNotTaken
  <1>1. IInv => RejectedWasNotTaken
    <2> SUFFICES ASSUME IInv, method = "submit", caller = "rejected", NEW n \in DOMAIN node
                 PROVE  node[n] \notin {"sent", "taken"}
      BY DEF RejectedWasNotTaken
    <2>1. attempted = 1 /\ node[attempted] = "refused"
      BY TriesBound DEF IInv, Shape, Reliable
    <2>2. n \in Nat \ {0}
      BY DEF IInv, Shape
    <2>3. CASE n = 1
      BY <2>1, <2>3
    <2>4. CASE n # 1
      BY <2>1, <2>2, <2>4 DEF IInv, InOrder
    <2> QED
      BY <2>3, <2>4
  <1> QED
    BY <1>1, Invariance, PTL

\* A read that fails has asked every endpoint, or has spent its budget at no more
\* than one ceiling per stalled endpoint.
THEOREM OneCeilingPerStall == Spec => []StallCostsOneCeiling
  <1>1. IInv => StallCostsOneCeiling
    BY TriesBound DEF IInv, Thrifty, Cost, StallCostsOneCeiling
  <1> QED
    BY <1>1, Invariance, PTL

LEMMA ListKept == Spec => [](Distinct /\ Spoken)
  <1>1. Init => Distinct /\ Spoken
    BY RpcUrlListDistinct DEF Init, Distinct, Spoken, Outcomes
  <1>2. Distinct /\ Spoken /\ [Next]_vars => (Distinct /\ Spoken)'
    <2> SUFFICES ASSUME Distinct, Spoken, [Next]_vars
                 PROVE  (Distinct /\ Spoken)'
      OBVIOUS
    <2>1. UNCHANGED callVars
      BY DEF Next, Ask, GiveUp, Answered, TransportFails, AttemptTimesOut, Settle, DeadlinePasses,
             NodeActs, Tick, vars, callVars
    <2>2. Spoken'
      <3>1. \A outcome : Verdict(outcome) \in Verdicts
        BY DEF Verdict, Verdicts
      <3> QED
        BY <3>1 DEF Spoken, Next, Ask, GiveUp, Answered, TransportFails, AttemptTimesOut, Settle,
                    DeadlinePasses, NodeActs, Tick, vars, Outcomes, Errors
    <2> QED
      BY <2>1, <2>2 DEF callVars, Distinct
  <1> QED
    BY <1>1, <1>2, PTL DEF Spec

\* No endpoint is asked twice: toRpcUrlList() has removed what the configured list
\* repeats, and the loop goes through the list once.
THEOREM NoneAskedTwice == Spec => []AskedOnce
  <1>1. IInv /\ Distinct => AskedOnce
    BY DEF IInv, Shape, Distinct, AskedOnce
  <1> QED
    BY <1>1, Invariance, ListKept, PTL

\* Every variable keeps its type.
THEOREM Typed == Spec => []TypeOK
  <1>1. IInv /\ Distinct /\ Spoken => TypeOK
    <2> SUFFICES ASSUME IInv, Distinct, Spoken PROVE TypeOK
      OBVIOUS
    <2>1. attempted \in 0 .. Len(endpoints)
      BY TriesBound DEF IInv, Shape
    <2>2. timer \in Nat
      BY DEF IInv, Shape
    <2> QED
      BY <2>1, <2>2 DEF IInv, Shape, Distinct, Spoken, TypeOK
  <1> QED
    BY <1>1, Invariance, ListKept, PTL
=============================================================================
