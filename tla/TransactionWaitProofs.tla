------------------------- MODULE TransactionWaitProofs -------------------------
(***************************************************************************)
(* Proofs about TransactionWait, for any number of waits, any cap, any     *)
(* timeouts and any lateness of timers: slots are exact, an abort frees a  *)
(* slot, a wait overruns its timeout by one RPC timeout at most, and "not  *)
(* confirmed" is never said too early.                                     *)
(***************************************************************************)
EXTENDS TransactionWait, FiniteSetTheorems, TLAPS

WaitRecord == [pc : {"idle", "magic", "rpc", "polling", "over"}, step : Steps,
               log : BOOLEAN, aborted : BOOLEAN, deadline : Nat,
               allotted : Int, timer : Nat, verdict : Verdicts \cup {"none"}]

-----------------------------------------------------------------------------
(* The inductive invariant.                                                *)

\* A wait behind the network magic: when the shared request will have ended and the
\* step it holds up has had its time, at most one RPC timeout is lost.
HeldUp(r) ==
    /\ flight # NoTimer
    /\ r.allotted >= 0 /\ flight + r.allotted <= r.deadline + RpcTimeout

\* A wait with a timer of its own: it has no abort left to obey, its timer is not
\* overdue, and no poll sleeps past the timeout.
Timed(r) ==
    /\ ~r.aborted
    /\ now <= r.timer + Late
    /\ r.timer <= r.deadline + RpcTimeout + Late
    /\ r.pc = "polling" => r.timer <= r.deadline

\* Where a running wait stands.
Stands(r) ==
    Running(r) =>
        /\ r.verdict = "none"
        /\ IF r.pc = "magic" THEN HeldUp(r) ELSE Timed(r)

\* The shared request for the network magic.
FlightIsPunctual ==
    flight # NoTimer => now <= flight + Late /\ flight <= now + RpcTimeout

IInv ==
    /\ TypeOK
    /\ SlotsAreExact
    /\ FlightIsPunctual
    /\ \A w \in Waits : Stands(wait[w])

-----------------------------------------------------------------------------
(* The body of a poll: where a wait is at its next await.                  *)

\* A wait that goes on or ends without meeting the magic, and ends as "not confirmed"
\* only once its time is over.
Lands(r, q) ==
    /\ q \in WaitRecord /\ q.pc \in {"rpc", "polling", "over"}
    /\ q.pc # "over" => Timed(q) /\ q.verdict = "none"
    /\ q.verdict = "unconfirmed" => now >= r.deadline

\* What holds of a wait at every call of these operators: a step that is asked for has
\* its time in front of the deadline, but for what the magic took.
Going(r) ==
    /\ r \in WaitRecord /\ r.verdict = "none"
    /\ now + r.allotted <= r.deadline + RpcTimeout + Late

LEMMA Numbers ==
    /\ RpcTimeout \in Nat /\ RpcTimeout > 0 /\ Interval \in Nat /\ Interval > 0
    /\ MaxWaits \in Nat /\ MaxWaits > 0 /\ Late \in Nat /\ Grace \in Nat
    /\ IsFiniteSet(Waits) /\ Timeouts \subseteq Nat
  BY WaitConstants

LEMMA NotStartedTyped == NotStarted \in WaitRecord /\ NotStarted.verdict = "none" /\ NotStarted.pc = "idle"
  BY DEF NotStarted, WaitRecord, Steps

LEMMA OverLands ==
    ASSUME NEW r \in WaitRecord, NEW v \in Verdicts, v = "unconfirmed" => now >= r.deadline
    PROVE  Lands(r, Over(r, v)) /\ ~Running(Over(r, v)) /\ Over(r, v).aborted = r.aborted
  <1> DEFINE q == Over(r, v)
  <1>1. q \in WaitRecord /\ q.pc = "over" /\ q.verdict = v /\ q.aborted = r.aborted
    BY NotStartedTyped DEF Over, WaitRecord
  <1> HIDE DEF q
  <1>2. Lands(r, q) /\ ~Running(q)
    BY <1>1 DEF Lands, Running
  <1> QED
    BY <1>1, <1>2 DEF q

LEMMA SleepLands ==
    ASSUME now \in Nat, NEW r \in WaitRecord, r.verdict = "none"
    PROVE  Lands(r, Sleep(r))
  <1>1. CASE r.deadline - now <= 0
    BY <1>1, OverLands DEF Sleep, Verdicts, WaitRecord
  <1>2. CASE r.deadline - now > 0 /\ r.aborted
    BY <1>2, OverLands DEF Sleep, Verdicts, WaitRecord
  <1>3. CASE r.deadline - now > 0 /\ ~r.aborted
    <2> DEFINE pause == Lesser(Interval, r.deadline - now)
               q == [r EXCEPT !.pc = "polling", !.timer = now + pause]
    <2>1. pause \in Nat /\ now + pause \in Nat /\ now <= now + pause /\ now + pause <= r.deadline
      BY <1>3, Numbers DEF Lesser, WaitRecord
    <2> HIDE DEF pause
    <2>2. q \in WaitRecord /\ q.pc = "polling" /\ q.timer = now + pause /\ q.deadline = r.deadline
          /\ q.aborted = r.aborted /\ q.verdict = "none"
      BY <2>1 DEF WaitRecord
    <2>3. Sleep(r) = q
      BY <1>3 DEF Sleep, pause, WaitRecord
    <2> HIDE DEF q
    <2>4. r.deadline \in Nat
      BY DEF WaitRecord
    <2>5. now <= q.timer + Late /\ q.timer <= q.deadline /\ q.timer <= q.deadline + RpcTimeout + Late
      BY <2>1, <2>2, <2>4, Numbers
    <2>6. Lands(r, q)
      BY <1>3, <2>2, <2>5 DEF Lands, Timed
    <2> QED
      BY <2>3, <2>6
  <1> QED
    BY <1>1, <1>2, <1>3 DEF WaitRecord

\* A request goes out with time left.
LEMMA IssueLands ==
    ASSUME now \in Nat, NEW r, Going(r), r.allotted > 0, ~r.aborted
    PROVE  Lands(r, Issue(r))
  <1> DEFINE due == now + r.allotted
             q == [r EXCEPT !.pc = "rpc", !.timer = due, !.allotted = 0]
  <1>1. /\ r \in WaitRecord /\ r.verdict = "none"
        /\ due \in Nat /\ now <= due /\ due <= r.deadline + RpcTimeout + Late
    BY DEF Going, WaitRecord
  <1>2. Issue(r) = q
    BY DEF Issue
  <1> HIDE DEF due
  <1>3. q \in WaitRecord
    <2>1. PICK t \in WaitRecord : t = [r EXCEPT !.pc = "rpc", !.timer = due]
      BY <1>1 DEF WaitRecord
    <2>2. q = [t EXCEPT !.allotted = 0]
      BY <1>1, <2>1 DEF WaitRecord
    <2> HIDE DEF q
    <2> QED
      BY <2>2 DEF WaitRecord
  <1>4. q.pc = "rpc" /\ q.timer = due /\ q.deadline = r.deadline /\ q.aborted = r.aborted /\ q.verdict = "none"
    BY <1>1 DEF WaitRecord
  <1> HIDE DEF q
  <1>5. now <= q.timer + Late /\ q.timer <= q.deadline + RpcTimeout + Late
    BY <1>1, <1>4, Numbers
  <1>6. Lands(r, q)
    BY <1>3, <1>4, <1>5 DEF Lands, Timed
  <1> QED
    BY <1>2, <1>6

\* The time of a step ends by the deadline of the wait.
LEMMA AllotGoes ==
    ASSUME now \in Nat, NEW r \in WaitRecord, r.verdict = "none", NEW s \in Steps
    PROVE  LET q == Allot([r EXCEPT !.step = s]) IN
           /\ Going(q) /\ q.deadline = r.deadline /\ q.aborted = r.aborted /\ q.pc = r.pc /\ q.step = s
           /\ now + q.allotted <= q.deadline
           /\ now <= r.deadline => q.allotted >= 0
  <1> DEFINE t == Lesser(RpcTimeout, r.deadline - now)
             q == Allot([r EXCEPT !.step = s])
  <1>1. t \in Int /\ now + t <= r.deadline /\ (now <= r.deadline => t >= 0)
    BY Numbers DEF Lesser, WaitRecord
  <1>2. q = [r EXCEPT !.step = s, !.allotted = t]
    BY DEF Allot, WaitRecord
  <1> HIDE DEF t
  <1>3. q \in WaitRecord /\ q.allotted = t /\ q.deadline = r.deadline /\ q.aborted = r.aborted
        /\ q.pc = r.pc /\ q.step = s /\ q.verdict = "none"
    BY <1>1, <1>2 DEF WaitRecord
  <1> HIDE DEF q
  <1>4. Going(q)
    BY <1>1, <1>3, Numbers DEF Going, WaitRecord
  <1> QED
    BY <1>1, <1>3, <1>4 DEF q

LEMMA AskLogLands ==
    ASSUME now \in Nat, NEW r \in WaitRecord, r.verdict = "none"
    PROVE  Lands(r, AskLog(r))
  <1> DEFINE q == Allot([r EXCEPT !.step = "log"])
  <1>1. Going(q) /\ q.deadline = r.deadline
    BY AllotGoes DEF Steps
  <1>2. AskLog(r) = IF q.allotted <= 0 \/ q.aborted THEN Over(q, "confirmed") ELSE Issue(q)
    BY DEF AskLog
  <1> HIDE DEF q
  <1>3. Lands(q, Over(q, "confirmed"))
    BY <1>1, OverLands DEF Going, Verdicts
  <1>4. CASE ~(q.allotted <= 0 \/ q.aborted)
    <2>1. q.allotted > 0 /\ ~q.aborted
      BY <1>1, <1>4 DEF Going, WaitRecord
    <2>2. Lands(q, Issue(q))
      BY <1>1, <2>1, IssueLands
    <2> QED
      BY <1>1, <1>2, <1>4, <2>2 DEF Lands
  <1> QED
    BY <1>1, <1>2, <1>3, <1>4 DEF Lands

LEMMA AfterDetailsLands ==
    ASSUME now \in Nat, NEW r \in WaitRecord, r.verdict = "none"
    PROVE  Lands(r, AfterDetails(r))
  BY AskLogLands, OverLands DEF AfterDetails, Verdicts

LEMMA DeadlinedLands ==
    ASSUME now \in Nat, NEW r \in WaitRecord, r.verdict = "none"
    PROVE  Lands(r, Deadlined(r))
  <1>1. CASE r.step = "height"
    BY <1>1, SleepLands, OverLands DEF Deadlined, Verdicts
  <1>2. CASE r.step = "transaction"
    BY <1>2, AfterDetailsLands DEF Deadlined
  <1>3. CASE r.step = "log"
    BY <1>3, OverLands DEF Deadlined, Verdicts
  <1> QED
    BY <1>1, <1>2, <1>3 DEF WaitRecord, Steps

LEMMA AskLands ==
    ASSUME now \in Nat, NEW r, Going(r)
    PROVE  Lands(r, Ask(r))
  <1>0. r \in WaitRecord /\ r.verdict = "none" /\ r.allotted \in Int
    BY DEF Going, WaitRecord
  <1>1. CASE r.allotted <= 0
    BY <1>0, <1>1, DeadlinedLands DEF Ask
  <1>2. CASE r.allotted > 0 /\ r.aborted
    BY <1>0, <1>2, OverLands DEF Ask, Verdicts
  <1>3. CASE r.allotted > 0 /\ ~r.aborted
    BY <1>0, <1>3, IssueLands DEF Ask
  <1> QED
    BY <1>0, <1>1, <1>2, <1>3

LEMMA AskTransactionLands ==
    ASSUME now \in Nat, NEW r \in WaitRecord, r.verdict = "none"
    PROVE  Lands(r, AskTransaction(r))
  <1> DEFINE q == Allot([r EXCEPT !.step = "transaction"])
  <1>1. Going(q) /\ q.deadline = r.deadline
    BY AllotGoes DEF Steps
  <1> HIDE DEF q
  <1>2. Lands(q, Ask(q))
    BY <1>1, AskLands
  <1> QED
    BY <1>1, <1>2 DEF Lands, AskTransaction, q

LEMMA AnsweredLands ==
    ASSUME now \in Nat, NEW r \in WaitRecord, r.verdict = "none", NEW answer \in Answers
    PROVE  Lands(r, Answered(r, answer))
  <1>1. CASE r.step = "log"
    BY <1>1, OverLands DEF Answered, Verdicts
  <1>2. CASE r.step = "transaction" /\ answer = "ok"
    BY <1>2, AfterDetailsLands DEF Answered
  <1>3. CASE r.step = "height" /\ answer = "ok"
    BY <1>3, AskTransactionLands DEF Answered
  <1>4. CASE r.step # "log" /\ answer = "failure"
    BY <1>4, OverLands DEF Answered, Verdicts
  <1>5. CASE r.step # "log" /\ answer = "retryable"
    BY <1>5, SleepLands DEF Answered
  <1> QED
    BY <1>1, <1>2, <1>3, <1>4, <1>5 DEF WaitRecord, Steps, Answers

\* The head of the loop asks at once, or waits for the magic with its time fixed.
LEMMA AskHeightStands ==
    ASSUME now \in Nat, NEW r \in WaitRecord, r.verdict = "none"
    PROVE  LET q == AskHeight(r) IN
           \/ Lands(r, q)
           \/ /\ q \in WaitRecord /\ q.pc = "magic" /\ q.verdict = "none" /\ q.deadline = r.deadline
              /\ q.allotted >= 0 /\ now + q.allotted <= q.deadline
  <1> DEFINE p == Allot([r EXCEPT !.step = "height"])
  <1>1. Going(p) /\ p.deadline = r.deadline /\ now + p.allotted <= p.deadline
        /\ (now <= r.deadline => p.allotted >= 0)
    BY AllotGoes DEF Steps
  <1>2. AskHeight(r) = IF now > r.deadline THEN Over(r, "unconfirmed")
                       ELSE IF magic THEN Ask(p) ELSE [p EXCEPT !.pc = "magic"]
    BY DEF AskHeight
  <1> HIDE DEF p
  <1>3. CASE now > r.deadline
    BY <1>2, <1>3, OverLands DEF Verdicts, WaitRecord
  <1>4. CASE ~(now > r.deadline) /\ magic
    <2>1. Lands(p, Ask(p))
      BY <1>1, AskLands
    <2> QED
      BY <1>1, <1>2, <1>4, <2>1 DEF Lands
  <1>5. CASE ~(now > r.deadline) /\ ~magic
    <2>1. p.allotted >= 0
      BY <1>1, <1>5 DEF WaitRecord
    <2> DEFINE q == [p EXCEPT !.pc = "magic"]
    <2>2. q \in WaitRecord /\ q.pc = "magic" /\ q.verdict = "none" /\ q.deadline = p.deadline
          /\ q.allotted = p.allotted
      BY <1>1 DEF Going, WaitRecord
    <2> QED
      BY <1>1, <1>2, <1>5, <2>1, <2>2
  <1> QED
    BY <1>3, <1>4, <1>5

\* A wait that has just begun is not over at its first await.
LEMMA FreshRuns ==
    ASSUME now \in Nat, NEW r \in WaitRecord, r.verdict = "none", ~r.aborted, now < r.deadline
    PROVE  Running(AskHeight(r))
  <1> DEFINE p == Allot([r EXCEPT !.step = "height"])
  <1>1. Going(p) /\ p.aborted = r.aborted
    BY AllotGoes DEF Steps
  <1>2. p.allotted > 0
    BY Numbers DEF Allot, Lesser, WaitRecord
  <1>3. AskHeight(r) = IF now > r.deadline THEN Over(r, "unconfirmed")
                       ELSE IF magic THEN Ask(p) ELSE [p EXCEPT !.pc = "magic"]
    BY DEF AskHeight
  <1> HIDE DEF p
  <1>4. ~(now > r.deadline)
    BY DEF WaitRecord
  <1>5. CASE magic
    <2>1. p \in WaitRecord /\ ~(p.allotted <= 0)
      BY <1>1, <1>2 DEF Going, WaitRecord
    <2>2. Ask(p) = Issue(p)
      BY <1>1, <2>1 DEF Ask
    <2>3. Issue(p).pc = "rpc"
      BY <2>1 DEF Issue, WaitRecord
    <2> QED
      BY <1>3, <1>4, <1>5, <2>2, <2>3 DEF Running
  <1>6. CASE ~magic
    <2>1. [p EXCEPT !.pc = "magic"].pc = "magic"
      BY <1>1 DEF Going, WaitRecord
    <2> QED
      BY <1>3, <1>4, <1>6, <2>1 DEF Running
  <1> QED
    BY <1>5, <1>6

\* An abort ends a wait, or leaves it behind the magic with its mark.
LEMMA AbortedStands ==
    ASSUME NEW r \in WaitRecord, r.verdict = "none"
    PROVE  LET q == Aborted(r) IN
           /\ q \in WaitRecord /\ q.verdict # "unconfirmed"
           /\ \/ q.pc = "over"
              \/ /\ r.pc = "magic" /\ q.pc = "magic" /\ q.verdict = "none"
                 /\ q.allotted = r.allotted /\ q.deadline = r.deadline
  <1>1. CASE r.pc = "magic"
    <2> DEFINE q == [r EXCEPT !.aborted = TRUE]
    <2>1. q \in WaitRecord /\ q.pc = "magic" /\ q.verdict = "none" /\ q.allotted = r.allotted
          /\ q.deadline = r.deadline
      BY <1>1 DEF WaitRecord
    <2> QED
      BY <1>1, <2>1 DEF Aborted
  <1>2. ASSUME NEW v \in {"confirmed", "aborted"}
        PROVE  LET q == [Over(r, v) EXCEPT !.aborted = TRUE] IN
               q \in WaitRecord /\ q.verdict = v /\ q.pc = "over"
    <2>1. Over(r, v) \in WaitRecord /\ Over(r, v).verdict = v /\ Over(r, v).pc = "over"
      BY NotStartedTyped DEF Over, WaitRecord, Verdicts
    <2> QED
      BY <2>1 DEF WaitRecord
  <1>3. CASE r.pc = "rpc" /\ r.step = "log"
    BY <1>2, <1>3 DEF Aborted
  <1>4. CASE r.pc # "magic" /\ ~(r.pc = "rpc" /\ r.step = "log")
    BY <1>2, <1>4 DEF Aborted
  <1> QED
    BY <1>1, <1>3, <1>4

-----------------------------------------------------------------------------
(* Steps.                                                                  *)

\* No running wait ends as "not confirmed" before its time.
Patient == \A w \in Active : wait'[w].verdict = "unconfirmed" => now >= wait[w].deadline

\* What a step makes of one wait.
Goes(w) ==
    \/ wait'[w] = wait[w] /\ (wait[w].pc = "magic" => flight' = flight)
    \/ Lands(wait[w], wait'[w])
    \/ wait'[w].pc = "magic" /\ wait'[w].verdict = "none" /\ HeldUp(wait[w])'
    \/ wait'[w].pc = "over" /\ wait'[w].verdict # "unconfirmed"

LEMMA WaitsStep ==
    ASSUME IInv, now' = now, \A w \in Waits : Goes(w)
    PROVE  (\A w \in Waits : Stands(wait[w])') /\ Patient
  <1>1. ASSUME NEW w \in Waits
        PROVE  Stands(wait[w])'
    <2>1. CASE wait'[w] = wait[w] /\ (wait[w].pc = "magic" => flight' = flight)
      BY <2>1 DEF IInv, Stands, Running, HeldUp, Timed
    <2>2. CASE Lands(wait[w], wait'[w])
      BY <2>2 DEF Stands, Running, Lands, Timed
    <2>3. CASE wait'[w].pc = "magic" /\ wait'[w].verdict = "none" /\ HeldUp(wait[w])'
      BY <2>3 DEF Stands
    <2>4. CASE wait'[w].pc = "over"
      BY <2>4 DEF Stands, Running
    <2> QED
      BY <2>1, <2>2, <2>3, <2>4 DEF Goes
  <1>2. Patient
    BY DEF Patient, Goes, Lands, IInv, Stands, Active
  <1> QED
    BY <1>1, <1>2

\* Slots and connections when waits go on or end.
LEMMA MoveStep ==
    ASSUME IInv, NEW new, NEW cut, Move(new, cut), new \in [Waits -> WaitRecord],
           \A w \in Waits : Running(new[w]) => Running(wait[w])
    PROVE  SlotsAreExact' /\ (open \subseteq Active \cap Requests)' /\ activeTransactionWaits' \in Int
  <1>1. Active' = Active \ Ended(new) /\ Ended(new) \subseteq Active
    BY DEF Move, Active, Ended
  <1>2. IsFiniteSet(Active) /\ Cardinality(Active) \in Nat
    BY Numbers, FS_Subset, FS_CardinalityType DEF Active
  <1>3. Cardinality(Active') = Cardinality(Active) - Cardinality(Ended(new))
        /\ Cardinality(Ended(new)) \in Nat
    <2>1. Active \cap Ended(new) = Ended(new) /\ IsFiniteSet(Ended(new))
      BY <1>1, <1>2, FS_Subset
    <2> QED
      <3>1. IsFiniteSet(Active) /\ IsFiniteSet(Ended(new)) /\ Cardinality(Ended(new)) \in Nat
        BY <1>2, <2>1, FS_CardinalityType
      <3>2. Cardinality(Active \ Ended(new)) = Cardinality(Active) - Cardinality(Active \cap Ended(new))
        BY <3>1, FS_Difference
      <3> QED
        BY <1>1, <2>1, <3>1, <3>2
  <1>4. SlotsAreExact' /\ activeTransactionWaits' \in Int
    BY <1>2, <1>3, Numbers DEF Move, SlotsAreExact, IInv
  <1>5. open' \subseteq Active' \cap Requests
    BY <1>1 DEF Move, IInv, TypeOK
  <1> QED
    BY <1>4, <1>5

\* Steps in which waits go on, end or are aborted, and none begins.
LEMMA MovesStep ==
    ASSUME IInv, NEW new, NEW cut, Move(new, cut), new \in [Waits -> WaitRecord], now' = now,
           \A w \in Waits : Running(new[w]) => Running(wait[w]),
           \A w \in Waits : Goes(w),
           FlightIsPunctual', magic' \in BOOLEAN, flight' \in Nat \cup {NoTimer},
           server' \in {"up", "closing", "closed"}, forceCloseTimer' \in Nat \cup {NoTimer}
    PROVE  IInv' /\ Patient
  <1>1. SlotsAreExact' /\ (open \subseteq Active \cap Requests)' /\ activeTransactionWaits' \in Int
    BY MoveStep
  <1>2. (\A w \in Waits : Stands(wait[w])') /\ Patient
    BY WaitsStep
  <1>3. TypeOK'
    BY <1>1 DEF IInv, TypeOK, Move, WaitRecord
  <1> QED
    BY <1>1, <1>2, <1>3 DEF IInv

LEMMA Facts ==
    ASSUME IInv
    PROVE  /\ now \in Nat /\ wait \in [Waits -> WaitRecord] /\ flight \in Nat \cup {NoTimer}
           /\ \A w \in Waits : wait[w] \in WaitRecord /\ (Running(wait[w]) => wait[w].verdict = "none")
  BY DEF IInv, TypeOK, WaitRecord, Stands

\* One wait gets its answer.
LEMMA OneMoves ==
    ASSUME IInv, NEW w \in Waits, Running(wait[w]), NEW q, Lands(wait[w], q),
           Move([wait EXCEPT ![w] = q], {}), UNCHANGED <<now, magic, flight, serverVars>>
    PROVE  IInv' /\ Patient
  <1> DEFINE new == [wait EXCEPT ![w] = q]
  <1>1. new \in [Waits -> WaitRecord] /\ new[w] = q /\ \A v \in Waits \ {w} : new[v] = wait[v]
    BY Facts DEF Lands
  <1>2. wait' = new
    BY DEF Move
  <1> HIDE DEF new
  <1>3. \A v \in Waits : Running(new[v]) => Running(wait[v])
    BY <1>1
  <1>4. \A v \in Waits : Goes(v)
    BY <1>1, <1>2 DEF Goes
  <1>5. FlightIsPunctual' /\ magic' \in BOOLEAN /\ flight' \in Nat \cup {NoTimer}
        /\ server' \in {"up", "closing", "closed"} /\ forceCloseTimer' \in Nat \cup {NoTimer}
    BY DEF IInv, TypeOK, FlightIsPunctual, serverVars
  <1> QED
    BY <1>1, <1>3, <1>4, <1>5, MovesStep DEF new

LEMMA RpcAnswersStep ==
    ASSUME IInv, NEW w \in Waits, NEW answer \in Answers, RpcAnswers(w, answer)
    PROVE  IInv' /\ Patient
  <1>1. Running(wait[w])
    BY DEF RpcAnswers, Running
  <1>2. Lands(wait[w], Answered(wait[w], answer))
    BY <1>1, Facts, AnsweredLands
  <1>3. Move([wait EXCEPT ![w] = Answered(wait[w], answer)], {})
        /\ UNCHANGED <<now, magic, flight, serverVars>>
    BY DEF RpcAnswers
  <1> QED
    BY <1>1, <1>2, <1>3, OneMoves

LEMMA RpcTimesOutStep ==
    ASSUME IInv, NEW w \in Waits, RpcTimesOut(w)
    PROVE  IInv' /\ Patient
  <1>1. Running(wait[w])
    BY DEF RpcTimesOut, Running
  <1>2. Lands(wait[w], Deadlined(wait[w]))
    BY <1>1, Facts, DeadlinedLands
  <1>3. Move([wait EXCEPT ![w] = Deadlined(wait[w])], {})
        /\ UNCHANGED <<now, magic, flight, serverVars>>
    BY DEF RpcTimesOut
  <1> QED
    BY <1>1, <1>2, <1>3, OneMoves


\* The wait that wakes up, and the others, when the request for the magic may begin.
LEMMA FlightForHolds ==
    ASSUME IInv, NEW q \in WaitRecord, now' = now, flight' = FlightFor(q)
    PROVE  /\ FlightIsPunctual' /\ flight' \in Nat \cup {NoTimer}
           /\ flight # NoTimer => flight' = flight
           /\ q.pc # "magic" => flight' = flight
           /\ /\ q.pc = "magic" /\ q.allotted >= 0 /\ now + q.allotted <= q.deadline
              => flight' # NoTimer /\ flight' + q.allotted <= q.deadline + RpcTimeout
  <1>1. now \in Nat /\ flight \in Nat \cup {NoTimer} /\ FlightIsPunctual
        /\ q.allotted \in Int /\ q.deadline \in Nat
    BY Facts DEF IInv, WaitRecord
  <1>2. CASE q.pc = "magic" /\ flight = NoTimer
    <2>1. flight' = now + RpcTimeout
      BY <1>2 DEF FlightFor
    <2>2. flight' \in Nat /\ flight' # NoTimer
      BY <1>1, <2>1, Numbers DEF NoTimer
    <2>3. now' <= flight' + Late /\ flight' <= now' + RpcTimeout
      BY <1>1, <2>1, Numbers
    <2>4. FlightIsPunctual'
      BY <2>3 DEF FlightIsPunctual
    <2>5. now + q.allotted <= q.deadline => flight' + q.allotted <= q.deadline + RpcTimeout
      BY <1>1, <2>1, Numbers
    <2> QED
      BY <1>2, <2>2, <2>4, <2>5
  <1>3. CASE ~(q.pc = "magic" /\ flight = NoTimer)
    <2>1. flight' = flight
      BY <1>3 DEF FlightFor
    <2>2. FlightIsPunctual'
      BY <1>1, <2>1 DEF FlightIsPunctual
    <2>3. flight # NoTimer /\ now + q.allotted <= q.deadline
          => flight + q.allotted <= q.deadline + RpcTimeout
      BY <1>1, Numbers DEF FlightIsPunctual
    <2> QED
      BY <1>1, <1>3, <2>1, <2>2, <2>3
  <1> QED
    BY <1>2, <1>3

LEMMA PollEndsStep ==
    ASSUME IInv, NEW w \in Waits, PollEnds(w)
    PROVE  IInv' /\ Patient
  <1> DEFINE q == AskHeight(wait[w])
             new == [wait EXCEPT ![w] = q]
  <1>1. Running(wait[w]) /\ wait[w] \in WaitRecord /\ wait[w].verdict = "none" /\ now \in Nat
    BY Facts DEF PollEnds, Running
  <1>2. \/ Lands(wait[w], q)
        \/ /\ q \in WaitRecord /\ q.pc = "magic" /\ q.verdict = "none"
           /\ q.allotted >= 0 /\ now + q.allotted <= q.deadline
    BY <1>1, AskHeightStands
  <1>3. /\ Move(new, {}) /\ UNCHANGED <<now, magic, serverVars>>
        /\ wait' = new /\ flight' = FlightFor(wait'[w])
    BY DEF PollEnds, Move
  <1> HIDE DEF q
  <1>4. new \in [Waits -> WaitRecord] /\ new[w] = q /\ \A v \in Waits \ {w} : new[v] = wait[v]
    BY <1>2, Facts DEF Lands
  <1> HIDE DEF new
  <1>5. q \in WaitRecord /\ flight' = FlightFor(q)
    BY <1>2, <1>3, <1>4 DEF Lands
  <1>6. /\ FlightIsPunctual' /\ flight' \in Nat \cup {NoTimer}
        /\ flight # NoTimer => flight' = flight
        /\ q.pc # "magic" => flight' = flight
        /\ /\ q.pc = "magic" /\ q.allotted >= 0 /\ now + q.allotted <= q.deadline
           => flight' # NoTimer /\ flight' + q.allotted <= q.deadline + RpcTimeout
    BY <1>3, <1>5, FlightForHolds
  <1>7. Goes(w)
    BY <1>2, <1>3, <1>4, <1>6 DEF Goes, HeldUp
  <1>8. ASSUME NEW v \in Waits \ {w}
        PROVE  Goes(v)
    BY <1>3, <1>4, <1>6 DEF Goes, IInv, Stands, Running, HeldUp
  <1>9. \A v \in Waits : Running(new[v]) => Running(wait[v])
    BY <1>1, <1>4
  <1>10. magic' \in BOOLEAN /\ server' \in {"up", "closing", "closed"}
         /\ forceCloseTimer' \in Nat \cup {NoTimer}
    BY <1>3 DEF IInv, TypeOK, serverVars
  <1>11. \A v \in Waits : Goes(v)
    BY <1>7, <1>8
  <1> QED
    BY <1>3, <1>4, <1>6, <1>9, <1>10, <1>11, MovesStep

\* A wait as it begins.
LEMMA FreshTyped ==
    ASSUME NEW d \in Nat, NEW l
    PROVE  LET fresh == [NotStarted EXCEPT !.deadline = d, !.log = (l \in WithLog)] IN
           fresh \in WaitRecord /\ fresh.verdict = "none" /\ fresh.deadline = d /\ ~fresh.aborted
  <1>1. ~NotStarted.aborted
    BY DEF NotStarted
  <1>2. ASSUME NEW b \in BOOLEAN
        PROVE  LET q == [NotStarted EXCEPT !.deadline = d, !.log = b] IN
               q \in WaitRecord /\ q.verdict = "none" /\ q.deadline = d /\ ~q.aborted
    BY <1>1, NotStartedTyped DEF WaitRecord
  <1>3. (l \in WithLog) \in BOOLEAN
    OBVIOUS
  <1> QED
    BY <1>2, <1>3, Zenon

\* A refused wait is over at once and holds nothing.
LEMMA RefusedStep ==
    ASSUME IInv, NEW w \in Waits, NEW timeoutMs \in Timeouts, Start(w, timeoutMs),
           activeTransactionWaits >= MaxWaits
    PROVE  IInv' /\ Patient
  <1> DEFINE fresh == [NotStarted EXCEPT !.deadline = now + timeoutMs, !.log = (w \in WithLog)]
             q == Over(fresh, "refused")
             new == [wait EXCEPT ![w] = q]
  <1>0. now \in Nat /\ now + timeoutMs \in Nat
    BY Facts, Numbers
  <1>1. fresh \in WaitRecord
    BY <1>0, FreshTyped
  <1>2. /\ wait[w].pc = "idle" /\ wait' = new
        /\ UNCHANGED <<now, magic, flight, activeTransactionWaits, open, serverVars>>
    BY DEF Start, Over
  <1> HIDE DEF fresh
  <1>3. q \in WaitRecord /\ q.pc = "over" /\ q.verdict = "refused"
    BY <1>1, NotStartedTyped DEF Over, WaitRecord, Verdicts
  <1> HIDE DEF q
  <1>4. new \in [Waits -> WaitRecord] /\ new[w] = q /\ \A v \in Waits \ {w} : new[v] = wait[v]
    BY <1>3, Facts
  <1> HIDE DEF new
  <1>5. Ended(new) = {}
    BY <1>2, <1>4 DEF Ended, Active, Running
  <1>6. Move(new, {})
    <2>1. Cardinality(Ended(new)) = 0
      BY <1>5, FS_EmptySet
    <2>2. activeTransactionWaits \in Int
      BY DEF IInv, TypeOK
    <2> QED
      BY <1>2, <1>5, <2>1, <2>2 DEF Move
  <1>7. \A v \in Waits : Running(new[v]) => Running(wait[v])
    BY <1>3, <1>4 DEF Running
  <1>8. \A v \in Waits : Goes(v)
    BY <1>2, <1>3, <1>4 DEF Goes
  <1>9. FlightIsPunctual' /\ magic' \in BOOLEAN /\ flight' \in Nat \cup {NoTimer}
        /\ server' \in {"up", "closing", "closed"} /\ forceCloseTimer' \in Nat \cup {NoTimer}
    BY <1>2 DEF IInv, TypeOK, FlightIsPunctual, serverVars
  <1> QED
    BY <1>2, <1>4, <1>6, <1>7, <1>8, <1>9, MovesStep

\* An admitted wait takes the slot the guard has found free.
LEMMA AdmittedStep ==
    ASSUME IInv, NEW w \in Waits, NEW timeoutMs \in Timeouts, Start(w, timeoutMs),
           ~(activeTransactionWaits >= MaxWaits)
    PROVE  IInv' /\ Patient
  <1> DEFINE fresh == [NotStarted EXCEPT !.deadline = now + timeoutMs, !.log = (w \in WithLog)]
             q == AskHeight(fresh)
             new == [wait EXCEPT ![w] = q]
  <1>0. now \in Nat /\ now + timeoutMs \in Nat /\ now < now + timeoutMs
    BY Facts, Numbers, WaitConstants
  <1>1. fresh \in WaitRecord /\ fresh.verdict = "none" /\ fresh.deadline = now + timeoutMs
        /\ ~fresh.aborted
    BY <1>0, FreshTyped
  <1>2. /\ wait[w].pc = "idle" /\ wait' = new
        /\ activeTransactionWaits' = activeTransactionWaits + 1
        /\ open' = (open \cup ({w} \cap Requests)) \ {v \in {w} : ~Running(wait'[w])}
        /\ flight' = FlightFor(wait'[w])
        /\ UNCHANGED <<now, magic, serverVars>>
    BY DEF Start
  <1> HIDE DEF fresh
  <1>3. Running(q)
    BY <1>0, <1>1, FreshRuns
  <1>4. \/ Lands(fresh, q)
        \/ /\ q \in WaitRecord /\ q.pc = "magic" /\ q.verdict = "none"
           /\ q.allotted >= 0 /\ now + q.allotted <= q.deadline
    BY <1>0, <1>1, AskHeightStands
  <1> HIDE DEF q
  <1>5. q \in WaitRecord /\ q.verdict = "none"
        /\ (q.pc # "magic" => Timed(q) /\ q.pc \in {"rpc", "polling"})
    BY <1>3, <1>4 DEF Lands, Running
  <1>6. new \in [Waits -> WaitRecord] /\ new[w] = q /\ \A v \in Waits \ {w} : new[v] = wait[v]
    BY <1>5, Facts
  <1> HIDE DEF new
  <1>7. /\ FlightIsPunctual' /\ flight' \in Nat \cup {NoTimer}
        /\ flight # NoTimer => flight' = flight
        /\ q.pc # "magic" => flight' = flight
        /\ /\ q.pc = "magic" /\ q.allotted >= 0 /\ now + q.allotted <= q.deadline
           => flight' # NoTimer /\ flight' + q.allotted <= q.deadline + RpcTimeout
    BY <1>2, <1>5, <1>6, FlightForHolds
  <1>8. Active' = Active \cup {w} /\ w \notin Active
    BY <1>2, <1>3, <1>6 DEF Active, Running
  <1>9. SlotsAreExact' /\ activeTransactionWaits' \in Int
    <2>1. IsFiniteSet(Active) /\ Cardinality(Active) \in Nat
      BY Numbers, FS_Subset, FS_CardinalityType DEF Active
    <2>2. Cardinality(Active') = Cardinality(Active) + 1
      BY <1>8, <2>1, FS_AddElement
    <2>3. activeTransactionWaits = Cardinality(Active)
      BY DEF IInv, SlotsAreExact
    <2> QED
      BY <1>2, <2>1, <2>2, <2>3, Numbers DEF SlotsAreExact
  <1>10. (open \subseteq Active \cap Requests)'
    BY <1>2, <1>8 DEF IInv, TypeOK
  <1>11. Goes(w)
    <2>1. CASE q.pc = "magic"
      BY <1>2, <1>4, <1>6, <1>7, <2>1 DEF Goes, HeldUp, Lands
    <2>2. CASE q.pc # "magic"
      BY <1>2, <1>5, <1>6, <2>2 DEF Goes, Lands
    <2> QED
      BY <2>1, <2>2
  <1>12. ASSUME NEW v \in Waits \ {w}
         PROVE  Goes(v)
    BY <1>2, <1>6, <1>7 DEF Goes, IInv, Stands, Running, HeldUp
  <1>13. (\A v \in Waits : Stands(wait[v])') /\ Patient
    BY <1>2, <1>11, <1>12, WaitsStep
  <1>14. TypeOK'
    BY <1>2, <1>6, <1>7, <1>9, <1>10 DEF IInv, TypeOK, serverVars, WaitRecord
  <1> QED
    BY <1>7, <1>9, <1>13, <1>14 DEF IInv

LEMMA StartStep ==
    ASSUME IInv, NEW w \in Waits, NEW timeoutMs \in Timeouts, Start(w, timeoutMs)
    PROVE  IInv' /\ Patient
  BY RefusedStep, AdmittedStep

\* All who wait for the magic resume at once, each with the time its step was given.
LEMMA FlightEndsStep ==
    ASSUME IInv, NEW outcome \in Answers \cup {"deadline"}, FlightEnds(outcome)
    PROVE  IInv' /\ Patient
  <1> DEFINE new == [w \in Waits |-> Landed(wait[w], outcome)]
  <1>1. now \in Nat /\ flight \in Nat /\ now <= flight + Late
    BY Facts DEF FlightEnds, IInv, FlightIsPunctual
  <1>2. /\ magic' = (outcome = "ok") /\ flight' = NoTimer /\ wait' = new /\ Move(new, {})
        /\ UNCHANGED <<now, serverVars>>
    BY DEF FlightEnds, Move
  <1>3. ASSUME NEW w \in Waits, wait[w].pc = "magic"
        PROVE  Lands(wait[w], Landed(wait[w], outcome)) /\ Running(wait[w])
    <2>1. Running(wait[w]) /\ wait[w] \in WaitRecord /\ wait[w].verdict = "none"
      BY <1>3, Facts DEF Running
    <2>2. HeldUp(wait[w])
      BY <1>3, <2>1 DEF IInv, Stands
    <2>3. wait[w].allotted \in Int /\ wait[w].deadline \in Nat
      BY <2>1 DEF WaitRecord
    <2>4. Going(wait[w])
      BY <1>1, <2>1, <2>2, <2>3, Numbers DEF Going, HeldUp
    <2>5. CASE outcome = "ok"
      <3>1. Landed(wait[w], outcome) = Ask(wait[w])
        BY <1>3, <2>5 DEF Landed
      <3> QED
        BY <1>1, <2>1, <2>4, <3>1, AskLands
    <2>6. CASE outcome = "failure"
      BY <1>3, <2>1, <2>6, OverLands DEF Landed, Verdicts
    <2>7. CASE outcome = "retryable"
      BY <1>1, <1>3, <2>1, <2>7, SleepLands DEF Landed
    <2>8. CASE outcome = "deadline"
      BY <1>1, <1>3, <2>1, <2>8, DeadlinedLands DEF Landed
    <2> QED
      BY <2>1, <2>5, <2>6, <2>7, <2>8 DEF Answers
  <1>4. ASSUME NEW w \in Waits, wait[w].pc # "magic"
        PROVE  Landed(wait[w], outcome) = wait[w]
    BY <1>4 DEF Landed
  <1>5. new \in [Waits -> WaitRecord] /\ \A w \in Waits : new[w] = Landed(wait[w], outcome)
    BY <1>3, <1>4, Facts DEF Lands
  <1> HIDE DEF new
  <1>6. \A w \in Waits : Running(new[w]) => Running(wait[w])
    BY <1>3, <1>4, <1>5
  <1>7. \A w \in Waits : Goes(w)
    BY <1>2, <1>3, <1>4, <1>5 DEF Goes
  <1>8. FlightIsPunctual' /\ magic' \in BOOLEAN /\ flight' \in Nat \cup {NoTimer}
        /\ server' \in {"up", "closing", "closed"} /\ forceCloseTimer' \in Nat \cup {NoTimer}
    BY <1>2 DEF IInv, TypeOK, FlightIsPunctual, serverVars
  <1> QED
    BY <1>2, <1>5, <1>6, <1>7, <1>8, MovesStep

\* The abort of any set of running waits, whoever orders it.
LEMMA AbortStep ==
    ASSUME IInv, NEW set \in SUBSET Active, NEW cut, Abort(set, cut),
           UNCHANGED <<now, magic, flight>>,
           server' \in {"up", "closing", "closed"}, forceCloseTimer' \in Nat \cup {NoTimer}
    PROVE  IInv' /\ Patient
  <1> DEFINE new == [w \in Waits |-> IF w \in set THEN Aborted(wait[w]) ELSE wait[w]]
  <1>1. Move(new, cut) /\ wait' = new
    BY DEF Abort, Move
  <1>2. ASSUME NEW w \in set
        PROVE  LET q == Aborted(wait[w]) IN
               /\ w \in Waits /\ Running(wait[w])
               /\ q \in WaitRecord /\ q.verdict # "unconfirmed"
               /\ \/ q.pc = "over"
                  \/ /\ wait[w].pc = "magic" /\ q.pc = "magic" /\ q.verdict = "none"
                     /\ q.allotted = wait[w].allotted /\ q.deadline = wait[w].deadline
    <2>1. w \in Waits /\ Running(wait[w])
      BY DEF Active
    <2>2. wait[w] \in WaitRecord /\ wait[w].verdict = "none"
      BY <2>1, Facts
    <2> QED
      BY <2>1, <2>2, AbortedStands
  <1>3. /\ new \in [Waits -> WaitRecord]
        /\ \A w \in set : new[w] = Aborted(wait[w])
        /\ \A w \in Waits \ set : new[w] = wait[w]
    BY <1>2, Facts
  <1> HIDE DEF new
  <1>4. \A w \in Waits : Running(new[w]) => Running(wait[w])
    BY <1>2, <1>3
  <1>5. ASSUME NEW w \in set
        PROVE  Goes(w)
    <2>1. CASE new[w].pc = "over"
      BY <1>1, <1>2, <1>3, <2>1 DEF Goes
    <2>2. CASE new[w].pc # "over"
      <3>1. /\ wait[w].pc = "magic" /\ new[w].pc = "magic" /\ new[w].verdict = "none"
            /\ new[w].allotted = wait[w].allotted /\ new[w].deadline = wait[w].deadline
        BY <1>2, <1>3, <2>2
      <3>2. HeldUp(wait[w])
        BY <1>2, <3>1 DEF IInv, Stands
      <3>3. HeldUp(wait[w])'
        BY <1>1, <3>1, <3>2 DEF HeldUp
      <3> QED
        BY <1>1, <3>1, <3>3 DEF Goes
    <2> QED
      BY <2>1, <2>2
  <1>6. \A w \in Waits : Goes(w)
    BY <1>1, <1>3, <1>5 DEF Goes
  <1>7. FlightIsPunctual' /\ magic' \in BOOLEAN /\ flight' \in Nat \cup {NoTimer}
    BY DEF IInv, TypeOK, FlightIsPunctual
  <1> QED
    BY <1>1, <1>3, <1>4, <1>6, <1>7, MovesStep

LEMMA DisconnectStep ==
    ASSUME IInv, NEW w \in Waits, Disconnect(w)
    PROVE  IInv' /\ Patient
  <1>1. Abort({w} \cap Controllers, {w}) /\ UNCHANGED <<now, magic, flight, serverVars>>
    BY DEF Disconnect
  <1>2. {w} \cap Controllers \in SUBSET Active
    BY DEF Controllers
  <1> QED
    BY <1>1, <1>2, AbortStep DEF serverVars, IInv, TypeOK

LEMMA StopStep ==
    ASSUME IInv, Stop
    PROVE  IInv' /\ Patient
  <1>1. Abort(Controllers, {}) /\ UNCHANGED <<now, magic, flight>>
    BY DEF Stop
  <1>2. Controllers \in SUBSET Active
    BY DEF Controllers
  <1>3. server' \in {"up", "closing", "closed"} /\ forceCloseTimer' \in Nat \cup {NoTimer}
    BY Facts, Numbers DEF Stop, serverVars, IInv, TypeOK
  <1> QED
    BY <1>1, <1>2, <1>3, AbortStep

LEMMA ForceCloseStep ==
    ASSUME IInv, ForceClose
    PROVE  IInv' /\ Patient
  <1>1. Abort(open \cap Controllers, open) /\ UNCHANGED <<now, magic, flight, server>>
        /\ forceCloseTimer' = NoTimer
    BY DEF ForceClose
  <1>2. open \cap Controllers \in SUBSET Active
    BY DEF Controllers
  <1> QED
    BY <1>1, <1>2, AbortStep DEF IInv, TypeOK

\* Steps that leave the waits alone.
LEMMA ClosedStep ==
    ASSUME IInv, Closed
    PROVE  IInv' /\ Patient
  <1>1. TypeOK'
    BY DEF IInv, TypeOK, Closed, Active
  <1>2. SlotsAreExact' /\ FlightIsPunctual'
    BY DEF IInv, SlotsAreExact, FlightIsPunctual, Closed, Active
  <1>3. \A w \in Waits : Stands(wait[w])'
    BY DEF IInv, Closed, Stands, HeldUp, Timed
  <1>4. Patient
    BY DEF IInv, Closed, Stands, Active, Patient
  <1> QED
    BY <1>1, <1>2, <1>3, <1>4 DEF IInv

\* Time passes only while no timer is later than it may be.
LEMMA TickStep ==
    ASSUME IInv, Tick
    PROVE  IInv' /\ Patient
  <1>1. now \in Nat /\ now' = now + 1
        /\ UNCHANGED <<magic, flight, wait, activeTransactionWaits, open, serverVars>>
    BY Facts DEF Tick
  <1>2. TypeOK'
    BY <1>1 DEF IInv, TypeOK, Active, serverVars
  <1>3. SlotsAreExact'
    BY <1>1 DEF IInv, SlotsAreExact, Active
  <1>4. FlightIsPunctual'
    BY <1>1, Numbers, Facts DEF IInv, FlightIsPunctual, Tick
  <1>5. ASSUME NEW w \in Waits
        PROVE  Stands(wait[w])'
    <2>1. CASE Running(wait[w]) /\ wait[w].pc # "magic"
      <3>1. wait[w].timer \in Nat /\ now < wait[w].timer + Late /\ Timed(wait[w]) /\ wait[w].verdict = "none"
        BY <2>1, Facts DEF Tick, Active, WaitRecord, IInv, Stands
      <3>2. now' <= wait'[w].timer + Late
        BY <1>1, <3>1, Numbers
      <3>3. Timed(wait[w])'
        BY <1>1, <3>1, <3>2 DEF Timed
      <3> QED
        BY <1>1, <2>1, <3>1, <3>3 DEF Stands
    <2>2. CASE Running(wait[w]) /\ wait[w].pc = "magic"
      BY <1>1, <2>2 DEF IInv, Stands, HeldUp
    <2>3. CASE ~Running(wait[w])
      BY <1>1, <2>3 DEF Stands
    <2> QED
      BY <2>1, <2>2, <2>3
  <1>6. Patient
    BY <1>1 DEF IInv, Stands, Active, Patient
  <1> QED
    BY <1>2, <1>3, <1>4, <1>5, <1>6 DEF IInv

-----------------------------------------------------------------------------
(* The theorems.                                                           *)

LEMMA Initially == Init => IInv
  <1> SUFFICES ASSUME Init PROVE IInv
    OBVIOUS
  <1>1. \A w \in Waits : wait[w].pc = "idle" /\ ~Running(wait[w])
    BY NotStartedTyped DEF Init, Running
  <1>2. Active = {}
    BY <1>1 DEF Active
  <1>3. TypeOK
    <2>1. wait \in [Waits -> WaitRecord]
      BY NotStartedTyped DEF Init
    <2>2. open \subseteq Active \cap Requests
      BY <1>2 DEF Init
    <2>3. magic \in BOOLEAN
      BY DEF Init
    <2>4. now \in Nat /\ flight \in Nat \cup {NoTimer} /\ activeTransactionWaits \in Int
          /\ server \in {"up", "closing", "closed"} /\ forceCloseTimer \in Nat \cup {NoTimer}
      BY DEF Init
    <2> QED
      BY <2>1, <2>2, <2>3, <2>4 DEF TypeOK, WaitRecord
  <1>4. SlotsAreExact
    BY <1>2, FS_EmptySet, Numbers DEF Init, SlotsAreExact
  <1> QED
    BY <1>1, <1>3, <1>4 DEF Init, IInv, FlightIsPunctual, Stands

LEMMA Inductive == IInv /\ [Next]_vars => IInv' /\ [Patient]_vars
  <1> SUFFICES ASSUME IInv, [Next]_vars PROVE IInv' /\ [Patient]_vars
    OBVIOUS
  <1>1. CASE Next
    <2>1. ASSUME NEW w \in Waits, NEW timeoutMs \in Timeouts, Start(w, timeoutMs)
          PROVE  IInv' /\ Patient
      BY <2>1, StartStep
    <2>2. ASSUME NEW w \in Waits, NEW answer \in Answers, RpcAnswers(w, answer)
          PROVE  IInv' /\ Patient
      BY <2>2, RpcAnswersStep
    <2>3. ASSUME NEW w \in Waits, Timer(w)
          PROVE  IInv' /\ Patient
      BY <2>3, RpcTimesOutStep, PollEndsStep DEF Timer
    <2>4. ASSUME NEW w \in Waits, Disconnect(w)
          PROVE  IInv' /\ Patient
      BY <2>4, DisconnectStep
    <2>5. ASSUME NEW outcome \in Answers \cup {"deadline"}, FlightEnds(outcome)
          PROVE  IInv' /\ Patient
      BY <2>5, FlightEndsStep
    <2> QED
      BY <1>1, <2>1, <2>2, <2>3, <2>4, <2>5, StopStep, ClosedStep, ForceCloseStep, TickStep DEF Next
  <1>2. CASE UNCHANGED vars
    <2>1. TypeOK'
      BY <1>2 DEF IInv, TypeOK, vars, Active
    <2>2. SlotsAreExact' /\ FlightIsPunctual'
      BY <1>2 DEF IInv, SlotsAreExact, FlightIsPunctual, vars, Active
    <2>3. \A w \in Waits : Stands(wait[w])'
      BY <1>2 DEF IInv, vars, Stands, HeldUp, Timed
    <2> QED
      BY <1>2, <2>1, <2>2, <2>3 DEF IInv
  <1> QED
    BY <1>1, <1>2

LEMMA Invariantly == Spec => []IInv
  <1>1. IInv /\ [Next]_vars => IInv'
    BY Inductive
  <1> QED
    BY Initially, <1>1, PTL DEF Spec

\* Every variable keeps its type, and only a running HTTP wait has an open connection.
THEOREM Typed == Spec => []TypeOK
  <1>1. IInv => TypeOK
    BY DEF IInv
  <1> QED
    BY Invariantly, <1>1, PTL

\* The count of waits is the number of waits that run, and never above the cap, however
\* waits end: finally of waitForTransaction() neither forgets a slot nor returns one twice.
THEOREM Slots == Spec => []SlotsAreExact
  <1>1. IInv => SlotsAreExact
    BY DEF IInv
  <1> QED
    BY Invariantly, <1>1, PTL

\* The shared request for the network magic, which has no part in the deadline of the wait,
\* costs a wait one RPC timeout at most.
THEOREM Overrun == Spec => []OverrunIsOneTimeout
  <1>1. ASSUME IInv
        PROVE  OverrunIsOneTimeout
    <2> SUFFICES ASSUME NEW w \in Active
                 PROVE  now <= wait[w].deadline + RpcTimeout + 2 * Late
      BY DEF OverrunIsOneTimeout
    <2>1. w \in Waits /\ Running(wait[w])
      BY DEF Active
    <2>2. now \in Nat /\ wait[w].deadline \in Nat /\ wait[w].allotted \in Int /\ wait[w].timer \in Nat
          /\ flight \in Nat \cup {NoTimer} /\ Stands(wait[w]) /\ FlightIsPunctual
      BY <1>1, <2>1, Facts DEF WaitRecord, IInv
    <2>3. CASE wait[w].pc = "magic"
      <3>1. HeldUp(wait[w])
        BY <2>1, <2>2, <2>3 DEF Stands
      <3>2. flight \in Nat /\ now <= flight + Late
        BY <2>2, <3>1 DEF HeldUp, FlightIsPunctual
      <3>3. flight <= wait[w].deadline + RpcTimeout
        BY <2>2, <3>1, <3>2, Numbers DEF HeldUp
      <3> QED
        BY <2>2, <3>2, <3>3, Numbers
    <2>4. CASE wait[w].pc # "magic"
      <3>1. Timed(wait[w])
        BY <2>1, <2>2, <2>4 DEF Stands
      <3>2. now <= wait[w].timer + Late /\ wait[w].timer <= wait[w].deadline + RpcTimeout + Late
        BY <3>1 DEF Timed
      <3> QED
        BY <2>2, <3>2, Numbers
    <2> QED
      BY <2>3, <2>4
  <1> QED
    BY Invariantly, <1>1, PTL

\* An abort, by the client or by stop(), ends a wait at once unless it awaits the magic.
THEOREM AbortFrees == Spec => []AbortFreesSlot
  <1>1. ASSUME IInv
        PROVE  AbortFreesSlot
    BY <1>1 DEF AbortFreesSlot, IInv, Stands, HeldUp, Timed, Active
  <1> QED
    BY Invariantly, <1>1, PTL

\* No step of any actor says "not confirmed" of a wait whose time is not over.
THEOREM NeverTooEarly == Spec => UnconfirmedIsLate
  <1>1. IInv /\ [Next]_vars => [\A w \in Active : wait'[w].verdict = "unconfirmed"
                                                  => now >= wait[w].deadline]_vars
    BY Inductive DEF Patient
  <1> QED
    BY Invariantly, <1>1, PTL DEF Spec, UnconfirmedIsLate
================================================================================
