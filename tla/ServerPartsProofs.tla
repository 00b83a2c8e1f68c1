--------------------------- MODULE ServerPartsProofs ---------------------------
(***************************************************************************)
(* Proofs about the parts of ServerParts, for any values of their          *)
(* constants.  First McpHttpServer, which the whole extends; then, that a  *)
(* behaviour of the whole is a behaviour of each part; then an inductive   *)
(* invariant of each part, the one of the registry being that of           *)
(* ToolDispatchProofs; and at the end what follows for the whole.          *)
(***************************************************************************)
EXTENDS ToolDispatchProofs, NumbersAndLists

-----------------------------------------------------------------------------
(* McpHttpServer: the inductive invariant.                                 *)

\* What holds of a process that runs: its configuration was accepted.
Configured == Alive => OptionsAccepted(options)

IInv == TypeOK /\ SlotsAreExact /\ ServedAsPromised /\ Configured

CallRecord == [pc : {"idle", "reading", "handling", "over"}, status : Nat,
               size : 0 .. maxBodyBytes, open : BOOLEAN, token : BOOLEAN,
               key : {"none", "loopback", "client", "claimed"},
               peer : {"none", "loopback", "client"}, writes : BOOLEAN]
Holders == {c \in Calls : Holding(c)}

-----------------------------------------------------------------------------
(* McpHttpServer: holders come and go one at a time.                       *)

LEMMA HoldersFinite == IsFiniteSet(Holders)
  BY McpConstants, FS_Subset DEF Holders

\* A record that is written into one call.
LEMMA CallTyped ==
    ASSUME TypeOK, NEW c \in Calls, NEW r \in CallRecord
    PROVE  [call EXCEPT ![c] = r] \in [Calls -> CallRecord]
  BY DEF TypeOK, CallRecord

LEMMA IdleTyped == Idle \in CallRecord /\ \A s \in Nat : [Idle EXCEPT !.pc = "over", !.status = s] \in CallRecord
  <1>1. 0 \in 0 .. maxBodyBytes
    BY McpConstants
  <1>2. Idle \in CallRecord
    BY <1>1 DEF Idle, CallRecord
  <1>3. ASSUME NEW s \in Nat
        PROVE  [Idle EXCEPT !.pc = "over", !.status = s] \in CallRecord
    BY <1>2 DEF CallRecord
  <1> QED
    BY <1>2, <1>3

\* The slot of a request is given back.
LEMMA ReleaseStep ==
    ASSUME IInv, NEW c \in Calls, Holding(c), NEW s \in Nat, Release(c, s),
           UNCHANGED <<options, process, writesEnabled>>
    PROVE  IInv'
  <1> DEFINE r == [Idle EXCEPT !.pc = "over", !.status = s]
  <1>1. /\ r \in CallRecord /\ r.pc = "over"
        /\ call' = [call EXCEPT ![c] = r]
        /\ activeRequests' = activeRequests - 1
    BY IdleTyped DEF Release, Answered, Idle
  <1> HIDE DEF r
  <1>2. call \in [Calls -> CallRecord] /\ activeRequests \in Int
    BY DEF IInv, TypeOK, CallRecord
  <1>3. \A d \in Calls : call'[d] = IF d = c THEN r ELSE call[d]
    BY <1>1, <1>2
  <1>4. TypeOK'
    <2>1. call' \in [Calls -> CallRecord]
      BY <1>1, CallTyped DEF IInv
    <2> QED
      BY <1>1, <1>2, <2>1 DEF IInv, TypeOK, CallRecord
  <1>5. SlotsAreExact'
    <2>1. Holders' = Holders \ {c} /\ c \in Holders
      BY <1>1, <1>3 DEF Holders, Holding
    <2>2. Cardinality(Holders') = Cardinality(Holders) - 1
      BY <2>1, HoldersFinite, FS_RemoveElement
    <2>3. activeRequests = Cardinality(Holders) /\ activeRequests <= maxConcurrentRequests
      BY DEF IInv, SlotsAreExact, Holders
    <2>4. activeRequests' = Cardinality(Holders') /\ activeRequests' <= maxConcurrentRequests
      BY <1>1, <1>2, <2>2, <2>3, McpConstants
    <2> QED
      BY <2>4 DEF SlotsAreExact, Holders
  <1>6. ServedAsPromised'
    BY <1>1, <1>3 DEF IInv, ServedAsPromised, Holding
  <1>7. Configured'
    BY DEF IInv, Configured, Alive, OptionsAccepted, BearerResolves
  <1> QED
    BY <1>4, <1>5, <1>6, <1>7 DEF IInv

\* A request that holds a slot keeps it, whatever else changes in it.
Kept ==
    \A d \in Calls : /\ Holding(d)' <=> Holding(d)
                     /\ call'[d].token = call[d].token /\ call'[d].peer = call[d].peer
                     /\ call'[d].key = call[d].key
                     /\ call'[d].writes \in {call[d].writes, FALSE}
Processes == {"created", "listening", "closing", "draining", "closed", "exited"}
LEMMA KeepStep ==
    ASSUME IInv, call' \in [Calls -> CallRecord],
           Kept,
           options' = options, activeRequests' = activeRequests, writesEnabled' \in BOOLEAN,
           process' \in Processes, Configured'
    PROVE  IInv'
  <1>1. TypeOK'
    BY DEF IInv, TypeOK, CallRecord, Processes
  <1>2. SlotsAreExact'
    <2>1. Holders' = Holders
      BY DEF Holders, Kept
    <2> QED
      BY <2>1 DEF IInv, SlotsAreExact, Holders
  <1>3. ServedAsPromised'
    <2> SUFFICES ASSUME NEW d \in Calls, Holding(d)'
                 PROVE  /\ options'.remote => call'[d].token
                        /\ call'[d].peer = "client" => call'[d].key = "client"
                        /\ ~call'[d].writes
      BY DEF ServedAsPromised
    <2> QED
      BY DEF IInv, ServedAsPromised, Kept
  <1> QED
    BY <1>1, <1>2, <1>3 DEF IInv

-----------------------------------------------------------------------------
(* McpHttpServer: the steps.                                               *)

LEMMA ArriveStep ==
    ASSUME IInv, NEW c \in Calls, NEW h \in Heads, Arrive(c, h)
    PROVE  IInv'
  <1>1. call \in [Calls -> CallRecord] /\ activeRequests \in Int
    BY DEF IInv, TypeOK, CallRecord
  <1>2. call[c].pc = "idle" /\ UNCHANGED <<options, process, writesEnabled>> /\ OptionsAccepted(options)
    BY DEF Arrive, Accepting, IInv, Configured, Alive
  <1>3. h \in RequestHeads
    BY McpConstants
  <1>4. CASE Refusal(h) # 0 \/ h.declared = "over"
    <2> DEFINE s == IF Refusal(h) # 0 THEN Refusal(h) ELSE 413
               r == [Idle EXCEPT !.pc = "over", !.status = s]
    <2>1. s \in Nat
      BY DEF Refusal
    <2>2. r \in CallRecord /\ r.pc = "over"
      BY <2>1, IdleTyped DEF Idle
    <2>3. call' = [call EXCEPT ![c] = r] /\ activeRequests' = activeRequests
      BY <1>4 DEF Arrive, Answered
    <2> HIDE DEF r, s
    <2>4. \A d \in Calls : call'[d] = IF d = c THEN r ELSE call[d]
      BY <1>1, <2>3
    <2>5. call' \in [Calls -> CallRecord]
      BY <2>2, <2>3, CallTyped DEF IInv
    <2>6. TypeOK'
      BY <1>2, <2>3, <2>5 DEF IInv, TypeOK, CallRecord
    <2>7. SlotsAreExact'
      <3>1. Holders' = Holders
        BY <1>2, <2>2, <2>4 DEF Holders, Holding
      <3> QED
        BY <2>3, <3>1 DEF IInv, SlotsAreExact, Holders
    <2>8. ServedAsPromised'
      BY <1>2, <2>2, <2>4 DEF IInv, ServedAsPromised, Holding
    <2>9. Configured'
      BY <1>2 DEF Configured, OptionsAccepted, BearerResolves
    <2> QED
      BY <2>6, <2>7, <2>8, <2>9 DEF IInv
  <1>5. CASE Refusal(h) = 0 /\ h.declared # "over"
    <2> DEFINE r == [Idle EXCEPT !.pc = "reading", !.open = TRUE, !.token = (h.auth = "token"),
                                 !.key = RateKey(h), !.peer = h.peer]
    <2>1. /\ r \in CallRecord /\ r.pc = "reading" /\ ~r.writes
          /\ r.token <=> h.auth = "token"
          /\ r.peer = "client" => r.key = "client"
      <3>1. h.peer \in {"loopback", "client"} /\ h.forwarded \in {"none", "claimed"}
        BY <1>3 DEF RequestHeads
      <3>2. RateKey(h) \in {"loopback", "client", "claimed"} /\ (h.peer = "client" => RateKey(h) = "client")
        BY <3>1 DEF RateKey
      <3>3. /\ r.pc = "reading" /\ ~r.writes /\ r.token = (h.auth = "token")
            /\ r.peer = h.peer /\ r.key = RateKey(h)
        BY DEF Idle
      <3>4. r \in CallRecord
        BY <3>1, <3>2, IdleTyped DEF Idle, CallRecord
      <3> HIDE DEF r
      <3> QED
        BY <3>2, <3>3, <3>4
    <2>2. call' = [call EXCEPT ![c] = r] /\ activeRequests' = activeRequests + 1
      BY <1>5 DEF Arrive
    <2> HIDE DEF r
    <2>3. \A d \in Calls : call'[d] = IF d = c THEN r ELSE call[d]
      BY <1>1, <2>2
    <2>4. TypeOK'
      <3>1. call' \in [Calls -> CallRecord]
        BY <2>1, <2>2, CallTyped DEF IInv
      <3> QED
        BY <1>1, <1>2, <2>2, <3>1 DEF IInv, TypeOK, CallRecord
    <2>5. SlotsAreExact'
      <3>1. Holders' = Holders \cup {c} /\ c \notin Holders
        BY <1>2, <2>1, <2>3 DEF Holders, Holding
      <3>2. Cardinality(Holders') = Cardinality(Holders) + 1
        BY <3>1, HoldersFinite, FS_AddElement
      <3>3. activeRequests = Cardinality(Holders)
        BY DEF IInv, SlotsAreExact, Holders
      <3>4. activeRequests < maxConcurrentRequests
        BY <1>5 DEF Refusal, CapacityLeft
      <3>5. activeRequests' = Cardinality(Holders') /\ activeRequests' <= maxConcurrentRequests
        BY <1>1, <2>2, <3>2, <3>3, <3>4, McpConstants
      <3> QED
        BY <3>5 DEF SlotsAreExact, Holders
    <2>6. ServedAsPromised'
      <3>1. options.remote => h.auth = "token"
        BY <1>2, <1>5 DEF Refusal, Authorized, OptionsAccepted, BearerResolves
      <3> QED
        BY <1>2, <2>1, <2>3, <3>1 DEF IInv, ServedAsPromised, Holding
    <2>7. Configured'
      BY <1>2 DEF Configured, OptionsAccepted, BearerResolves
    <2> QED
      BY <2>4, <2>5, <2>6, <2>7 DEF IInv
  <1> QED
    BY <1>4, <1>5

LEMMA ServeStep ==
    ASSUME IInv, NEW c \in Calls, Serve(c)
    PROVE  IInv'
  <1>1. call \in [Calls -> CallRecord] /\ writesEnabled \in BOOLEAN
    BY DEF IInv, TypeOK, CallRecord
  <1>2. CASE \E h \in Heads : Arrive(c, h)
    BY <1>2, ArriveStep
  <1>3. CASE Data(c)
    <2>1. CASE call[c].size + 1 > maxBodyBytes
      BY <1>3, <2>1, ReleaseStep DEF Data, Holding
    <2>2. CASE ~(call[c].size + 1 > maxBodyBytes)
      <3>1. call' = [call EXCEPT ![c].size = @ + 1] /\ UNCHANGED <<options, process, activeRequests, writesEnabled>>
        BY <1>3, <2>2 DEF Data
      <3>2. call[c].size \in 0 .. maxBodyBytes
        BY <1>1 DEF CallRecord
      <3>3. call[c].size + 1 \in 0 .. maxBodyBytes
        BY <2>2, <3>2, McpConstants
      <3>4. call' \in [Calls -> CallRecord]
        <4> DEFINE r == [call[c] EXCEPT !.size = @ + 1]
        <4>1. call[c] \in CallRecord
          BY <1>1
        <4>2. r \in CallRecord
          BY <3>3, <4>1 DEF CallRecord
        <4>3. call' = [call EXCEPT ![c] = r]
          BY <3>1
        <4> HIDE DEF r
        <4> QED
          BY <4>2, <4>3, CallTyped DEF IInv
      <3>5. Kept
        BY <1>1, <3>1 DEF Kept, Holding, CallRecord
      <3> QED
        <4>1. /\ options' = options /\ activeRequests' = activeRequests /\ writesEnabled' \in BOOLEAN
              /\ process' \in Processes /\ Configured'
          BY <1>1, <3>1 DEF IInv, TypeOK, Processes, Configured, Alive, OptionsAccepted, BearerResolves
        <4> QED
          BY <3>4, <3>5, <4>1, KeepStep
    <2> QED
      BY <2>1, <2>2
  <1>4. CASE BodyError(c)
    BY <1>4, ReleaseStep DEF BodyError, Holding
  <1>5. CASE BodyTimeout(c)
    BY <1>5, ReleaseStep DEF BodyTimeout, Holding
  <1>6. CASE Hangup(c)
    <2>1. call' = [call EXCEPT ![c].open = FALSE] /\ UNCHANGED <<options, process, activeRequests, writesEnabled>>
      BY <1>6 DEF Hangup
    <2>2. call' \in [Calls -> CallRecord]
      <3> DEFINE r == [call[c] EXCEPT !.open = FALSE]
      <3>1. call[c] \in CallRecord
        BY <1>1
      <3>2. r \in CallRecord
        BY <3>1 DEF CallRecord
      <3>3. call' = [call EXCEPT ![c] = r]
        BY <2>1
      <3> HIDE DEF r
      <3> QED
        BY <3>2, <3>3, CallTyped DEF IInv
    <2>3. Kept
      <3>1. \A d \in Calls : /\ call'[d].pc = call[d].pc /\ call'[d].token = call[d].token
                            /\ call'[d].peer = call[d].peer /\ call'[d].key = call[d].key
                            /\ call'[d].writes = call[d].writes
        <4> SUFFICES ASSUME NEW d \in Calls
                     PROVE  /\ call'[d].pc = call[d].pc /\ call'[d].token = call[d].token
                            /\ call'[d].peer = call[d].peer /\ call'[d].key = call[d].key
                            /\ call'[d].writes = call[d].writes
          OBVIOUS
        <4>1. call[d] \in CallRecord
          BY <1>1
        <4>2. call'[d] = call[d] \/ call'[d] = [call[d] EXCEPT !.open = FALSE]
          BY <1>1, <2>1
        <4> QED
          BY <4>1, <4>2 DEF CallRecord
      <3>2. \A d \in Calls : call[d].writes \in BOOLEAN
        BY <1>1 DEF CallRecord
      <3> QED
        BY <3>1, <3>2 DEF Kept, Holding
    <2> QED
      <3>1. /\ options' = options /\ activeRequests' = activeRequests /\ writesEnabled' \in BOOLEAN
            /\ process' \in Processes /\ Configured'
        BY <1>1, <2>1 DEF IInv, TypeOK, Processes, Configured, Alive, OptionsAccepted, BearerResolves
      <3> QED
        BY <2>2, <2>3, <3>1, KeepStep
  <1>7. CASE \E valid \in BOOLEAN : End(c, valid)
    <2>1. PICK valid \in BOOLEAN : End(c, valid)
      BY <1>7
    <2>2. CASE valid
      <3>1. /\ call' = [call EXCEPT ![c].pc = "handling", ![c].writes = FALSE]
            /\ call[c].pc = "reading"
            /\ UNCHANGED <<options, process, activeRequests, writesEnabled>>
        BY <2>1, <2>2 DEF End, Server
      <3>2. call' \in [Calls -> CallRecord]
        <4> DEFINE r == [call[c] EXCEPT !.pc = "handling", !.writes = FALSE]
        <4>1. call[c] \in CallRecord
          BY <1>1
        <4>2. r \in CallRecord
          BY <4>1 DEF CallRecord
        <4>3. call' = [call EXCEPT ![c] = r]
          BY <3>1
        <4> HIDE DEF r
        <4> QED
          BY <4>2, <4>3, CallTyped DEF IInv
      <3>3. Kept
        BY <1>1, <3>1 DEF Kept, Holding, CallRecord
      <3> QED
        <4>1. /\ options' = options /\ activeRequests' = activeRequests /\ writesEnabled' \in BOOLEAN
              /\ process' \in Processes /\ Configured'
          BY <1>1, <3>1 DEF IInv, TypeOK, Processes, Configured, Alive, OptionsAccepted, BearerResolves
        <4> QED
          BY <3>2, <3>3, <4>1, KeepStep
    <2>3. CASE ~valid
      BY <2>1, <2>3, ReleaseStep DEF End, Holding
    <2> QED
      BY <2>2, <2>3
  <1>8. CASE \E status \in {200, 500} : Handled(c, status)
    BY <1>8, ReleaseStep DEF Handled, Holding
  <1> QED
    BY <1>2, <1>3, <1>4, <1>5, <1>6, <1>7, <1>8 DEF Serve

LEMMA ProcessStep ==
    ASSUME IInv, Boot \/ Signal \/ Stop
    PROVE  IInv'
  <1>1. call \in [Calls -> CallRecord] /\ writesEnabled \in BOOLEAN
    BY DEF IInv, TypeOK, CallRecord
  <1>2. options' = options /\ activeRequests' = activeRequests /\ writesEnabled' = writesEnabled
    BY DEF Boot, Signal, Stop, CutConnections, ServerClosed, Exit
  <1>3. process' \in Processes /\ Configured'
    BY <1>2 DEF Boot, Signal, Stop, CutConnections, ServerClosed, Exit, IInv, Configured, Alive,
                OptionsAccepted, BearerResolves, Processes
  <1>4. CASE CutConnections
    <2>1. call' = [c \in Calls |-> [call[c] EXCEPT !.open = FALSE]]
      BY <1>4 DEF CutConnections
    <2>2. call' \in [Calls -> CallRecord]
      <3>1. \A d \in Calls : [call[d] EXCEPT !.open = FALSE] \in CallRecord
        <4> SUFFICES ASSUME NEW d \in Calls
                     PROVE  [call[d] EXCEPT !.open = FALSE] \in CallRecord
          OBVIOUS
        <4>1. call[d] \in CallRecord
          BY <1>1
        <4> QED
          BY <4>1 DEF CallRecord
      <3> QED
        BY <2>1, <3>1
    <2>3. Kept
      BY <1>1, <2>1 DEF Kept, Holding, CallRecord
    <2> QED
      BY <1>1, <1>2, <1>3, <2>2, <2>3, KeepStep
  <1>5. CASE call' = call
    <2>1. Kept
      BY <1>1, <1>5 DEF Kept, Holding, CallRecord
    <2> QED
      BY <1>1, <1>2, <1>3, <1>5, <2>1, KeepStep
  <1> QED
    BY <1>4, <1>5 DEF Boot, Signal, Stop, ServerClosed, Exit

-----------------------------------------------------------------------------
(* McpHttpServer: the slots of the endpoint are exact, and what it serves  *)
(* it may serve, however requests, clients and a stop interleave.          *)

LEMMA Initially == Init => IInv
  <1> SUFFICES ASSUME Init
               PROVE  IInv
    OBVIOUS
  <1>1. call \in [Calls -> CallRecord]
    BY IdleTyped DEF Init
  <1>2. TypeOK
    BY <1>1, McpConstants DEF Init, TypeOK, CallRecord
  <1>3. \A c \in Calls : ~Holding(c)
    BY DEF Init, Holding, Idle
  <1>4. SlotsAreExact
    <2>1. Holders = {}
      BY <1>3 DEF Holders
    <2> QED
      BY <2>1, FS_EmptySet, McpConstants DEF Init, SlotsAreExact, Holders
  <1> QED
    BY <1>2, <1>3, <1>4 DEF IInv, ServedAsPromised, Configured, Alive, Init

LEMMA Inductive == IInv /\ [Next]_vars => IInv'
  <1> SUFFICES ASSUME IInv, [Next]_vars
               PROVE  IInv'
    OBVIOUS
  <1>1. CASE Next
    BY <1>1, ServeStep, ProcessStep DEF Next
  <1>2. CASE UNCHANGED vars
    BY <1>2 DEF vars, IInv, TypeOK, SlotsAreExact, ServedAsPromised, Configured, Alive, Holding,
                OptionsAccepted, BearerResolves
  <1> QED
    BY <1>1, <1>2

LEMMA Invariant == Spec => []IInv
  BY Initially, Inductive, PTL DEF Spec

\* Every variable of the endpoint has its type.
THEOREM Typed == Spec => []TypeOK
  <1>1. IInv => TypeOK
    BY DEF IInv
  <1> QED
    BY <1>1, Invariant, PTL

\* The slots of mcp-http-server.ts:454-470 are counted and given back once each, and
\* never more than maxConcurrentRequests are taken, for any number of requests whose
\* bodies end in any way while a stop is in any state.
THEOREM SlotsExact == Spec => []SlotsAreExact
  <1>1. IInv => SlotsAreExact
    BY DEF IInv
  <1> QED
    BY <1>1, Invariant, PTL

\* Whoever holds a slot showed the bearer a remote process needs, is charged as the
\* proxy rules say, and has a server without write tools.
THEOREM Promised == Spec => []ServedAsPromised
  <1>1. IInv => ServedAsPromised
    BY DEF IInv
  <1> QED
    BY <1>1, Invariant, PTL

-----------------------------------------------------------------------------
(* The whole and its parts.                                                *)

LEMMA PartsStart ==
    ASSUME PartsInit
    PROVE  /\ Init /\ Http!Init /\ Contracts!Init /\ Preparation!Init /\ Params!Init /\ Dispatch!Init
           /\ Chain!Init /\ Proposed!Init /\ Evm!Init
  BY DEF PartsInit

\* Every step of the whole is one of each part, or leaves it alone.
LEMMA PartsMove ==
    ASSUME [PartsNext]_partsVars
    PROVE  /\ [Next]_vars /\ [Http!Next]_(Http!vars) /\ [Contracts!Next]_(Contracts!vars)
           /\ [Preparation!Next]_(Preparation!vars) /\ [Params!Format]_(Params!vars)
           /\ [Dispatch!Next]_(Dispatch!vars) /\ [Chain!Next]_(Chain!vars)
           /\ [Proposed!Next]_(Proposed!vars) /\ [Evm!Next]_(Evm!vars)
  <1> USE DEF McpStep, HttpStep, ContractsStep, PreparationStep, ParamsStep, DispatchStep, ReadsStep, ProposalsStep,
              EvmStep
  <1>1. [Next]_vars
    BY DEF PartsNext, partsVars
  <1>2. [Http!Next]_(Http!vars)
    BY DEF PartsNext, partsVars, httpVars, Http!vars, Http!healthVars, Http!Next
  <1>3. [Contracts!Next]_(Contracts!vars)
    BY DEF PartsNext, partsVars, contractsVars, Contracts!vars, Contracts!chainVars, Contracts!indexVars
  <1>4. [Preparation!Next]_(Preparation!vars)
    BY DEF PartsNext, partsVars, preparationVars, Preparation!vars
  <1>5. [Dispatch!Next]_(Dispatch!vars)
    BY DEF PartsNext, partsVars, dispatchVars, Dispatch!vars
  <1>6. [Chain!Next]_(Chain!vars)
    BY DEF PartsNext, partsVars, readsVars, Chain!vars
  <1>7. [Proposed!Next]_(Proposed!vars)
    BY DEF PartsNext, partsVars, proposalsVars, Proposed!vars
  <1>8. [Evm!Next]_(Evm!vars)
    BY DEF PartsNext, partsVars, evmVars, Evm!vars
  <1>9. [Params!Format]_(Params!vars)
    BY DEF PartsNext, partsVars, paramsVars, Params!vars
  <1> QED
    BY <1>1, <1>2, <1>3, <1>4, <1>5, <1>6, <1>7, <1>8, <1>9

\* What the constructor and the deadlines of the code make of the times.
Times == Ttl \in Nat /\ ProbeTime \in Nat /\ LastTime \in Nat
LEMMA TimesHold == Times
  BY PartsConstants DEF Times, Http!ConstantsOK

States == {"up", "down"}

-----------------------------------------------------------------------------
(* HttpServer: the health probe and its cache.                             *)

\* The clock, and the history of the node up to now.
History ==
    /\ now \in Nat /\ node \in States
    /\ lastTrue \in [States -> Nat] /\ lastTrue[node] = now
    /\ \A value \in States : lastTrue[value] <= now

\* What a probe met was true since it started, and that is not long ago.
ProbeIsFresh ==
    \/ healthStatusRequest = Http!NoProbe
    \/ /\ healthStatusRequest \in [started : Nat, met : SUBSET States]
       /\ healthStatusRequest.started <= now /\ now <= healthStatusRequest.started + ProbeTime
       /\ node \in healthStatusRequest.met
       /\ \A value \in healthStatusRequest.met : healthStatusRequest.started <= lastTrue[value]

\* What is cached was true not long before it was cached.
CacheIsFresh ==
    \/ healthStatusCache = Http!NoCache
    \/ /\ healthStatusCache \in [expiresAt : Nat, value : States]
       /\ healthStatusCache.expiresAt <= lastTrue[healthStatusCache.value] + ProbeTime + Ttl

AnswerIsFresh == answer.age \in Int /\ Http!HealthIsRecent

HealthInv == History /\ ProbeIsFresh /\ CacheIsFresh /\ AnswerIsFresh

-----------------------------------------------------------------------------

LEMMA HealthInitially ==
    ASSUME Times
    PROVE  Http!Init => HealthInv
  BY DEF Http!Init, HealthInv, Times, History, ProbeIsFresh, CacheIsFresh, AnswerIsFresh, Http!HealthIsRecent, Http!NoAnswer, States

\* A request for health: only an answer out of the cache is told at once.
LEMMA HealthStep ==
    ASSUME Times, HealthInv, Http!Health
    PROVE  HealthInv'
  <1>1. UNCHANGED <<now, node, healthStatusCache, lastTrue>>
    BY DEF Http!Health
  <1>2. History' /\ CacheIsFresh'
    BY <1>1 DEF HealthInv, History, CacheIsFresh
  <1>3. CASE Http!Cached /\ answer' = Http!Told(healthStatusCache.value) /\ UNCHANGED <<healthStatusRequest, waiting>>
    <2>1. healthStatusCache # Http!NoCache
      BY <1>3 DEF Http!Cached, Http!NoCache, HealthInv, History
    <2>2. /\ healthStatusCache \in [expiresAt : Nat, value : States]
          /\ healthStatusCache.expiresAt <= lastTrue[healthStatusCache.value] + ProbeTime + Ttl
      BY <2>1 DEF HealthInv, CacheIsFresh
    <2>3. answer'.age = now - lastTrue[healthStatusCache.value]
      BY <1>3 DEF Http!Told
    <2>4. now \in Nat /\ lastTrue[healthStatusCache.value] \in Nat /\ now < healthStatusCache.expiresAt
      BY <1>3, <2>2 DEF HealthInv, History, Http!Cached
    <2>5. AnswerIsFresh'
      BY <2>2, <2>3, <2>4 DEF Times, AnswerIsFresh, Http!HealthIsRecent
    <2>6. ProbeIsFresh'
      BY <1>1, <1>3 DEF HealthInv, ProbeIsFresh
    <2> QED
      BY <1>2, <2>5, <2>6 DEF HealthInv
  <1>4. CASE healthStatusRequest # Http!NoProbe /\ UNCHANGED <<healthStatusRequest, answer>>
    BY <1>1, <1>2, <1>4 DEF HealthInv, ProbeIsFresh, AnswerIsFresh, Http!HealthIsRecent
  <1>5. CASE healthStatusRequest' = [started |-> now, met |-> {node}] /\ UNCHANGED answer
    BY <1>1, <1>2, <1>5 DEF HealthInv, History, Times, ProbeIsFresh, AnswerIsFresh, Http!HealthIsRecent, States
  <1> QED
    BY <1>3, <1>4, <1>5 DEF Http!Health

LEMMA ProbeEndsStep ==
    ASSUME Times, HealthInv, NEW value \in States, Http!ProbeEnds(value)
    PROVE  HealthInv'
  <1> DEFINE started == healthStatusRequest.started
  <1>1. /\ started \in Nat /\ now \in Nat /\ lastTrue[value] \in Nat
        /\ now <= started + ProbeTime /\ started <= lastTrue[value] /\ lastTrue[value] <= now
    BY DEF Http!ProbeEnds, HealthInv, ProbeIsFresh, History
  <1> HIDE DEF started
  <1>2. UNCHANGED <<now, node, lastTrue>> /\ healthStatusRequest' = Http!NoProbe
        /\ healthStatusCache' = [expiresAt |-> now + Ttl, value |-> value] /\ answer' = Http!Told(value)
    BY DEF Http!ProbeEnds, Http!Filled
  <1>3. History' /\ ProbeIsFresh'
    BY <1>2 DEF HealthInv, History, ProbeIsFresh
  <1>4. CacheIsFresh'
    BY <1>1, <1>2 DEF Times, CacheIsFresh
  <1>5. AnswerIsFresh'
    BY <1>1, <1>2 DEF Times, AnswerIsFresh, Http!HealthIsRecent, Http!Told
  <1> QED
    BY <1>3, <1>4, <1>5 DEF HealthInv

LEMMA NodeTurnsStep ==
    ASSUME Times, HealthInv, Http!NodeTurns
    PROVE  HealthInv'
  <1>1. /\ now \in Nat /\ lastTrue \in [States -> Nat] /\ \A value \in States : lastTrue[value] <= now
        /\ node' \in States /\ now' = now
    BY DEF HealthInv, History, Http!NodeTurns, States
  <1>2. lastTrue' = [lastTrue EXCEPT ![node'] = now]
    BY DEF Http!NodeTurns
  <1>3. /\ lastTrue' \in [States -> Nat]
        /\ \A value \in States : lastTrue'[value] = IF value = node' THEN now ELSE lastTrue[value]
    BY <1>1, <1>2
  <1>4. History'
    BY <1>1, <1>3 DEF History
  <1>5. ProbeIsFresh'
    <2>1. CASE healthStatusRequest = Http!NoProbe
      BY <2>1 DEF Http!NodeTurns, ProbeIsFresh
    <2>2. CASE healthStatusRequest # Http!NoProbe
      <3>1. /\ healthStatusRequest \in [started : Nat, met : SUBSET States]
            /\ healthStatusRequest.started <= now /\ now <= healthStatusRequest.started + ProbeTime
            /\ \A value \in healthStatusRequest.met : healthStatusRequest.started <= lastTrue[value]
        BY <2>2 DEF HealthInv, ProbeIsFresh
      <3>2. healthStatusRequest' = [healthStatusRequest EXCEPT !.met = @ \cup {node'}]
        BY <2>2 DEF Http!NodeTurns
      <3>3. /\ healthStatusRequest' \in [started : Nat, met : SUBSET States]
            /\ healthStatusRequest'.started = healthStatusRequest.started
            /\ healthStatusRequest'.met = healthStatusRequest.met \cup {node'}
        BY <1>1, <3>1, <3>2
      <3> QED
        BY <1>1, <1>3, <3>1, <3>3 DEF ProbeIsFresh
    <2> QED
      BY <2>1, <2>2
  <1>6. CacheIsFresh'
    BY <1>1, <1>3 DEF Http!NodeTurns, HealthInv, CacheIsFresh, Times
  <1>7. AnswerIsFresh'
    BY DEF Http!NodeTurns, HealthInv, AnswerIsFresh, Http!HealthIsRecent
  <1> QED
    BY <1>4, <1>5, <1>6, <1>7 DEF HealthInv

LEMMA TickStep ==
    ASSUME Times, HealthInv, Http!Tick
    PROVE  HealthInv'
  <1>1. /\ now \in Nat /\ node \in States /\ lastTrue \in [States -> Nat]
        /\ \A value \in States : lastTrue[value] <= now
        /\ now' = now + 1 /\ node' = node /\ lastTrue' = [lastTrue EXCEPT ![node] = now + 1]
        /\ UNCHANGED <<healthStatusCache, healthStatusRequest, answer>>
    BY DEF HealthInv, History, Http!Tick
  <1>2. /\ lastTrue' \in [States -> Nat]
        /\ \A value \in States : lastTrue'[value] = IF value = node THEN now + 1 ELSE lastTrue[value]
    BY <1>1
  <1>3. \A value \in States : lastTrue[value] <= lastTrue'[value]
    BY <1>1, <1>2
  <1>4. History'
    BY <1>1, <1>2 DEF History
  <1>5. ProbeIsFresh'
    <2>1. CASE healthStatusRequest = Http!NoProbe
      BY <1>1, <2>1 DEF ProbeIsFresh
    <2>2. CASE healthStatusRequest # Http!NoProbe
      <3>1. /\ healthStatusRequest \in [started : Nat, met : SUBSET States]
            /\ healthStatusRequest.started <= now /\ now < healthStatusRequest.started + ProbeTime
            /\ node \in healthStatusRequest.met
            /\ \A value \in healthStatusRequest.met : healthStatusRequest.started <= lastTrue[value]
        BY <2>2 DEF HealthInv, ProbeIsFresh, Http!Tick
      <3>2. \A value \in healthStatusRequest.met :
                lastTrue[value] \in Nat /\ lastTrue'[value] \in Nat /\ lastTrue[value] <= lastTrue'[value]
        BY <1>1, <1>2, <1>3, <3>1
      <3>3. \A value \in healthStatusRequest.met : healthStatusRequest.started <= lastTrue'[value]
        BY <3>1, <3>2
      <3> QED
        BY <1>1, <3>1, <3>3 DEF ProbeIsFresh, Times
    <2> QED
      BY <2>1, <2>2
  <1>6. CacheIsFresh'
    <2>1. CASE healthStatusCache = Http!NoCache
      BY <1>1, <2>1 DEF CacheIsFresh
    <2>2. CASE healthStatusCache # Http!NoCache
      <3> DEFINE v == healthStatusCache.value
      <3>1. /\ healthStatusCache \in [expiresAt : Nat, value : States]
            /\ healthStatusCache.expiresAt <= lastTrue[v] + ProbeTime + Ttl
        BY <2>2 DEF HealthInv, CacheIsFresh
      <3>2. lastTrue[v] \in Nat /\ lastTrue'[v] \in Nat /\ lastTrue[v] <= lastTrue'[v]
        BY <1>1, <1>2, <1>3, <3>1
      <3>3. healthStatusCache.expiresAt <= lastTrue'[v] + ProbeTime + Ttl
        BY <3>1, <3>2 DEF Times
      <3> QED
        BY <1>1, <3>1, <3>3 DEF CacheIsFresh
    <2> QED
      BY <2>1, <2>2
  <1>7. AnswerIsFresh'
    BY <1>1 DEF HealthInv, AnswerIsFresh, Http!HealthIsRecent
  <1> QED
    BY <1>4, <1>5, <1>6, <1>7 DEF HealthInv

LEMMA HealthInductive ==
    ASSUME Times
    PROVE  HealthInv /\ [Http!Next]_(Http!vars) => HealthInv'
  <1> SUFFICES ASSUME HealthInv, [Http!Next]_(Http!vars)
               PROVE  HealthInv'
    OBVIOUS
  <1>1. CASE Http!Serving
    <2>1. UNCHANGED <<now, node, Http!healthVars>>
      BY <1>1 DEF Http!Serving, Http!Request
    <2> QED
      BY <2>1 DEF Http!healthVars, HealthInv, History, ProbeIsFresh, CacheIsFresh, AnswerIsFresh, Http!HealthIsRecent
  <1>2. CASE Http!Health
    BY <1>2, HealthStep
  <1>3. CASE \E value \in States : Http!ProbeEnds(value)
    BY <1>3, ProbeEndsStep
  <1>4. CASE Http!NodeTurns
    BY <1>4, NodeTurnsStep
  <1>5. CASE Http!Tick
    BY <1>5, TickStep
  <1>6. CASE UNCHANGED Http!vars
    BY <1>6 DEF Http!vars, Http!healthVars, HealthInv, History, ProbeIsFresh, CacheIsFresh, AnswerIsFresh, Http!HealthIsRecent
  <1> QED
    BY <1>1, <1>2, <1>3, <1>4, <1>5, <1>6 DEF Http!Next, Http!Probing, States

\* What /health tells (http-server.ts:673-720) was true of the node at most one probe and
\* one lifetime of the cache ago, whatever these are and however often the node flips.
THEOREM HealthRecent == Http!Spec => []Http!HealthIsRecent
  <1> USE TimesHold
  <1>1. Http!Init => HealthInv
    BY HealthInitially
  <1>2. HealthInv /\ [Http!Next]_(Http!vars) => HealthInv'
    BY HealthInductive
  <1>3. HealthInv => Http!HealthIsRecent
    BY DEF HealthInv, AnswerIsFresh
  <1> QED
    BY <1>1, <1>2, <1>3, PTL DEF Http!Spec

-----------------------------------------------------------------------------
(* HttpServer: the effects of requests.                                    *)

\* The server runs, if it does, with options its constructor accepted, and its last
\* request did nothing these forbid.
Constructed == server = Http!Refused \/ (server \in Http!Options /\ Http!Accepts(server))
EffectsInv == Constructed /\ Http!EffectsAreGuarded

LEMMA EffectsInitially == Http!Init => EffectsInv
  <1> SUFFICES ASSUME Http!Init PROVE EffectsInv
    OBVIOUS
  <1>1. Constructed
    BY PartsConstants DEF Http!ConstantsOK, Http!Init, Constructed
  <1>2. Http!EffectsAreGuarded
    BY DEF Http!Init, Http!NoRequest, Http!EffectsAreGuarded
  <1> QED
    BY <1>1, <1>2 DEF EffectsInv

\* What a request has passed when its route changed something.
LEMMA ChangesArePermitted ==
    ASSUME server \in Http!Options, Http!Accepts(server), NEW q \in Http!QueryForms, Http!Gate(q) = 0,
           Http!Changes(q.route)
    PROVE  /\ q.route \in Http!Administration => server.walletAdministration
           /\ Http!WriteRoute(q.route) => server.writesEnabled /\ server.coordinator
           /\ q.route = "approveIntent" => q.auth = server.approvalKey /\ q.auth # server.apiKey
           /\ ~server.loopback => q.auth # "none"
  <1>1. /\ Http!Authorized(q)
        /\ q.route \in Http!Administration => server.walletAdministration
        /\ Http!WriteRoute(q.route) => server.writesEnabled
    BY DEF Http!Gate
  <1>2. Http!WriteRoute(q.route) => server.coordinator
    BY <1>1 DEF Http!Accepts, Http!Options
  <1>3. q.route \notin Http!Probes
    BY DEF Http!Changes, Http!Probes, Http!Administration, Http!Reservations
  <1>4. q.route = "approveIntent" => q.auth = server.approvalKey /\ q.auth # server.apiKey
    BY <1>1, <1>3 DEF Http!Authorized, Http!Accepts, Http!Options
  <1>5. ~server.loopback => q.auth # "none"
    BY <1>1, <1>3 DEF Http!Authorized, Http!Accepts, Http!Options
  <1> QED
    BY <1>1, <1>2, <1>4, <1>5

\* The words of failures that are not the caller's are kept to the server.
LEMMA WordsAreKept == \A failure \in {"rpc", "timeout", "other"} : ~Http!Detailed(failure)
  <1>1. Http!FailureStatus["rpc"] = 502 /\ Http!FailureStatus["timeout"] = 504 /\ Http!FailureStatus["other"] = 500
    BY DEF Http!FailureStatus
  <1> QED
    BY <1>1 DEF Http!Detailed

LEMMA RequestStep ==
    ASSUME EffectsInv, Http!Running, NEW q \in Queries, NEW thrown \in Http!Failures \cup {"none"},
           Http!Request(q, thrown)
    PROVE  EffectsInv'
  <1> DEFINE failure == IF Http!Unfailing(q.route) THEN "none" ELSE thrown
             refusal == Http!Refusal(q, failure)
             status  == IF refusal # 0 THEN refusal ELSE Http!Served(q, failure)
  <1>1. server' = server /\ server \in Http!Options /\ Http!Accepts(server) /\ q \in Http!QueryForms
    BY PartsConstants DEF Http!ConstantsOK, EffectsInv, Constructed, Http!Running, Http!Request
  <1>2. /\ last'.route = q.route /\ last'.auth = q.auth /\ last'.secret = q.secret
        /\ last'.failure = failure
        /\ last'.changed = (Http!Changes(q.route) /\ refusal = 0 /\ status = Http!Success(q.route))
        /\ last'.details = (refusal = 0 /\ failure # "none" /\ Http!Detailed(failure))
    BY DEF Http!Request
  <1>3. failure \in Http!Failures \cup {"none"}
    OBVIOUS
  <1>4. refusal = 0 => Http!Gate(q) = 0 /\ ~Http!Secretive(q)
    BY DEF Http!Refusal
  <1> HIDE DEF failure, refusal, status
  <1>5. ASSUME last'.changed
        PROVE  /\ q.route \in Http!Administration => server.walletAdministration
               /\ Http!WriteRoute(q.route) => server.writesEnabled /\ server.coordinator
               /\ q.route = "approveIntent" => q.auth = server.approvalKey /\ q.auth # server.apiKey
               /\ ~server.loopback => q.auth # "none"
               /\ q.route \in Http!Reservations => ~q.secret
    <2>1. Http!Changes(q.route) /\ Http!Gate(q) = 0 /\ ~Http!Secretive(q)
      BY <1>2, <1>4, <1>5
    <2> QED
      BY <1>1, <2>1, ChangesArePermitted DEF Http!Secretive
  <1>6. ASSUME last'.details
        PROVE  failure \notin {"rpc", "timeout", "other"}
    BY <1>2, <1>6, WordsAreKept
  <1>7. Http!EffectsAreGuarded'
    BY <1>1, <1>2, <1>5, <1>6 DEF Http!EffectsAreGuarded, Http!WriteRoute, Http!Administration, Http!Reservations
  <1> QED
    BY <1>1, <1>7 DEF EffectsInv, Constructed, Http!Accepts

LEMMA EffectsInductive == EffectsInv /\ [Http!Next]_(Http!vars) => EffectsInv'
  <1> SUFFICES ASSUME EffectsInv, [Http!Next]_(Http!vars) PROVE EffectsInv'
    OBVIOUS
  <1>1. CASE Http!Serving
    BY <1>1, RequestStep DEF Http!Serving
  <1>2. CASE UNCHANGED <<server, last>>
    BY <1>2 DEF EffectsInv, Constructed, Http!Accepts, Http!EffectsAreGuarded, Http!WriteRoute
  <1>3. CASE Http!Probing
    <2>1. UNCHANGED <<server, last>>
      BY <1>3 DEF Http!Probing, Http!Health, Http!ProbeEnds, Http!NodeTurns, Http!Tick
    <2> QED
      BY <1>2, <2>1
  <1> QED
    BY <1>1, <1>2, <1>3 DEF Http!Next, Http!vars

\* Behind handleRequest() (http-server.ts:200-671) nothing changes state but what the
\* options allow and the right key asked for, no secret gets into an intent, and what a
\* service says of its own troubles stays inside: for all options the constructor accepts
\* and all requests.
THEOREM EffectsGuarded == Http!Spec => []Http!EffectsAreGuarded
  <1>1. EffectsInv => Http!EffectsAreGuarded
    BY DEF EffectsInv
  <1> QED
    BY <1>1, EffectsInitially, EffectsInductive, PTL DEF Http!Spec

-----------------------------------------------------------------------------
(* ContractNames: the contract a call invokes.                             *)

\* The table of bundled contracts and the names in manifests.
Tables ==
    /\ NoHash \notin Hashes
    /\ Home \in [Bundled -> Hashes \cup {NoHash}]
    /\ Manifest \in [Hashes -> Contracts!Names \cup {NoName}]
LEMMA TablesHold == Tables
  BY PartsConstants DEF Tables, Contracts!ConstantsOK

Found == Hashes \cup {NoHash}
Invocation ==
    [pc : {"idle", "asking", "resolved", "checking", "invoking", "over"}, kind : Contracts!Kinds,
     reference : Contracts!References \cup {NoName}, target : Found, checked : Found, live : SUBSET Hashes,
     result : {"none", "refused", "failed", "halt", "fault", "deployed", "missing"}]

-----------------------------------------------------------------------------
(* ContractNames: the invariant of calls and caches.                       *)

\* The part of TypeOK the other parts rest on: all but the names the index did not know.
Shape ==
    /\ deployed \subseteq Hashes
    /\ discoveredContractsByName \in [Contracts!Names -> Found]
    /\ remotelyResolvedContractsByName \in [Contracts!Names -> Found]
    /\ invocation \in [Invocations -> Invocation]

\* A call under way has seen every contract that was deployed since it began.
Witnessed(i, chain) == i.pc \notin {"idle", "over"} => chain \subseteq i.live

\* Only a reference that is not fixed is asked for, so no answer of the index can give a
\* fixed one another target; and a signed write names its contract by the hash.
Meant(i) ==
    /\ i.pc \notin {"idle", "over"} =>
          /\ i.reference \in Contracts!References
          /\ i.kind = "write" => i.reference \in Hashes
    /\ i.pc = "asking" => ~Contracts!Fixed(i.reference)
    /\ i.pc \in {"resolved", "checking", "invoking"} /\ Contracts!Fixed(i.reference) => i.target = Contracts!Own(i.reference)

\* The second resolution of a fixed reference gives what the first one gave.
Checked(i) ==
    /\ i.pc \in {"checking", "invoking"} /\ Contracts!Fixed(i.reference) => i.checked = i.target
    /\ i.pc = "invoking" => i.checked \in i.live

Sound(i, chain) == Witnessed(i, chain) /\ Meant(i) /\ Checked(i)
NamesInv == Shape /\ \A c \in Invocations : Sound(invocation[c], deployed)

-----------------------------------------------------------------------------
(* ContractNames: resolution.                                              *)

LEMMA ResolutionTyped ==
    ASSUME Tables, Shape, NEW r \in Contracts!References
    PROVE  Contracts!Resolve(r) \in Found /\ Contracts!ResolveCached(r) \in Found
  BY DEF Tables, Shape, Contracts!Resolve, Contracts!ResolveCached, Contracts!References, Contracts!Names, Found

\* Neither cache is looked at for a fixed reference.
LEMMA FixedResolvesToItself ==
    ASSUME Tables, NEW r \in Contracts!References, Contracts!Fixed(r)
    PROVE  Contracts!ResolveCached(r) = Contracts!Own(r) /\ Contracts!Own(r) \in Hashes
  BY DEF Tables, Contracts!Fixed, Contracts!Own, Contracts!Resolve, Contracts!ResolveCached

\* A call that is over promises nothing.
LEMMA OverIsSound ==
    ASSUME NEW i \in Invocation, NEW chain,
           NEW result \in {"none", "refused", "failed", "halt", "fault", "deployed", "missing"}
    PROVE  Contracts!Over(i, result) \in Invocation /\ Sound(Contracts!Over(i, result), chain)
  <1>1. /\ Contracts!Over(i, result) \in Invocation
        /\ Contracts!Over(i, result).pc = "over"
    BY DEF Contracts!Over, Contracts!NotCalled, Invocation, Contracts!Kinds, Found
  <1> QED
    BY <1>1 DEF Sound, Witnessed, Meant, Checked, Contracts!Over, Contracts!NotCalled

LEMMA NotCalledTyped == Contracts!NotCalled \in Invocation
  BY DEF Contracts!NotCalled, Invocation, Contracts!Kinds, Found

-----------------------------------------------------------------------------
(* ContractNames: the steps of calls.                                      *)

\* A step of one call, with the chain and the cache of answers of the index at rest.
LEMMA CallMoves ==
    ASSUME Tables, NamesInv, NEW c \in Invocations, NEW i \in Invocation, Sound(i, deployed'),
           invocation' = [invocation EXCEPT ![c] = i],
           deployed' = deployed, discoveredContractsByName' \in [Contracts!Names -> Found],
           remotelyResolvedContractsByName' = remotelyResolvedContractsByName
    PROVE  NamesInv'
  <1>1. Shape'
    BY DEF NamesInv, Shape
  <1>2. ASSUME NEW d \in Invocations
        PROVE  Sound(invocation'[d], deployed')
    BY DEF NamesInv, Shape
  <1> QED
    BY <1>1, <1>2 DEF NamesInv

LEMMA CallStep ==
    ASSUME Tables, NamesInv, NEW c \in Invocations, NEW kind \in Contracts!Kinds, NEW reference \in Contracts!References,
           NEW wellFormed \in BOOLEAN, Contracts!Call(c, kind, reference, wellFormed)
    PROVE  NamesInv'
  <1> DEFINE i == [Contracts!NotCalled EXCEPT !.kind = kind, !.reference = reference, !.live = deployed]
             known == Contracts!ResolveCached(reference)
             next == IF ~wellFormed \/ ~Contracts!Explicit(kind, reference) THEN Contracts!Over(i, "refused")
                     ELSE IF known # NoHash THEN Contracts!Continue(i, known)
                     ELSE Contracts!Asking(i)
  <1>1. invocation' = [invocation EXCEPT ![c] = next]
    BY DEF Contracts!Call
  <1>2. /\ deployed' = deployed /\ discoveredContractsByName' \in [Contracts!Names -> Found]
        /\ remotelyResolvedContractsByName' = remotelyResolvedContractsByName
    BY DEF Contracts!Call, Contracts!chainVars, NamesInv, Shape
  <1>3. deployed \in SUBSET Hashes
    BY DEF NamesInv, Shape
  <1>4. /\ i \in Invocation
        /\ i.kind = kind /\ i.reference = reference /\ i.live = deployed
    BY <1>3, NotCalledTyped DEF Contracts!NotCalled, Invocation
  <1> HIDE DEF i
  <1>5. known \in Found
    BY ResolutionTyped DEF NamesInv
  <1>6. Contracts!Over(i, "refused") \in Invocation /\ Sound(Contracts!Over(i, "refused"), deployed')
    BY <1>4, OverIsSound
  <1>7. ASSUME Contracts!Explicit(kind, reference), known # NoHash
        PROVE  Contracts!Continue(i, known) \in Invocation /\ Sound(Contracts!Continue(i, known), deployed')
    <2>1. Contracts!Fixed(reference) => known = Contracts!Own(reference)
      BY FixedResolvesToItself
    <2> HIDE DEF known
    <2>2. /\ Contracts!Continue(i, known) \in Invocation
          /\ Contracts!Continue(i, known).pc = "resolved" /\ Contracts!Continue(i, known).target = known
          /\ Contracts!Continue(i, known).kind = kind /\ Contracts!Continue(i, known).reference = reference
          /\ Contracts!Continue(i, known).live = deployed
      BY <1>4, <1>5 DEF Contracts!Continue, Invocation
    <2> QED
      BY <2>1, <2>2, <1>2, <1>7 DEF Sound, Witnessed, Meant, Checked, Contracts!Explicit, Contracts!Fixed, Contracts!Own
  <1>8. ASSUME Contracts!Explicit(kind, reference), known = NoHash
        PROVE  Contracts!Asking(i) \in Invocation /\ Sound(Contracts!Asking(i), deployed')
    <2>1. ~Contracts!Fixed(reference)
      BY <1>8, FixedResolvesToItself DEF Tables
    <2> DEFINE asking == [i EXCEPT !.pc = "asking"]
    <2>2. /\ asking \in Invocation
          /\ asking.pc = "asking" /\ asking.kind = kind /\ asking.reference = reference
          /\ asking.live = deployed
      BY <1>4 DEF Invocation
    <2> HIDE DEF asking
    <2>3. Sound(asking, deployed')
      BY <2>1, <2>2, <1>2, <1>8 DEF Sound, Witnessed, Meant, Checked, Contracts!Explicit, Contracts!Fixed, Contracts!Own
    <2> QED
      BY <2>2, <2>3, <1>6 DEF Contracts!Asking, asking
  <1> HIDE DEF known
  <1>9. next \in Invocation /\ Sound(next, deployed')
    BY <1>6, <1>7, <1>8
  <1> HIDE DEF next
  <1> QED
    BY <1>1, <1>2, <1>9, CallMoves

LEMMA CheckStep ==
    ASSUME Tables, NamesInv, NEW c \in Invocations, Contracts!Check(c)
    PROVE  NamesInv'
  <1> DEFINE i == invocation[c]
             second == IF i.kind = "status" THEN i.target ELSE Contracts!ResolveCached(i.reference)
             next == [i EXCEPT !.pc = "checking", !.checked = second]
  <1>1. i \in Invocation /\ Sound(i, deployed) /\ i.pc = "resolved" /\ i.reference \in Contracts!References
    BY DEF NamesInv, Shape, Contracts!Check, Sound, Meant
  <1>2. invocation' = [invocation EXCEPT ![c] = next]
    BY DEF Contracts!Check, NamesInv, Shape
  <1>3. /\ deployed' = deployed /\ discoveredContractsByName' \in [Contracts!Names -> Found]
        /\ remotelyResolvedContractsByName' = remotelyResolvedContractsByName
    BY DEF Contracts!Check, Contracts!chainVars, NamesInv, Shape
  <1>4. second \in Found
    BY <1>1, ResolutionTyped DEF NamesInv, Invocation
  <1>5. Contracts!Fixed(i.reference) => second = i.target
    BY <1>1, FixedResolvesToItself DEF Sound, Meant
  <1> HIDE DEF i, second
  <1>6. next \in Invocation
    BY <1>1, <1>4 DEF Invocation
  <1>7. /\ next.pc = "checking" /\ next.checked = second /\ next.target = i.target
        /\ next.kind = i.kind /\ next.reference = i.reference /\ next.live = i.live
    BY <1>1 DEF Invocation
  <1> HIDE DEF next
  <1>8. Sound(next, deployed')
    BY <1>1, <1>3, <1>5, <1>7 DEF Sound, Witnessed, Meant, Checked, Contracts!Fixed, Contracts!Own
  <1> QED
    BY <1>2, <1>3, <1>6, <1>8, CallMoves

\* Only a contract that is deployed now is invoked.
LEMMA StateAnswersStep ==
    ASSUME Tables, NamesInv, NEW c \in Invocations, NEW allowed \in BOOLEAN, Contracts!StateAnswers(c, allowed)
    PROVE  NamesInv'
  <1> DEFINE i == invocation[c]
             state == Contracts!StateOf(i.checked)
             next == IF i.kind = "status" THEN Contracts!Over(i, state)
                     ELSE IF state = "missing" \/ ~Contracts!OperationAllowed(i.target, allowed) THEN Contracts!Over(i, "refused")
                     ELSE [i EXCEPT !.pc = "invoking"]
  <1>1. i \in Invocation /\ Sound(i, deployed) /\ i.pc = "checking"
    BY DEF NamesInv, Shape, Contracts!StateAnswers
  <1>2. invocation' = [invocation EXCEPT ![c] = next]
    BY DEF Contracts!StateAnswers
  <1>3. deployed' = deployed /\ remotelyResolvedContractsByName' = remotelyResolvedContractsByName
    BY DEF Contracts!StateAnswers, Contracts!chainVars
  <1>4. discoveredContractsByName' \in [Contracts!Names -> Found]
    <2>1. discoveredContractsByName \in [Contracts!Names -> Found]
      BY DEF NamesInv, Shape
    <2>2. CASE i.kind = "status" /\ state = "deployed"
      <3>1. Contracts!Remember(Manifest[i.target], i.target) /\ i.target \in Found
        BY <1>1, <2>2 DEF Contracts!StateAnswers, Invocation
      <3> QED
        BY <2>1, <3>1 DEF Contracts!Remember
    <2>3. CASE ~(i.kind = "status" /\ state = "deployed")
      BY <2>1, <2>3 DEF Contracts!StateAnswers
    <2> QED
      BY <2>2, <2>3
  <1>5. state \in {"deployed", "missing"}
    BY DEF Contracts!StateOf
  <1>6. Contracts!Over(i, state) \in Invocation /\ Sound(Contracts!Over(i, state), deployed')
    BY <1>1, <1>5, OverIsSound
  <1>7. Contracts!Over(i, "refused") \in Invocation /\ Sound(Contracts!Over(i, "refused"), deployed')
    BY <1>1, OverIsSound
  <1>8. ASSUME state # "missing"
        PROVE  [i EXCEPT !.pc = "invoking"] \in Invocation /\ Sound([i EXCEPT !.pc = "invoking"], deployed')
    <2> DEFINE invoked == [i EXCEPT !.pc = "invoking"]
    <2>1. i.checked \in deployed
      BY <1>8 DEF Contracts!StateOf
    <2> HIDE DEF i
    <2>2. invoked \in Invocation
      BY <1>1 DEF Invocation
    <2>3. /\ invoked.pc = "invoking" /\ invoked.checked = i.checked /\ invoked.target = i.target
          /\ invoked.kind = i.kind /\ invoked.reference = i.reference /\ invoked.live = i.live
      BY <1>1 DEF Invocation
    <2> HIDE DEF invoked
    <2>4. Sound(invoked, deployed')
      BY <1>1, <1>3, <2>1, <2>3 DEF Sound, Witnessed, Meant, Checked, Contracts!Fixed, Contracts!Own
    <2> QED
      BY <2>2, <2>4 DEF invoked
  <1> HIDE DEF i, state
  <1>9. next \in Invocation /\ Sound(next, deployed')
    BY <1>6, <1>7, <1>8
  <1> HIDE DEF next
  <1> QED
    BY <1>2, <1>3, <1>4, <1>9, CallMoves

LEMMA EndStep ==
    ASSUME Tables, NamesInv, NEW c \in Invocations, NEW result \in {"failed", "halt", "fault"},
           invocation' = [invocation EXCEPT ![c] = Contracts!Over(@, result)],
           UNCHANGED <<Contracts!chainVars, discoveredContractsByName, remotelyResolvedContractsByName, Contracts!indexVars>>
    PROVE  NamesInv'
  <1>1. invocation[c] \in Invocation
    BY DEF NamesInv, Shape
  <1>2. Contracts!Over(invocation[c], result) \in Invocation /\ Sound(Contracts!Over(invocation[c], result), deployed')
    BY <1>1, OverIsSound
  <1>3. /\ deployed' = deployed /\ discoveredContractsByName' \in [Contracts!Names -> Found]
        /\ remotelyResolvedContractsByName' = remotelyResolvedContractsByName
    BY DEF Contracts!chainVars, NamesInv, Shape
  <1>4. invocation' = [invocation EXCEPT ![c] = Contracts!Over(invocation[c], result)]
    OBVIOUS
  <1> QED
    BY <1>2, <1>3, <1>4, CallMoves

LEMMA MagicStep ==
    ASSUME NamesInv, NEW right \in BOOLEAN, Contracts!MagicAnswers(right)
    PROVE  NamesInv'
  <1>1. /\ deployed' = deployed
        /\ discoveredContractsByName' = discoveredContractsByName
        /\ remotelyResolvedContractsByName' = remotelyResolvedContractsByName
        /\ invocation' = [c \in Invocations |->
              IF invocation[c].pc = "checking" /\ ~right THEN Contracts!Over(invocation[c], "failed")
              ELSE invocation[c]]
    BY DEF Contracts!MagicAnswers
  <1>2. ASSUME NEW c \in Invocations
        PROVE  invocation'[c] \in Invocation /\ Sound(invocation'[c], deployed')
    <2>1. invocation[c] \in Invocation /\ Sound(invocation[c], deployed')
      BY <1>1 DEF NamesInv, Shape
    <2>2. Contracts!Over(invocation[c], "failed") \in Invocation /\ Sound(Contracts!Over(invocation[c], "failed"), deployed')
      BY <2>1, OverIsSound
    <2> QED
      BY <1>1, <2>1, <2>2
  <1>3. invocation' \in [Invocations -> Invocation]
    BY <1>1, <1>2
  <1> QED
    BY <1>1, <1>2, <1>3 DEF NamesInv, Shape

\* An answer of the index continues none but those who asked for this name.
LEMMA IndexStep ==
    ASSUME Tables, NamesInv, NEW name \in Contracts!Names, NEW hash \in Hashes,
           NEW found \in {"one", "nothing", "trouble"}, Contracts!IndexAnswers(name, hash, found)
    PROVE  NamesInv'
  <1> DEFINE Resumed(i) == IF i.pc # "asking" \/ i.reference # name THEN i
                           ELSE IF found = "one" THEN Contracts!Continue(i, hash)
                           ELSE Contracts!Over(i, IF found = "nothing" THEN "refused" ELSE "failed")
  <1>1. /\ deployed' = deployed
        /\ invocation' = [c \in Invocations |-> Resumed(invocation[c])]
    BY DEF Contracts!IndexAnswers, Contracts!chainVars
  <1>2. /\ discoveredContractsByName' \in [Contracts!Names -> Found]
        /\ remotelyResolvedContractsByName' \in [Contracts!Names -> Found]
    <2>1. /\ discoveredContractsByName \in [Contracts!Names -> Found]
          /\ remotelyResolvedContractsByName \in [Contracts!Names -> Found]
          /\ hash \in Found
      BY DEF NamesInv, Shape, Found
    <2>2. CASE found = "one"
      BY <2>1, <2>2 DEF Contracts!IndexAnswers, Contracts!Remember
    <2>3. CASE found # "one"
      BY <2>1, <2>3 DEF Contracts!IndexAnswers
    <2> QED
      BY <2>2, <2>3
  <1>3. ASSUME NEW c \in Invocations
        PROVE  Resumed(invocation[c]) \in Invocation /\ Sound(Resumed(invocation[c]), deployed')
    <2> DEFINE i == invocation[c]
    <2>1. i \in Invocation /\ Sound(i, deployed')
      BY <1>1 DEF NamesInv, Shape
    <2> HIDE DEF i
    <2>2. \A result \in {"refused", "failed"} :
              Contracts!Over(i, result) \in Invocation /\ Sound(Contracts!Over(i, result), deployed')
      BY <2>1, OverIsSound
    <2>3. ASSUME i.pc = "asking"
          PROVE  Contracts!Continue(i, hash) \in Invocation /\ Sound(Contracts!Continue(i, hash), deployed')
      <3> DEFINE going == Contracts!Continue(i, hash)
      <3>1. /\ going \in Invocation
            /\ going.pc = "resolved" /\ going.kind = i.kind /\ going.reference = i.reference
            /\ going.live = i.live
        BY <2>1 DEF Contracts!Continue, Invocation, Found
      <3> HIDE DEF going
      <3>2. Sound(going, deployed')
        BY <2>1, <2>3, <3>1 DEF Sound, Witnessed, Meant, Checked, Contracts!Fixed, Contracts!Own
      <3> QED
        BY <3>1, <3>2 DEF going
    <2>4. Resumed(i) \in Invocation /\ Sound(Resumed(i), deployed')
      BY <2>1, <2>2, <2>3
    <2> QED
      BY <2>4 DEF i
  <1> HIDE DEF Resumed
  <1>4. invocation' \in [Invocations -> Invocation]
    BY <1>1, <1>3
  <1>5. \A c \in Invocations : Sound(invocation'[c], deployed')
    BY <1>1, <1>3
  <1>6. deployed' \subseteq Hashes
    BY <1>1 DEF NamesInv, Shape
  <1> QED
    BY <1>2, <1>4, <1>5, <1>6 DEF NamesInv, Shape

\* Calls under way take notice of what is deployed.
LEMMA ChainStep ==
    ASSUME NamesInv, NEW hash \in Hashes, Contracts!ChainMoves(hash)
    PROVE  NamesInv'
  <1> DEFINE Noticed(i) == [i EXCEPT !.live = IF i.pc \in {"idle", "over"} THEN @ ELSE @ \cup deployed']
  <1>1. /\ discoveredContractsByName' = discoveredContractsByName
        /\ remotelyResolvedContractsByName' = remotelyResolvedContractsByName
        /\ invocation' = [c \in Invocations |-> Noticed(invocation[c])]
    BY DEF Contracts!ChainMoves, NamesInv, Shape
  <1>2. deployed' \subseteq Hashes
    BY DEF Contracts!ChainMoves, NamesInv, Shape
  <1>3. ASSUME NEW c \in Invocations
        PROVE  Noticed(invocation[c]) \in Invocation /\ Sound(Noticed(invocation[c]), deployed')
    <2> DEFINE i == invocation[c]
               noticed == Noticed(i)
    <2>1. i \in Invocation /\ Sound(i, deployed)
      BY DEF NamesInv, Shape
    <2> HIDE DEF i
    <2>2. /\ noticed \in Invocation
          /\ noticed.pc = i.pc /\ noticed.kind = i.kind /\ noticed.reference = i.reference
          /\ noticed.target = i.target /\ noticed.checked = i.checked
          /\ i.pc \notin {"idle", "over"} => noticed.live = i.live \cup deployed'
      BY <1>2, <2>1 DEF Invocation
    <2> HIDE DEF noticed
    <2>3. Sound(noticed, deployed')
      BY <2>1, <2>2 DEF Sound, Witnessed, Meant, Checked, Contracts!Fixed, Contracts!Own
    <2> QED
      BY <2>2, <2>3 DEF noticed, i
  <1> HIDE DEF Noticed
  <1>4. invocation' \in [Invocations -> Invocation] /\ \A c \in Invocations : Sound(invocation'[c], deployed')
    BY <1>1, <1>3
  <1> QED
    BY <1>1, <1>2, <1>4 DEF NamesInv, Shape

-----------------------------------------------------------------------------
(* ContractNames: calls and caches together.                               *)

LEMMA NamesInitially == ASSUME Contracts!Init PROVE NamesInv
  <1>1. Shape
    BY NotCalledTyped DEF Contracts!Init, Shape, Found
  <1>2. \A c \in Invocations : invocation[c].pc = "idle"
    BY DEF Contracts!Init, Contracts!NotCalled
  <1> QED
    BY <1>1, <1>2 DEF NamesInv, Sound, Witnessed, Meant, Checked

LEMMA NamesInductive == ASSUME Tables, NamesInv, [Contracts!Next]_(Contracts!vars) PROVE NamesInv'
  <1>1. CASE UNCHANGED Contracts!vars
    BY <1>1 DEF Contracts!vars, Contracts!chainVars, NamesInv, Shape
  <1>2. ASSUME NEW c \in Invocations,
               \/ \E kind \in Contracts!Kinds, reference \in Contracts!References, wellFormed \in BOOLEAN :
                     Contracts!Call(c, kind, reference, wellFormed)
               \/ Contracts!Check(c) \/ Contracts!RpcFails(c)
               \/ \E allowed \in BOOLEAN : Contracts!StateAnswers(c, allowed)
               \/ \E result \in {"halt", "fault"} : Contracts!InvokeAnswers(c, result)
        PROVE  NamesInv'
    <2>1. CASE \E kind \in Contracts!Kinds, reference \in Contracts!References, wellFormed \in BOOLEAN :
                  Contracts!Call(c, kind, reference, wellFormed)
      BY <2>1, CallStep
    <2>2. CASE Contracts!Check(c)
      BY <2>2, CheckStep
    <2>3. CASE Contracts!RpcFails(c)
      BY <2>3, EndStep DEF Contracts!RpcFails
    <2>4. CASE \E allowed \in BOOLEAN : Contracts!StateAnswers(c, allowed)
      BY <2>4, StateAnswersStep
    <2>5. CASE \E result \in {"halt", "fault"} : Contracts!InvokeAnswers(c, result)
      BY <2>5, EndStep DEF Contracts!InvokeAnswers
    <2> QED
      BY <1>2, <2>1, <2>2, <2>3, <2>4, <2>5
  <1>3. CASE \E right \in BOOLEAN : Contracts!MagicAnswers(right)
    BY <1>3, MagicStep
  <1>4. ASSUME NEW name \in Contracts!Names, Contracts!NegativeExpires(name) PROVE NamesInv'
    BY <1>4 DEF Contracts!NegativeExpires, Contracts!chainVars, NamesInv, Shape
  <1>5. ASSUME NEW name \in Contracts!Names, NEW hash \in Hashes, NEW found \in {"one", "nothing", "trouble"},
               Contracts!IndexAnswers(name, hash, found)
        PROVE  NamesInv'
    BY <1>5, IndexStep
  <1>6. CASE \E hash \in Hashes : Contracts!ChainMoves(hash)
    BY <1>6, ChainStep
  <1> QED
    BY <1>1, <1>2, <1>3, <1>4, <1>5, <1>6 DEF Contracts!Next

LEMMA NamesImply ==
    ASSUME NamesInv
    PROVE  Contracts!InvokedIsMeantAndLive
  <1> SUFFICES ASSUME NEW c \in Invocations, invocation[c].pc = "invoking"
               PROVE  LET i == invocation[c]
                      IN  /\ Contracts!Fixed(i.reference) => i.target = Contracts!Own(i.reference) /\ i.checked = i.target
                          /\ i.checked \in i.live
                          /\ i.kind = "write" => i.target = i.reference
    BY TablesHold DEF Contracts!InvokedIsMeantAndLive
  <1>1. Sound(invocation[c], deployed)
    BY DEF NamesInv
  <1> QED
    BY <1>1, TablesHold DEF Sound, Witnessed, Meant, Checked, Contracts!Fixed, Contracts!Own

\* Whatever references calls use, whatever the index and manifests say and whatever is
\* deployed or destroyed meanwhile, resolveContractTargetAsync() and
\* assertContractDeployed() let a call invoke only the contract it meant, after that
\* contract was seen on the chain during this call.
THEOREM MeantAndLive == Contracts!Spec => []Contracts!InvokedIsMeantAndLive
  <1>1. NamesInv => Contracts!InvokedIsMeantAndLive
    BY NamesImply
  <1>2. Contracts!Init => NamesInv
    BY NamesInitially
  <1>3. NamesInv /\ [Contracts!Next]_(Contracts!vars) => NamesInv'
    BY TablesHold, NamesInductive
  <1> QED
    BY <1>1, <1>2, <1>3, PTL DEF Contracts!Spec

-----------------------------------------------------------------------------
(* ContractNames: the names the index did not know.                        *)

\* A list of names without repetition.
Distinct(s) == s \in Seq(Contracts!Names) /\ \A i, j \in DOMAIN s : s[i] = s[j] => i = j

\* The names in the cache are kept once each and to their limit, and none of them is
\* being asked for.
UnknownInv ==
    /\ Distinct(negativeNameCache)
    /\ Len(negativeNameCache) <= negativeCacheMaxEntries
    /\ \A i \in DOMAIN negativeNameCache : negativeNameCache[i] \notin nameRequests

\* A part of a list without repetition has none.
LEMMA DistinctParts ==
    ASSUME NEW s, Distinct(s), NEW m \in 1 .. Len(s) + 1
    PROVE  /\ Distinct(SubSeq(s, m, Len(s))) /\ Len(SubSeq(s, m, Len(s))) = Len(s) - m + 1
           /\ \A i \in DOMAIN SubSeq(s, m, Len(s)) : \E j \in DOMAIN s : SubSeq(s, m, Len(s))[i] = s[j]
  <1>1. s \in Seq(Contracts!Names) /\ Len(s) \in Nat
    BY DEF Distinct
  <1> DEFINE t == SubSeq(s, m, Len(s))
  <1>2. t \in Seq(Contracts!Names) /\ Len(t) = Len(s) - m + 1 /\ \A i \in 1 .. Len(t) : t[i] = s[m + i - 1]
    <2>1. \A i \in m .. Len(s) : s[i] \in Contracts!Names
      BY <1>1
    <2> QED
      BY <1>1, <2>1, SubSeqProperties
  <1>3. \A i \in 1 .. Len(t) : m + i - 1 \in 1 .. Len(s)
    BY <1>1, <1>2
  <1> HIDE DEF t
  <1>4. Distinct(t)
    <2>1. ASSUME NEW i \in 1 .. Len(t), NEW j \in 1 .. Len(t), t[i] = t[j] PROVE i = j
      <3>1. s[m + i - 1] = s[m + j - 1] /\ m + i - 1 \in 1 .. Len(s) /\ m + j - 1 \in 1 .. Len(s)
        BY <1>2, <1>3, <2>1
      <3>2. m + i - 1 = m + j - 1
        BY <1>1, <3>1 DEF Distinct
      <3> QED
        BY <1>1, <2>1, <3>2
    <2>2. DOMAIN t = 1 .. Len(t)
      BY <1>2
    <2> QED
      BY <1>2, <2>1, <2>2 DEF Distinct
  <1>5. ASSUME NEW i \in DOMAIN t
        PROVE  \E j \in DOMAIN s : t[i] = s[j]
    <2>1. DOMAIN t = 1 .. Len(t) /\ DOMAIN s = 1 .. Len(s)
      BY <1>1, <1>2
    <2>2. i \in 1 .. Len(t)
      BY <2>1
    <2>3. t[i] = s[m + i - 1] /\ m + i - 1 \in DOMAIN s
      BY <1>2, <1>3, <2>1, <2>2
    <2> QED
      BY <2>3
  <1> QED
    BY <1>2, <1>4, <1>5 DEF t

\* What Map.delete() leaves.
LEMMA DeletedLeaves ==
    ASSUME UnknownInv, NEW name \in Contracts!Names
    PROVE  LET others == Contracts!Deleted(name)
           IN  /\ Distinct(others) /\ Len(others) <= Len(negativeNameCache)
               /\ \A i \in DOMAIN others : /\ others[i] # name
                                           /\ \E j \in DOMAIN negativeNameCache : others[i] = negativeNameCache[j]
  <1> DEFINE s == negativeNameCache
  <1>1. s \in Seq(Contracts!Names) /\ Len(s) \in Nat /\ DOMAIN s = 1 .. Len(s)
        /\ \A i, j \in 1 .. Len(s) : s[i] = s[j] => i = j
    BY DEF UnknownInv, Distinct
  <1>2. CASE name \notin Contracts!Range(s)
    BY <1>1, <1>2 DEF Contracts!Deleted, Contracts!Range, UnknownInv
  <1>3. CASE name \in Contracts!Range(s)
    <2>1. PICK k \in 1 .. Len(s) : k = (CHOOSE i \in DOMAIN s : s[i] = name) /\ s[k] = name
      BY <1>1, <1>3 DEF Contracts!Range
    <2> DEFINE t == SubSeq(s, 1, k - 1) \o SubSeq(s, k + 1, Len(s))
    <2>2. Contracts!Deleted(name) = t
      BY <1>3, <2>1 DEF Contracts!Deleted, Contracts!RemoveAt
    <2> DEFINE u == SubSeq(s, 1, k - 1)
               v == SubSeq(s, k + 1, Len(s))
    <2>3. u \in Seq(Contracts!Names) /\ Len(u) = k - 1 /\ \A i \in 1 .. k - 1 : u[i] = s[i]
      <3>1. \A i \in 1 .. k - 1 : s[i] \in Contracts!Names
        BY <1>1
      <3> QED
        BY <3>1, SubSeqProperties
    <2>4. v \in Seq(Contracts!Names) /\ Len(v) = Len(s) - k /\ \A i \in 1 .. Len(s) - k : v[i] = s[k + i]
      <3>1. \A i \in k + 1 .. Len(s) : s[i] \in Contracts!Names
        BY <1>1
      <3>2. /\ v \in Seq(Contracts!Names) /\ Len(v) = IF k + 1 <= Len(s) THEN Len(s) - (k + 1) + 1 ELSE 0
            /\ \A i \in 1 .. Len(s) - (k + 1) + 1 : v[i] = s[k + 1 + i - 1]
        BY <1>1, <3>1, SubSeqProperties
      <3> HIDE DEF v
      <3>3. Len(v) = Len(s) - k /\ Len(s) - (k + 1) + 1 = Len(s) - k
        BY <1>1, <2>1, <3>2
      <3>4. ASSUME NEW i \in 1 .. Len(s) - k
            PROVE  v[i] = s[k + i]
        <4>1. k + 1 + i - 1 = k + i /\ i \in 1 .. Len(s) - (k + 1) + 1
          BY SMTT(40), <1>1, <2>1, <3>3
        <4> QED
          BY <3>2, <4>1
      <3> QED
        BY <3>2, <3>3, <3>4
    <2> HIDE DEF u, v
    <2>5. t \in Seq(Contracts!Names) /\ Len(t) = Len(s) - 1
          /\ \A i \in 1 .. Len(t) : t[i] = IF i < k THEN s[i] ELSE s[i + 1]
      <3>1. /\ t \in Seq(Contracts!Names) /\ Len(t) = Len(u) + Len(v)
            /\ \A i \in 1 .. Len(u) + Len(v) : t[i] = IF i <= Len(u) THEN u[i] ELSE v[i - Len(u)]
        BY <2>3, <2>4, ConcatProperties DEF u, v
      <3> HIDE DEF t
      <3>2. Len(t) = Len(s) - 1
        BY <1>1, <2>3, <2>4, <3>1
      <3>3. ASSUME NEW i \in 1 .. Len(t), i < k PROVE t[i] = s[i]
        BY <1>1, <2>3, <2>4, <3>1, <3>3
      <3>4. ASSUME NEW i \in 1 .. Len(t), ~(i < k) PROVE t[i] = s[i + 1]
        <4>1. i - (k - 1) \in 1 .. Len(s) - k /\ k + (i - (k - 1)) = i + 1
          BY <1>1, <2>1, <3>2, <3>4
        <4>2. i \in 1 .. Len(u) + Len(v) /\ ~(i <= Len(u)) /\ Len(u) = k - 1
          BY <1>1, <2>1, <2>3, <3>1, <3>4
        <4>3. t[i] = v[i - (k - 1)]
          BY <3>1, <4>2
        <4>4. v[i - (k - 1)] = s[k + (i - (k - 1))]
          BY <2>4, <4>1
        <4> QED
          BY <4>1, <4>3, <4>4
      <3> QED
        BY <1>1, <3>1, <3>2, <3>3, <3>4
    <2> HIDE DEF t
    <2>6. ASSUME NEW i \in 1 .. Len(t)
          PROVE  \E n \in 1 .. Len(s) : n # k /\ t[i] = s[n] /\ n = IF i < k THEN i ELSE i + 1
      <3>1. (IF i < k THEN i ELSE i + 1) \in 1 .. Len(s) /\ (IF i < k THEN i ELSE i + 1) # k
        BY <1>1, <2>5
      <3> QED
        BY <2>5, <3>1
    <2>7. \A i \in 1 .. Len(t) : t[i] # name /\ \E j \in DOMAIN s : t[i] = s[j]
      BY <1>1, <2>1, <2>6
    <2>8. \A i, j \in 1 .. Len(t) : t[i] = t[j] => i = j
      BY <1>1, <2>6
    <2>9. DOMAIN t = 1 .. Len(t)
      BY <2>5
    <2> QED
      BY <1>1, <2>2, <2>5, <2>7, <2>8, <2>9 DEF Distinct
  <1> QED
    BY <1>2, <1>3

\* cacheNegativeResult() makes room for the name and puts it last.
LEMMA NegativeKept ==
    ASSUME UnknownInv, NEW name \in Contracts!Names
    PROVE  LET kept == Contracts!Negative(name)
           IN  /\ Distinct(kept) /\ Len(kept) <= negativeCacheMaxEntries
               /\ \A i \in DOMAIN kept :
                     kept[i] = name \/ \E j \in DOMAIN negativeNameCache : kept[i] = negativeNameCache[j]
  <1> DEFINE others == Contracts!Deleted(name)
             excess == Len(others) - (negativeCacheMaxEntries - 1)
             first  == IF excess > 0 THEN excess + 1 ELSE 1
             room   == SubSeq(others, first, Len(others))
  <1>1. negativeCacheMaxEntries \in Nat \ {0}
    BY PartsConstants DEF Contracts!ConstantsOK
  <1>2. /\ Distinct(others) /\ Len(others) <= negativeCacheMaxEntries /\ Len(others) \in Nat
        /\ \A i \in DOMAIN others : /\ others[i] # name
                                    /\ \E j \in DOMAIN negativeNameCache : others[i] = negativeNameCache[j]
    <2>1. Len(negativeNameCache) \in Nat /\ Len(negativeNameCache) <= negativeCacheMaxEntries
      BY DEF UnknownInv, Distinct
    <2>2. Distinct(others) /\ Len(others) <= Len(negativeNameCache)
          /\ \A i \in DOMAIN others : /\ others[i] # name
                                      /\ \E j \in DOMAIN negativeNameCache : others[i] = negativeNameCache[j]
      BY DeletedLeaves
    <2>3. Len(others) \in Nat
      BY <2>2 DEF Distinct
    <2> QED
      BY <1>1, <2>1, <2>2, <2>3
  <1>3. Contracts!Negative(name) = Append(room, name)
    BY DEF Contracts!Negative
  <1> HIDE DEF others
  <1>4. first \in 1 .. Len(others) + 1 /\ Len(others) - first + 1 <= negativeCacheMaxEntries - 1
    BY <1>1, <1>2
  <1>5. /\ Distinct(room) /\ Len(room) <= negativeCacheMaxEntries - 1
        /\ \A i \in DOMAIN room : room[i] # name /\ \E j \in DOMAIN negativeNameCache : room[i] = negativeNameCache[j]
    <2> HIDE DEF first
    <2>1. Distinct(room) /\ Len(room) = Len(others) - first + 1
          /\ \A i \in DOMAIN room : \E j \in DOMAIN others : room[i] = others[j]
      BY <1>2, <1>4, DistinctParts
    <2> QED
      BY <1>2, <1>4, <2>1
  <1> HIDE DEF room
  <1>6. /\ room \in Seq(Contracts!Names) /\ Len(room) \in Nat /\ DOMAIN room = 1 .. Len(room)
        /\ \A i, j \in 1 .. Len(room) : room[i] = room[j] => i = j
    BY <1>5 DEF Distinct
  <1> DEFINE kept == Append(room, name)
  <1>7. /\ kept \in Seq(Contracts!Names) /\ Len(kept) = Len(room) + 1
        /\ \A i \in 1 .. Len(kept) : kept[i] = IF i <= Len(room) THEN room[i] ELSE name
    BY <1>6
  <1> HIDE DEF kept
  <1>8. DOMAIN kept = 1 .. Len(kept) /\ Len(kept) \in Nat
    BY <1>7
  <1>9. \A i, j \in 1 .. Len(kept) : kept[i] = kept[j] => i = j
    BY <1>5, <1>6, <1>7
  <1>10. \A i \in 1 .. Len(kept) : kept[i] = name \/ \E j \in DOMAIN negativeNameCache : kept[i] = negativeNameCache[j]
    BY <1>5, <1>6, <1>7
  <1>11. Len(kept) <= negativeCacheMaxEntries
    BY <1>1, <1>5, <1>6, <1>7
  <1> QED
    BY <1>3, <1>7, <1>8, <1>9, <1>10, <1>11 DEF Distinct, kept

LEMMA UnknownInitially == Contracts!Init => UnknownInv
  BY PartsConstants DEF Contracts!Init, Contracts!ConstantsOK, UnknownInv, Distinct

\* A name in the cache is not asked for: resolveByName() looks there first.
LEMMA UnknownCall ==
    ASSUME NamesInv, UnknownInv, NEW c \in Invocations, NEW kind \in Contracts!Kinds,
           NEW reference \in Contracts!References, NEW wellFormed \in BOOLEAN,
           Contracts!Call(c, kind, reference, wellFormed)
    PROVE  UnknownInv'
  <1> DEFINE i == [Contracts!NotCalled EXCEPT !.kind = kind, !.reference = reference, !.live = deployed]
             known == Contracts!ResolveCached(reference)
  <1>1. /\ invocation' = [invocation EXCEPT ![c] =
              IF ~wellFormed \/ ~Contracts!Explicit(kind, reference) THEN Contracts!Over(i, "refused")
              ELSE IF known # NoHash THEN Contracts!Continue(i, known)
              ELSE Contracts!Asking(i)]
        /\ nameRequests' = IF invocation'[c].pc = "asking" THEN nameRequests \cup {reference} ELSE nameRequests
        /\ negativeNameCache' = negativeNameCache
    BY DEF Contracts!Call
  <1>2. c \in DOMAIN invocation /\ i.reference = reference
    BY DEF NamesInv, Shape, Contracts!NotCalled
  <1>3. Contracts!Over(i, "refused").pc = "over" /\ Contracts!Continue(i, known).pc = "resolved"
    BY DEF Contracts!Over, Contracts!Continue, Contracts!NotCalled
  <1>4. Contracts!Asking(i).pc = "asking" => reference \notin Contracts!Range(negativeNameCache)
    BY <1>2, <1>3 DEF Contracts!Asking
  <1> HIDE DEF i, known
  <1>5. invocation'[c].pc = "asking" => reference \notin Contracts!Range(negativeNameCache)
    BY <1>1, <1>2, <1>3, <1>4
  <1> QED
    BY <1>1, <1>5 DEF UnknownInv, Contracts!Range

LEMMA UnknownIndexAnswers ==
    ASSUME UnknownInv, NEW name \in Contracts!Names, NEW hash \in Hashes,
           NEW found \in {"one", "nothing", "trouble"}, Contracts!IndexAnswers(name, hash, found)
    PROVE  UnknownInv'
  <1>1. /\ nameRequests' = nameRequests \ {name}
        /\ negativeNameCache' = IF found = "nothing" THEN Contracts!Negative(name) ELSE negativeNameCache
    BY DEF Contracts!IndexAnswers
  <1>2. CASE found = "nothing"
    BY <1>1, <1>2, NegativeKept DEF UnknownInv
  <1>3. CASE found # "nothing"
    BY <1>1, <1>3 DEF UnknownInv
  <1> QED
    BY <1>2, <1>3

LEMMA UnknownInductive ==
    ASSUME NamesInv, UnknownInv, [Contracts!Next]_(Contracts!vars)
    PROVE  UnknownInv'
  <1>1. ASSUME UNCHANGED Contracts!indexVars PROVE UnknownInv'
    BY <1>1 DEF UnknownInv, Contracts!indexVars
  <1>2. ASSUME NEW c \in Invocations, NEW kind \in Contracts!Kinds, NEW reference \in Contracts!References,
               NEW wellFormed \in BOOLEAN, Contracts!Call(c, kind, reference, wellFormed)
        PROVE  UnknownInv'
    BY <1>2, UnknownCall
  <1>3. ASSUME NEW c \in Invocations,
               \/ Contracts!Check(c) \/ Contracts!RpcFails(c)
               \/ \E allowed \in BOOLEAN : Contracts!StateAnswers(c, allowed)
               \/ \E result \in {"halt", "fault"} : Contracts!InvokeAnswers(c, result)
        PROVE  UNCHANGED Contracts!indexVars
    BY <1>3 DEF Contracts!Check, Contracts!RpcFails, Contracts!StateAnswers, Contracts!InvokeAnswers
  <1>4. ASSUME NEW right \in BOOLEAN, Contracts!MagicAnswers(right) PROVE UNCHANGED Contracts!indexVars
    BY <1>4 DEF Contracts!MagicAnswers
  <1>5. ASSUME NEW hash \in Hashes, Contracts!ChainMoves(hash) PROVE UNCHANGED Contracts!indexVars
    BY <1>5 DEF Contracts!ChainMoves
  <1>6. ASSUME NEW name \in Contracts!Names, Contracts!NegativeExpires(name) PROVE UnknownInv'
    <2>1. negativeNameCache' = Contracts!Deleted(name) /\ nameRequests' = nameRequests
      BY <1>6 DEF Contracts!NegativeExpires
    <2>2. Len(negativeNameCache) \in Nat /\ Len(negativeNameCache') \in Nat
      BY <1>6, <2>1, DeletedLeaves DEF UnknownInv, Distinct
    <2>3. negativeCacheMaxEntries \in Nat
      BY PartsConstants DEF Contracts!ConstantsOK
    <2> QED
      BY <1>6, <2>1, <2>2, <2>3, DeletedLeaves DEF UnknownInv
  <1>7. CASE UNCHANGED Contracts!vars
    BY <1>1, <1>7 DEF Contracts!vars, Contracts!indexVars
  <1> QED
    BY <1>1, <1>2, <1>3, <1>4, <1>5, <1>6, <1>7, UnknownIndexAnswers DEF Contracts!Next

LEMMA UnknownImplies == UnknownInv => Contracts!NegativeCacheIsBounded
  <1> SUFFICES ASSUME UnknownInv PROVE Contracts!NegativeCacheIsBounded
    OBVIOUS
  <1> DEFINE s == negativeNameCache
  <1>1. s \in Seq(Contracts!Names) /\ Len(s) \in Nat /\ DOMAIN s = 1 .. Len(s)
        /\ \A i, j \in 1 .. Len(s) : s[i] = s[j] => i = j
    BY DEF UnknownInv, Distinct
  <1>2. s \in Bijection(1 .. Len(s), Contracts!Range(s))
    BY <1>1 DEF Bijection, Injection, Surjection, IsInjective, Contracts!Range
  <1>3. Cardinality(Contracts!Range(s)) = Len(s)
    BY <1>1, <1>2, FS_CountingElements DEF ExistsBijection
  <1>4. Contracts!Cardinality(Contracts!Range(s)) = Cardinality(Contracts!Range(s))
    BY Zenon DEF Contracts!Cardinality, Cardinality
  <1> QED
    BY <1>3, <1>4 DEF UnknownInv, Contracts!NegativeCacheIsBounded, Contracts!Range

\* However many names the index does not know and however its answers overtake one
\* another, cacheNegativeResult() keeps its limit, keeps every name once, and none that is
\* being asked for again.
THEOREM NegativeCacheBounded == Contracts!Spec => []Contracts!NegativeCacheIsBounded
  <1>1. Contracts!Init => NamesInv /\ UnknownInv
    BY NamesInitially, UnknownInitially
  <1>2. NamesInv /\ UnknownInv /\ [Contracts!Next]_(Contracts!vars) => NamesInv' /\ UnknownInv'
    BY TablesHold, NamesInductive, UnknownInductive
  <1> QED
    BY <1>1, <1>2, UnknownImplies, PTL DEF Contracts!Spec

-----------------------------------------------------------------------------
(* TransactionPreparation: what a job on its way has established.          *)

Late == {"system", "network", "gas", "signed"}
Past == {"count"} \cup Late

JobFields == {"pc", "kind", "asset", "amount", "decimals", "scaled", "validUntilBlock", "systemFee", "networkFee",
              "claim", "began", "seen", "told"}
JobRecord(i) == DOMAIN i = JobFields

\* Where each kind of job may be.
JobShape(i) ==
    /\ JobRecord(i)
    /\ i.kind \in Preparation!Kinds
    /\ i.pc \in {"idle", "failed", "told", "magic", "decimals", "claim"} \cup Past
    /\ i.pc = "magic" => i.claim = "none"
    /\ i.pc = "decimals" => i.kind \in {"transfer", "estimate"}
    /\ i.pc = "claim" => i.kind = "claimGas"
    /\ i.pc \in {"count", "gas", "signed"} => i.kind # "estimate"

\* The job asks for the network exactly while it is not verified.
Verified(i, verified) ==
    /\ i.pc = "magic" => ~verified[Preparation!ServiceOf(i.kind)]
    /\ i.pc \in {"decimals", "claim"} \cup Past => verified[Preparation!ServiceOf(i.kind)]

\* A job on its way has seen every state of the account since it began.
Witnessing(i, h, w) ==
    i.pc \in {"magic", "decimals", "claim"} \cup Past =>
        /\ i.began \in Nat /\ i.began <= h /\ i.seen \subseteq Wallets
        /\ i.pc # "signed" => w \in i.seen

\* What is moved: known once the decimals, or both answers to a claim, have come.
Moved(i) ==
    /\ i.pc \in Past /\ i.kind = "transfer" =>
          i.scaled = Preparation!Scaled(i.amount, Preparation!DecimalsOf(i.asset)) /\ i.scaled > 0
    /\ i.kind = "claimGas" /\ (i.pc \in Past \/ (i.pc = "claim" /\ i.claim = "counted")) =>
          \E then \in i.seen : then.neo = i.scaled /\ i.scaled > 0
    /\ i.kind = "claimGas" /\ (i.pc \in Past \/ (i.pc = "claim" /\ i.claim = "worth")) =>
          \E then \in i.seen : then.unclaimed >= MinClaim

\* For how long, and at what fees.
Limited(i, h) ==
    /\ i.pc \in Late /\ i.kind # "estimate" => i.validUntilBlock \in i.began + Lifespan - 1 .. h + Lifespan
    /\ i.pc \in {"network", "gas", "signed"} => i.systemFee \in Nat
    /\ i.pc \in {"gas", "signed"} => i.networkFee \in Nat /\ i.systemFee + i.networkFee <= MaxFee
    /\ i.pc = "signed" => \E then \in i.seen : i.systemFee + i.networkFee <= then.gas

JobInv(i, h, w, verified) ==
    JobShape(i) /\ Verified(i, verified) /\ Witnessing(i, h, w) /\ Moved(i) /\ Limited(i, h)

SigningInv ==
    /\ height \in Nat /\ wallet \in Wallets /\ networkMagic \in [Preparation!Services -> BOOLEAN]
    /\ DOMAIN job = Jobs /\ job = [j \in Jobs |-> job[j]]
    /\ \A j \in Jobs : JobInv(job[j], height, wallet, networkMagic)

LEMMA PreparationTyped ==
    /\ Lifespan \in Nat \ {0} /\ MaxFee \in Nat /\ MinClaim \in Nat /\ VmMax \in Nat /\ Fees \subseteq Nat
    /\ \A w \in Wallets : w.gas \in Nat /\ w.neo \in Nat /\ w.unclaimed \in Nat
    /\ \A r \in Requests : r.kind \in Preparation!Kinds
  BY PartsConstants DEF Preparation!ConstantsOK, Preparation!Request

\* A job that has not begun, or has failed, owes nothing.
LEMMA RestingJob ==
    ASSUME NEW pc \in {"idle", "failed"}, NEW h, NEW w, NEW verified
    PROVE  JobInv([Preparation!Unstarted EXCEPT !.pc = pc], h, w, verified)
  <1> DEFINE i == [Preparation!Unstarted EXCEPT !.pc = pc]
  <1>1. JobShape(i) /\ i.pc = pc
    BY DEF Preparation!Unstarted, Preparation!Kinds, JobShape, JobRecord, JobFields
  <1> HIDE DEF i
  <1>2. JobInv(i, h, w, verified)
    BY <1>1 DEF JobInv, Verified, Witnessing, Moved, Limited, Late, Past
  <1> QED
    BY <1>2 DEF i

LEMMA OneJobMoves ==
    ASSUME SigningInv, NEW j \in Jobs, NEW i, Preparation!Become(j, i),
           UNCHANGED <<height, wallet, networkMagic>>, JobInv(i, height, wallet, networkMagic)
    PROVE  SigningInv'
  <1>1. job' = [job EXCEPT ![j] = i]
    BY DEF Preparation!Become
  <1>2. DOMAIN job' = Jobs /\ job' = [k \in Jobs |-> job'[k]] /\ \A k \in Jobs : job'[k] = IF k = j THEN i ELSE job[k]
    BY <1>1 DEF SigningInv
  <1>3. \A k \in Jobs : JobInv(job'[k], height, wallet, networkMagic)
    BY <1>2 DEF SigningInv
  <1> QED
    BY <1>2, <1>3 DEF SigningInv

LEMMA FailStep ==
    ASSUME SigningInv, NEW j \in Jobs, Preparation!Fail(j), UNCHANGED <<height, wallet, networkMagic>>
    PROVE  SigningInv'
  <1>1. JobInv([Preparation!Unstarted EXCEPT !.pc = "failed"], height, wallet, networkMagic)
    BY RestingJob
  <1> QED
    BY <1>1, OneJobMoves DEF Preparation!Fail

LEMMA SigningInitially == Preparation!Init => SigningInv
  <1> SUFFICES ASSUME Preparation!Init PROVE SigningInv
    OBVIOUS
  <1>1. JobInv([Preparation!Unstarted EXCEPT !.pc = "idle"], height, wallet, networkMagic)
    BY RestingJob
  <1>2. [Preparation!Unstarted EXCEPT !.pc = "idle"] = Preparation!Unstarted
    BY DEF Preparation!Unstarted
  <1> QED
    BY <1>1, <1>2 DEF Preparation!Init, SigningInv

LEMMA AfterMagicTyped ==
    ASSUME NEW kind \in Preparation!Kinds
    PROVE  LET pc == Preparation!AfterMagic(kind)
           IN  /\ pc \in {"decimals", "claim", "count"}
               /\ pc = "decimals" => kind \in {"transfer", "estimate"}
               /\ pc = "claim" => kind = "claimGas"
               /\ pc = "count" => kind \in {"invoke", "deploy"}
  BY DEF Preparation!AfterMagic, Preparation!Kinds

LEMMA StartStep ==
    ASSUME SigningInv, NEW j \in Jobs, NEW r \in Requests, Preparation!Start(j, r)
    PROVE  SigningInv'
  <1>1. CASE ~Preparation!Accepted(r)
    BY <1>1, FailStep DEF Preparation!Start
  <1>2. CASE Preparation!Accepted(r)
    <2> DEFINE pc == IF networkMagic[Preparation!ServiceOf(r.kind)] THEN Preparation!AfterMagic(r.kind) ELSE "magic"
               asset == IF r.kind = "claimGas" THEN "NEO" ELSE r.asset
               i == [Preparation!Unstarted EXCEPT
                       !.pc = pc, !.kind = r.kind, !.asset = asset,
                       !.amount = r.amount, !.began = height, !.seen = {wallet}]
    <2>1. Preparation!Become(j, i) /\ UNCHANGED <<height, wallet, networkMagic>>
      BY <1>2 DEF Preparation!Start
    <2>2. r.kind \in Preparation!Kinds /\ Preparation!ServiceOf(r.kind) \in Preparation!Services
      BY PreparationTyped DEF Preparation!ServiceOf, Preparation!Services
    <2>3. /\ pc \in {"magic", "decimals", "claim", "count"}
          /\ pc = "decimals" => r.kind \in {"transfer", "estimate"}
          /\ pc = "claim" => r.kind = "claimGas"
          /\ pc = "count" => r.kind \in {"invoke", "deploy"}
      BY <2>2, AfterMagicTyped
    <2>4. pc = "magic" <=> ~networkMagic[Preparation!ServiceOf(r.kind)]
      BY <2>2, AfterMagicTyped
    <2> HIDE DEF pc, asset
    <2>5. JobRecord(Preparation!Unstarted) /\ Preparation!Unstarted.claim = "none"
      BY DEF Preparation!Unstarted, JobRecord, JobFields
    <2>6. /\ i.pc = pc /\ i.kind = r.kind /\ i.began = height /\ i.seen = {wallet} /\ i.claim = "none"
          /\ JobRecord(i)
      BY <2>5 DEF JobRecord, JobFields
    <2> HIDE DEF i
    <2>7. JobShape(i) /\ Verified(i, networkMagic)
      BY <2>2, <2>3, <2>4, <2>6 DEF JobShape, Verified, Past, Late
    <2>8. Witnessing(i, height, wallet) /\ Moved(i) /\ Limited(i, height)
      BY <2>3, <2>6 DEF SigningInv, Witnessing, Moved, Limited, Past, Late
    <2> QED
      BY <2>1, <2>7, <2>8, OneJobMoves DEF JobInv
  <1> QED
    BY <1>1, <1>2

LEMMA MagicAnswersStep ==
    ASSUME SigningInv, NEW service \in Preparation!Services, NEW right \in BOOLEAN,
           Preparation!MagicAnswers(service, right)
    PROVE  SigningInv'
  <1> DEFINE waits(j) == job[j].pc = "magic" /\ Preparation!ServiceOf(job[j].kind) = service
  <1>1. /\ networkMagic' = [networkMagic EXCEPT ![service] = right]
        /\ job' = [j \in Jobs |->
              IF ~waits(j) THEN job[j]
              ELSE IF right THEN [job[j] EXCEPT !.pc = Preparation!AfterMagic(job[j].kind)]
              ELSE [Preparation!Unstarted EXCEPT !.pc = "failed"]]
        /\ UNCHANGED <<height, wallet>>
    BY DEF Preparation!MagicAnswers
  <1>2. ~networkMagic[service]
    <2>1. PICK j \in Jobs : waits(j)
      BY DEF Preparation!MagicAnswers
    <2>2. Verified(job[j], networkMagic)
      BY DEF SigningInv, JobInv
    <2> QED
      BY <2>1, <2>2 DEF Verified
  <1>3. /\ networkMagic' \in [Preparation!Services -> BOOLEAN] /\ networkMagic'[service] = right
        /\ \A s \in Preparation!Services \ {service} : networkMagic'[s] = networkMagic[s]
    BY <1>1 DEF SigningInv
  <1>4. ASSUME NEW j \in Jobs
        PROVE  JobInv(job'[j], height, wallet, networkMagic')
    <2>1. JobShape(job[j]) /\ Verified(job[j], networkMagic) /\ Witnessing(job[j], height, wallet)
          /\ Moved(job[j]) /\ Limited(job[j], height)
      BY DEF SigningInv, JobInv
    <2>2. Preparation!ServiceOf(job[j].kind) \in Preparation!Services
      BY DEF Preparation!ServiceOf, Preparation!Services
    <2>3. CASE ~waits(j)
      <3>1. job'[j] = job[j]
        BY <1>1, <2>3
      <3>2. Verified(job[j], networkMagic')
        BY <1>2, <1>3, <2>1, <2>2, <2>3 DEF Verified
      <3> QED
        BY <2>1, <3>1, <3>2 DEF JobInv
    <2>4. CASE waits(j) /\ right
      <3> DEFINE pc == Preparation!AfterMagic(job[j].kind)
                 i == [job[j] EXCEPT !.pc = pc]
      <3>1. job'[j] = i
        BY <1>1, <2>4
      <3>2. /\ pc \in {"decimals", "claim", "count"}
            /\ pc = "decimals" => job[j].kind \in {"transfer", "estimate"}
            /\ pc = "claim" => job[j].kind = "claimGas"
            /\ pc = "count" => job[j].kind \in {"invoke", "deploy"}
        BY <2>1, AfterMagicTyped DEF JobShape
      <3> HIDE DEF pc
      <3>3. /\ i.pc = pc /\ i.kind = job[j].kind /\ i.began = job[j].began /\ i.seen = job[j].seen
            /\ i.claim = "none" /\ i.scaled = job[j].scaled /\ JobShape(i)
        BY <2>1, <2>4, <3>2 DEF JobShape, JobRecord, Past
      <3> HIDE DEF i
      <3>4. Verified(i, networkMagic')
        BY <1>3, <2>4, <3>2, <3>3 DEF Verified
      <3>5. Witnessing(i, height, wallet) /\ Limited(i, height)
        BY <2>1, <2>4, <3>2, <3>3 DEF Witnessing, Limited, Past, Late
      <3>6. Moved(i)
        BY <3>2, <3>3 DEF Moved, Past, Late
      <3> QED
        BY <3>1, <3>3, <3>4, <3>5, <3>6 DEF JobInv
    <2>5. CASE waits(j) /\ ~right
      <3>1. job'[j] = [Preparation!Unstarted EXCEPT !.pc = "failed"]
        BY <1>1, <2>5
      <3> QED
        BY <3>1, RestingJob
    <2> QED
      BY <2>3, <2>4, <2>5
  <1>5. DOMAIN job' = Jobs /\ job' = [j \in Jobs |-> job'[j]]
    BY <1>1
  <1> QED
    BY <1>1, <1>3, <1>4, <1>5 DEF SigningInv

LEMMA DecimalsStep ==
    ASSUME SigningInv, NEW j \in Jobs, NEW decimals, Preparation!DecimalsAnswer(j, decimals)
    PROVE  SigningInv'
  <1> DEFINE i == job[j]
             scaled == Preparation!Scaled(i.amount, decimals)
             pc == IF i.kind = "estimate" THEN "system" ELSE "count"
             k == [i EXCEPT !.decimals = decimals, !.scaled = scaled, !.pc = pc]
  <1>1. /\ i.pc = "decimals" /\ decimals = Preparation!DecimalsOf(i.asset)
        /\ IF scaled = Preparation!Rejected THEN Preparation!Fail(j) ELSE Preparation!Become(j, k)
        /\ UNCHANGED <<height, wallet, networkMagic>>
    BY DEF Preparation!DecimalsAnswer, Preparation!ScaleBy
  <1>2. CASE scaled = Preparation!Rejected
    BY <1>1, <1>2, FailStep
  <1>3. CASE scaled # Preparation!Rejected
    <2>1. scaled \in 1 .. VmMax
      BY <1>3 DEF Preparation!Scaled
    <2>2. scaled > 0
      BY <2>1, PreparationTyped
    <2>3. JobShape(i) /\ Verified(i, networkMagic) /\ Witnessing(i, height, wallet)
      BY DEF SigningInv, JobInv
    <2> HIDE DEF i
    <2>4. i.kind \in {"transfer", "estimate"}
      BY <1>1, <2>3 DEF JobShape
    <2>5. scaled = Preparation!Scaled(i.amount, Preparation!DecimalsOf(i.asset))
      BY <1>1
    <2> HIDE DEF scaled
    <2>6. /\ k.pc = pc /\ k.kind = i.kind /\ k.asset = i.asset /\ k.amount = i.amount /\ k.scaled = scaled
          /\ k.began = i.began /\ k.seen = i.seen /\ k.claim = i.claim
          /\ JobRecord(k)
      BY <1>1, <2>3, <2>4 DEF JobShape, JobRecord, JobFields
    <2> HIDE DEF k
    <2>7. JobShape(k)
      BY <1>1, <2>3, <2>4, <2>6 DEF JobShape, Past, Late
    <2>8. Verified(k, networkMagic)
      BY <1>1, <2>3, <2>6 DEF Verified
    <2>9. Witnessing(k, height, wallet)
      BY <1>1, <2>3, <2>6 DEF Witnessing
    <2>10. Preparation!Become(j, k)
      BY <1>1, <1>3
    <2>11. Moved(k)
      BY <2>2, <2>4, <2>5, <2>6 DEF Moved
    <2>12. Limited(k, height)
      BY <2>6 DEF Limited, Late
    <2> QED
      BY <1>1, <2>6, <2>8, <2>9, <2>10, <2>11, <2>12, <2>7, OneJobMoves DEF JobInv
  <1> QED
    BY <1>2, <1>3

LEMMA UnclaimedStep ==
    ASSUME SigningInv, NEW j \in Jobs, Preparation!UnclaimedAnswers(j)
    PROVE  SigningInv'
  <1> DEFINE i == job[j]
             k == [i EXCEPT !.pc = "count"]
             l == [i EXCEPT !.claim = "worth"]
  <1>1. /\ i.pc = "claim" /\ i.claim # "worth"
        /\ IF wallet.unclaimed < MinClaim THEN Preparation!Fail(j)
           ELSE IF i.claim = "counted" THEN Preparation!Become(j, k) ELSE Preparation!Become(j, l)
        /\ UNCHANGED <<height, wallet, networkMagic>>
    BY DEF Preparation!UnclaimedAnswers
  <1>2. /\ JobShape(i) /\ Verified(i, networkMagic) /\ Witnessing(i, height, wallet) /\ Moved(i)
        /\ wallet \in Wallets
    BY DEF SigningInv, JobInv
  <1> HIDE DEF i
  <1>3. i.kind = "claimGas" /\ wallet \in i.seen
    BY <1>1, <1>2 DEF JobShape, Witnessing
  <1>4. CASE wallet.unclaimed < MinClaim
    BY <1>1, <1>4, FailStep
  <1>5. CASE ~(wallet.unclaimed < MinClaim) /\ i.claim = "counted"
    <2>1. /\ k.pc = "count" /\ k.kind = i.kind /\ k.scaled = i.scaled /\ k.began = i.began /\ k.seen = i.seen
          /\ k.claim = i.claim /\ JobRecord(k)
      BY <1>2, <1>3 DEF JobShape, JobRecord, JobFields
    <2> HIDE DEF k
    <2>2. JobShape(k)
      BY <1>2, <1>3, <2>1 DEF JobShape, Past, Late
    <2>3. Verified(k, networkMagic) /\ Witnessing(k, height, wallet)
      BY <1>1, <1>2, <2>1 DEF Verified, Witnessing, Past
    <2>4. Preparation!Become(j, k)
      BY <1>1, <1>5
    <2>5. \E then \in i.seen : then.neo = i.scaled /\ i.scaled > 0
      BY <1>1, <1>2, <1>3, <1>5 DEF Moved
    <2>6. wallet.unclaimed >= MinClaim
      BY <1>2, <1>5, PreparationTyped
    <2>7. Moved(k)
      BY <1>3, <2>1, <2>5, <2>6 DEF Moved
    <2>8. Limited(k, height)
      BY <2>1 DEF Limited, Late
    <2> QED
      BY <1>1, <2>1, <2>3, <2>4, <2>7, <2>8, <2>2, OneJobMoves DEF JobInv
  <1>6. CASE ~(wallet.unclaimed < MinClaim) /\ i.claim # "counted"
    <2>1. /\ l.pc = i.pc /\ l.kind = i.kind /\ l.scaled = i.scaled /\ l.began = i.began /\ l.seen = i.seen
          /\ l.claim = "worth" /\ JobRecord(l)
      BY <1>1, <1>2, <1>3 DEF JobShape, JobRecord, JobFields
    <2> HIDE DEF l
    <2>2. JobShape(l)
      BY <1>1, <1>2, <1>3, <2>1 DEF JobShape, Past, Late
    <2>3. Verified(l, networkMagic) /\ Witnessing(l, height, wallet)
      BY <1>1, <1>2, <2>1 DEF Verified, Witnessing
    <2>4. Preparation!Become(j, l)
      BY <1>1, <1>6
    <2>5. wallet.unclaimed >= MinClaim
      BY <1>2, <1>6, PreparationTyped
    <2>6. Moved(l)
      BY <1>1, <1>3, <2>1, <2>5 DEF Moved, Past, Late
    <2>7. Limited(l, height)
      BY <1>1, <2>1 DEF Limited, Late
    <2> QED
      BY <1>1, <2>1, <2>3, <2>4, <2>6, <2>7, <2>2, OneJobMoves DEF JobInv
  <1> QED
    BY <1>4, <1>5, <1>6

LEMMA NeoBalanceStep ==
    ASSUME SigningInv, NEW j \in Jobs, Preparation!NeoBalanceAnswers(j)
    PROVE  SigningInv'
  <1> DEFINE i == job[j]
             pc == IF i.claim = "worth" THEN "count" ELSE "claim"
             k == [i EXCEPT !.scaled = wallet.neo, !.pc = pc, !.claim = "counted"]
  <1>1. /\ i.pc = "claim" /\ i.claim # "counted"
        /\ IF wallet.neo = 0 THEN Preparation!Fail(j) ELSE Preparation!Become(j, k)
        /\ UNCHANGED <<height, wallet, networkMagic>>
    BY DEF Preparation!NeoBalanceAnswers
  <1>2. /\ JobShape(i) /\ Verified(i, networkMagic) /\ Witnessing(i, height, wallet) /\ Moved(i)
        /\ wallet \in Wallets
    BY DEF SigningInv, JobInv
  <1> HIDE DEF i
  <1>3. i.kind = "claimGas" /\ wallet \in i.seen
    BY <1>1, <1>2 DEF JobShape, Witnessing
  <1>4. CASE wallet.neo = 0
    BY <1>1, <1>4, FailStep
  <1>5. CASE wallet.neo # 0
    <2>1. /\ k.pc = pc /\ k.kind = i.kind /\ k.scaled = wallet.neo /\ k.began = i.began /\ k.seen = i.seen
          /\ k.claim = "counted" /\ JobRecord(k)
      BY <1>1, <1>2, <1>3 DEF JobShape, JobRecord, JobFields
    <2> HIDE DEF k
    <2>2. JobShape(k)
      BY <1>1, <1>2, <1>3, <2>1 DEF JobShape, Past, Late
    <2>3. Verified(k, networkMagic) /\ Witnessing(k, height, wallet)
      BY <1>1, <1>2, <2>1 DEF Verified, Witnessing, Past
    <2>4. Preparation!Become(j, k)
      BY <1>1, <1>5
    <2>5. wallet.neo > 0
      BY <1>2, <1>5, PreparationTyped
    <2>6. i.claim = "worth" => \E then \in i.seen : then.unclaimed >= MinClaim
      BY <1>1, <1>2, <1>3 DEF Moved
    <2>7. pc = "count" => i.claim = "worth"
      OBVIOUS
    <2>8. pc \in {"count", "claim"}
      OBVIOUS
    <2>9. Moved(k)
      BY <1>3, <2>1, <2>5, <2>6, <2>7, <2>8 DEF Moved, Past, Late
    <2>10. Limited(k, height)
      BY <2>1, <2>8 DEF Limited, Late
    <2> QED
      BY <1>1, <2>1, <2>3, <2>4, <2>9, <2>10, <2>2, OneJobMoves DEF JobInv
  <1> QED
    BY <1>4, <1>5

LEMMA CountStep ==
    ASSUME SigningInv, NEW j \in Jobs, NEW behind \in 0 .. 1, Preparation!CountAnswers(j, behind)
    PROVE  SigningInv'
  <1> DEFINE i == job[j]
             limit == Preparation!ValidUntil(height + 1 - behind)
             k == [i EXCEPT !.validUntilBlock = limit, !.pc = "system"]
  <1>1. i.pc = "count" /\ height >= behind /\ Preparation!Become(j, k) /\ UNCHANGED <<height, wallet, networkMagic>>
    BY DEF Preparation!CountAnswers
  <1>2. /\ JobShape(i) /\ Verified(i, networkMagic) /\ Witnessing(i, height, wallet) /\ Moved(i)
        /\ height \in Nat
    BY DEF SigningInv, JobInv
  <1> HIDE DEF i
  <1>3. i.began \in Nat /\ i.began <= height
    BY <1>1, <1>2 DEF Witnessing, Past
  <1>4. limit \in i.began + Lifespan - 1 .. height + Lifespan
    BY <1>1, <1>2, <1>3, PreparationTyped DEF Preparation!ValidUntil
  <1> HIDE DEF limit
  <1>5. /\ k.pc = "system" /\ k.kind = i.kind /\ k.asset = i.asset /\ k.amount = i.amount /\ k.scaled = i.scaled
        /\ k.began = i.began /\ k.seen = i.seen /\ k.claim = i.claim /\ k.validUntilBlock = limit /\ JobRecord(k)
    BY <1>2 DEF JobShape, JobRecord, JobFields
  <1> HIDE DEF k
  <1>6. JobShape(k)
    BY <1>2, <1>5 DEF JobShape, Past, Late
  <1>7. Verified(k, networkMagic) /\ Witnessing(k, height, wallet) /\ Moved(k)
    BY <1>1, <1>2, <1>5 DEF Verified, Witnessing, Moved, Past, Late
  <1>8. Limited(k, height)
    BY <1>4, <1>5 DEF Limited
  <1> QED
    BY <1>1, <1>5, <1>7, <1>8, <1>6, OneJobMoves DEF JobInv

LEMMA SystemFeeStep ==
    ASSUME SigningInv, NEW j \in Jobs, NEW fee \in Fees, NEW halting \in BOOLEAN,
           Preparation!SystemFeeAnswers(j, fee, halting)
    PROVE  SigningInv'
  <1> DEFINE i == job[j]
             k == [i EXCEPT !.systemFee = fee, !.pc = "network"]
  <1>1. /\ i.pc = "system" /\ UNCHANGED <<height, wallet, networkMagic>>
        /\ IF halting THEN Preparation!Become(j, k) ELSE Preparation!Fail(j)
    BY DEF Preparation!SystemFeeAnswers
  <1>2. JobShape(i) /\ Verified(i, networkMagic) /\ Witnessing(i, height, wallet) /\ Moved(i) /\ Limited(i, height)
    BY DEF SigningInv, JobInv
  <1> HIDE DEF i
  <1>3. CASE ~halting
    BY <1>1, <1>3, FailStep
  <1>4. CASE halting
    <2>1. /\ k.pc = "network" /\ k.kind = i.kind /\ k.asset = i.asset /\ k.amount = i.amount /\ k.scaled = i.scaled
          /\ k.began = i.began /\ k.seen = i.seen /\ k.claim = i.claim /\ k.validUntilBlock = i.validUntilBlock
          /\ k.systemFee = fee /\ JobRecord(k)
      BY <1>2 DEF JobShape, JobRecord, JobFields
    <2> HIDE DEF k
    <2>2. JobShape(k)
      BY <1>2, <2>1 DEF JobShape, Past, Late
    <2>3. Preparation!Become(j, k)
      BY <1>1, <1>4
    <2>4. Verified(k, networkMagic) /\ Witnessing(k, height, wallet) /\ Moved(k)
      BY <1>1, <1>2, <2>1 DEF Verified, Witnessing, Moved, Past, Late
    <2>5. Limited(k, height)
      BY <1>1, <1>2, <2>1, PreparationTyped DEF Limited, Late
    <2> QED
      BY <1>1, <2>1, <2>3, <2>4, <2>5, <2>2, OneJobMoves DEF JobInv
  <1> QED
    BY <1>3, <1>4

LEMMA NetworkFeeStep ==
    ASSUME SigningInv, NEW j \in Jobs, NEW fee \in Fees, Preparation!NetworkFeeAnswers(j, fee)
    PROVE  SigningInv'
  <1> DEFINE i == job[j]
             said == Preparation!FormatDatosAsGas(i.systemFee)
             k == [i EXCEPT !.networkFee = fee, !.pc = "gas"]
             l == [i EXCEPT !.networkFee = fee, !.pc = "told", !.told = said]
  <1>1. /\ i.pc = "network" /\ UNCHANGED <<height, wallet, networkMagic>>
        /\ IF i.kind = "estimate" THEN Preparation!Become(j, l)
           ELSE IF i.systemFee + fee <= MaxFee THEN Preparation!Become(j, k)
           ELSE Preparation!Fail(j)
    BY Zenon DEF Preparation!NetworkFeeAnswers, Preparation!Estimated, Preparation!WithinCap
  <1> HIDE DEF said
  <1>2. JobShape(i) /\ Verified(i, networkMagic) /\ Witnessing(i, height, wallet) /\ Moved(i) /\ Limited(i, height)
    BY DEF SigningInv, JobInv
  <1> HIDE DEF i
  <1>3. CASE i.kind = "estimate"
    <2>1. l.pc = "told" /\ l.kind = i.kind /\ JobRecord(l)
      BY <1>2 DEF JobShape, JobRecord, JobFields
    <2> HIDE DEF l
    <2>2. JobShape(l)
      BY <1>2, <2>1 DEF JobShape, Past, Late
    <2>3. Preparation!Become(j, l)
      BY <1>1, <1>3
    <2>4. Verified(l, networkMagic) /\ Witnessing(l, height, wallet) /\ Moved(l) /\ Limited(l, height)
      BY <2>1 DEF Verified, Witnessing, Moved, Limited, Past, Late
    <2> QED
      BY <1>1, <2>1, <2>3, <2>4, <2>2, OneJobMoves DEF JobInv
  <1>4. CASE i.kind # "estimate" /\ i.systemFee + fee <= MaxFee
    <2>1. /\ k.pc = "gas" /\ k.kind = i.kind /\ k.asset = i.asset /\ k.amount = i.amount /\ k.scaled = i.scaled
          /\ k.began = i.began /\ k.seen = i.seen /\ k.claim = i.claim /\ k.validUntilBlock = i.validUntilBlock
          /\ k.systemFee = i.systemFee /\ k.networkFee = fee /\ JobRecord(k)
      BY <1>2, <1>4 DEF JobShape, JobRecord, JobFields
    <2> HIDE DEF k
    <2>2. JobShape(k)
      BY <1>2, <1>4, <2>1 DEF JobShape, Past, Late
    <2>3. Preparation!Become(j, k)
      BY <1>1, <1>4
    <2>4. Verified(k, networkMagic) /\ Witnessing(k, height, wallet) /\ Moved(k)
      BY <1>1, <1>2, <2>1 DEF Verified, Witnessing, Moved, Past, Late
    <2>5. Limited(k, height)
      BY <1>1, <1>2, <1>4, <2>1, PreparationTyped DEF Limited, Late
    <2> QED
      BY <1>1, <2>1, <2>3, <2>4, <2>5, <2>2, OneJobMoves DEF JobInv
  <1>5. CASE i.kind # "estimate" /\ ~(i.systemFee + fee <= MaxFee)
    BY <1>1, <1>5, FailStep
  <1> QED
    BY <1>3, <1>4, <1>5

LEMMA GasBalanceStep ==
    ASSUME SigningInv, NEW j \in Jobs, Preparation!GasBalanceAnswers(j)
    PROVE  SigningInv'
  <1> DEFINE i == job[j]
             k == [i EXCEPT !.pc = "signed"]
  <1>1. /\ i.pc = "gas" /\ UNCHANGED <<height, wallet, networkMagic>>
        /\ IF wallet.gas < i.systemFee + i.networkFee THEN Preparation!Fail(j) ELSE Preparation!Become(j, k)
    BY DEF Preparation!GasBalanceAnswers, Preparation!Signed
  <1>2. /\ JobShape(i) /\ Verified(i, networkMagic) /\ Witnessing(i, height, wallet) /\ Moved(i) /\ Limited(i, height)
        /\ wallet \in Wallets
    BY DEF SigningInv, JobInv
  <1> HIDE DEF i
  <1>3. CASE wallet.gas < i.systemFee + i.networkFee
    BY <1>1, <1>3, FailStep
  <1>4. CASE ~(wallet.gas < i.systemFee + i.networkFee)
    <2>1. /\ k.pc = "signed" /\ k.kind = i.kind /\ k.asset = i.asset /\ k.amount = i.amount /\ k.scaled = i.scaled
          /\ k.began = i.began /\ k.seen = i.seen /\ k.claim = i.claim /\ k.validUntilBlock = i.validUntilBlock
          /\ k.systemFee = i.systemFee /\ k.networkFee = i.networkFee /\ JobRecord(k)
      BY <1>1, <1>2 DEF JobShape, JobRecord, JobFields
    <2> HIDE DEF k
    <2>2. JobShape(k)
      BY <1>1, <1>2, <2>1 DEF JobShape, Past, Late
    <2>3. Preparation!Become(j, k)
      BY <1>1, <1>4
    <2>4. i.systemFee + i.networkFee <= wallet.gas
      BY <1>1, <1>2, <1>4, PreparationTyped DEF Limited
    <2>5. wallet \in i.seen
      BY <1>1, <1>2 DEF Witnessing, Past, Late
    <2>6. Verified(k, networkMagic) /\ Witnessing(k, height, wallet) /\ Moved(k)
      BY <1>1, <1>2, <2>1 DEF Verified, Witnessing, Moved, Past, Late
    <2>7. Limited(k, height)
      BY <1>1, <1>2, <2>1, <2>4, <2>5 DEF Limited, Late
    <2> QED
      BY <1>1, <2>1, <2>3, <2>6, <2>7, <2>2, OneJobMoves DEF JobInv
  <1> QED
    BY <1>3, <1>4

LEMMA BlockStep ==
    ASSUME SigningInv, NEW after \in Wallets, Preparation!Block(after)
    PROVE  SigningInv'
  <1>1. /\ height' = height + 1 /\ wallet' = after /\ UNCHANGED networkMagic
        /\ job' = [j \in Jobs |-> IF Preparation!AtRest(j) THEN job[j]
                                  ELSE [job[j] EXCEPT !.seen = @ \cup {after}]]
    BY DEF Preparation!Block
  <1>2. height \in Nat
    BY DEF SigningInv
  <1>3. ASSUME NEW j \in Jobs
        PROVE  JobInv(job'[j], height + 1, after, networkMagic)
    <2> DEFINE i == job[j]
               k == [i EXCEPT !.seen = @ \cup {after}]
    <2>1. JobShape(i) /\ Verified(i, networkMagic) /\ Witnessing(i, height, wallet) /\ Moved(i) /\ Limited(i, height)
      BY DEF SigningInv, JobInv
    <2> HIDE DEF i
    <2>2. CASE i.pc \in {"idle", "failed", "signed", "told"}
      <3>1. job'[j] = i
        BY <1>1, <2>2 DEF Preparation!AtRest, i
      <3>2. Witnessing(i, height + 1, after)
        BY <1>2, <2>1, <2>2 DEF Witnessing, Past, Late
      <3>3. i.pc = "signed" => i.began \in Nat
        BY <2>1 DEF Witnessing, Past, Late
      <3>4. Limited(i, height + 1)
        BY <1>2, <2>1, <2>2, <3>3, PreparationTyped DEF Limited, Late
      <3> QED
        BY <2>1, <3>1, <3>2, <3>4 DEF JobInv
    <2>3. CASE i.pc \notin {"idle", "failed", "signed", "told"}
      <3>1. job'[j] = k
        BY <1>1, <2>3 DEF Preparation!AtRest, i, k
      <3>2. /\ k.pc = i.pc /\ k.kind = i.kind /\ k.asset = i.asset /\ k.amount = i.amount /\ k.scaled = i.scaled
            /\ k.began = i.began /\ k.seen = i.seen \cup {after} /\ k.claim = i.claim
            /\ k.validUntilBlock = i.validUntilBlock /\ k.systemFee = i.systemFee /\ k.networkFee = i.networkFee
            /\ JobRecord(k)
        BY <2>1 DEF JobShape, JobRecord, JobFields
      <3> HIDE DEF k
      <3>3. JobShape(k)
        BY <2>1, <3>2 DEF JobShape, Past, Late
      <3>4. i.pc \in {"magic", "decimals", "claim"} \cup Past
        BY <2>1, <2>3 DEF JobShape
      <3>5. i.began \in Nat /\ i.began <= height /\ i.seen \subseteq Wallets
        BY <2>1, <3>4 DEF Witnessing
      <3>6. Witnessing(k, height + 1, after)
        BY <1>2, <3>2, <3>5 DEF Witnessing
      <3>7. Verified(k, networkMagic) /\ Moved(k)
        BY <2>1, <3>2 DEF Verified, Moved
      <3>8. Limited(k, height + 1)
        BY <1>2, <2>1, <2>3, <3>2, <3>5, PreparationTyped DEF Limited, Late
      <3> QED
        BY <3>1, <3>3, <3>6, <3>7, <3>8 DEF JobInv
    <2> QED
      BY <2>2, <2>3
  <1>4. DOMAIN job' = Jobs /\ job' = [j \in Jobs |-> job'[j]]
    BY <1>1
  <1> QED
    BY <1>1, <1>2, <1>3, <1>4 DEF SigningInv

LEMMA SigningInductive ==
    ASSUME SigningInv, [Preparation!Next]_(Preparation!vars)
    PROVE  SigningInv'
  <1>1. CASE UNCHANGED Preparation!vars
    BY <1>1 DEF Preparation!vars, SigningInv
  <1>2. ASSUME NEW j \in Jobs, Preparation!Step(j)
        PROVE  SigningInv'
    <2>1. ASSUME Preparation!RpcFails(j)
          PROVE  SigningInv'
      BY <2>1, FailStep DEF Preparation!RpcFails
    <2> QED
      BY <1>2, <2>1, StartStep, DecimalsStep, UnclaimedStep, NeoBalanceStep, CountStep, SystemFeeStep, NetworkFeeStep,
         GasBalanceStep DEF Preparation!Step
  <1> QED
    BY <1>1, <1>2, MagicAnswersStep, BlockStep DEF Preparation!Next

LEMMA SigningImplies == SigningInv => Preparation!SignedIsSound
  <1> SUFFICES ASSUME SigningInv, NEW j \in Jobs, job[j].pc = "signed"
               PROVE  LET i == job[j] IN
                      /\ networkMagic[Preparation!ServiceOf(i.kind)]
                      /\ i.validUntilBlock \in i.began + Lifespan - 1 .. height + Lifespan
                      /\ i.systemFee + i.networkFee <= MaxFee
                      /\ \E then \in i.seen : i.systemFee + i.networkFee <= then.gas
                      /\ i.kind = "transfer" =>
                            i.scaled = Preparation!Scaled(i.amount, Preparation!DecimalsOf(i.asset)) /\ i.scaled > 0
                      /\ i.kind = "claimGas" =>
                            /\ \E then \in i.seen : then.neo = i.scaled /\ i.scaled > 0
                            /\ \E then \in i.seen : then.unclaimed >= MinClaim
    BY Zenon DEF Preparation!SignedIsSound
  <1> DEFINE i == job[j]
  <1>1. JobShape(i) /\ Verified(i, networkMagic) /\ Moved(i) /\ Limited(i, height)
    BY DEF SigningInv, JobInv
  <1>2. i.pc \in Past /\ i.pc \in Late /\ i.kind # "estimate"
    BY <1>1 DEF JobShape, Past, Late
  <1>3. networkMagic[Preparation!ServiceOf(i.kind)]
    BY <1>1, <1>2 DEF Verified
  <1>4. /\ i.validUntilBlock \in i.began + Lifespan - 1 .. height + Lifespan
        /\ i.systemFee + i.networkFee <= MaxFee
        /\ \E then \in i.seen : i.systemFee + i.networkFee <= then.gas
    BY <1>1, <1>2 DEF Limited
  <1>5. /\ i.kind = "transfer" =>
              i.scaled = Preparation!Scaled(i.amount, Preparation!DecimalsOf(i.asset)) /\ i.scaled > 0
        /\ i.kind = "claimGas" =>
              /\ \E then \in i.seen : then.neo = i.scaled /\ i.scaled > 0
              /\ \E then \in i.seen : then.unclaimed >= MinClaim
    BY <1>1, <1>2 DEF Moved
  <1> QED
    BY <1>3, <1>4, <1>5

\* What this process signs is for a verified network, valid for a time every node allows,
\* at fees within the cap that were there, and of the amount asked for: however the
\* chain and the account change while it is prepared.
THEOREM PreparedIsSound == Preparation!Spec => []Preparation!SignedIsSound
  <1>1. SigningInv /\ [Preparation!Next]_(Preparation!vars) => SigningInv'
    BY SigningInductive
  <1> QED
    BY <1>1, SigningInitially, SigningImplies, PTL DEF Preparation!Spec

-----------------------------------------------------------------------------
(* TransactionPreparation: amounts.                                        *)

\* The numerals of the part are those of the lemmas.
LEMMA PreparationNumerals ==
    /\ \A digits : Preparation!Number(digits) = NumberOf(10, digits)
    /\ \A n : Preparation!Power(10, n) = Power(10, n) /\ Preparation!Zeros(n) = Zeros(n)
    /\ \A v, size : Preparation!DigitsOf(10, v, size) = DigitsOf(10, v, size)
  <1>1. ASSUME NEW base, NEW start, NEW digits
        PROVE  Preparation!Behind(base, start, digits) = Behind(base, start, digits)
    <2>1. Preparation!Prefixes(base, start, digits) = Prefixes(base, start, digits)
      BY DEF Preparation!Prefixes, Prefixes
    <2> QED
      BY <2>1 DEF Preparation!Behind, Behind
  <1>2. ASSUME NEW digits
        PROVE  Preparation!Number(digits) = NumberOf(10, digits)
    BY <1>1 DEF Preparation!Number, Preparation!NumberOf, NumberOf
  <1>3. ASSUME NEW n
        PROVE  Preparation!Zeros(n) = Zeros(n)
    BY DEF Preparation!Zeros, Zeros
  <1>4. ASSUME NEW n
        PROVE  Preparation!Power(10, n) = Power(10, n)
    BY <1>1, <1>3 DEF Preparation!Power, Power
  <1>5. ASSUME NEW v, NEW size
        PROVE  Preparation!DigitsOf(10, v, size) = DigitsOf(10, v, size)
    BY <1>4 DEF Preparation!DigitsOf, DigitsOf
  <1> QED
    BY <1>2, <1>3, <1>4, <1>5

\* A decimal with noughts up to some places, over the power of the places it has.
LEMMA ScaledDecimal ==
    ASSUME NEW whole \in Seq(Nat), NEW fraction \in Seq(Nat), NEW places \in Nat, Len(fraction) <= places
    PROVE  LET number == NumberOf(10, whole \o fraction) IN
           /\ number \in Nat
           /\ NumberOf(10, whole \o fraction \o Zeros(places - Len(fraction)))
                 = number * Power(10, places - Len(fraction))
           /\ number * Power(10, places)
                 = (number * Power(10, places - Len(fraction))) * Power(10, Len(fraction))
  <1> DEFINE l == Len(fraction)
             rest == places - l
             digits == whole \o fraction
             number == NumberOf(10, digits)
             p == Power(10, rest)
             q == Power(10, l)
  <1>1. l \in Nat /\ rest \in Nat /\ rest + l = places /\ digits \in Seq(Nat) /\ 10 \in Nat \ {0}
    OBVIOUS
  <1> HIDE DEF l, rest, digits
  <1>2. number \in Nat
    BY <1>1, NumberTyped
  <1>3. p \in Nat /\ q \in Nat /\ Power(10, rest + l) = p * q
    BY <1>1, PowerSteps, PowerAdds
  <1>4. NumberOf(10, digits \o Zeros(rest)) = number * p
    BY <1>1, ZerosScale
  <1> HIDE DEF number, p, q
  <1>5. number * (p * q) = (number * p) * q
    BY <1>2, <1>3
  <1> QED
    BY <1>1, <1>2, <1>3, <1>4, <1>5 DEF number, p, q, rest, l, digits

\* scaleTokenAmount() keeps the digits.
LEMMA ScaledExact ==
    ASSUME NEW amount, amount.whole \in Seq(Nat), amount.fraction \in Seq(Nat), NEW places,
           Preparation!Scaled(amount, places) # Preparation!Rejected
    PROVE  Preparation!Number(amount.whole \o amount.fraction) * Preparation!Power(10, places)
              = Preparation!Scaled(amount, places) * Preparation!Power(10, Len(amount.fraction))
  <1>1. /\ places \in Nat /\ Len(amount.fraction) <= places
        /\ Preparation!Scaled(amount, places)
              = Preparation!Number(amount.whole \o amount.fraction \o Preparation!Zeros(places - Len(amount.fraction)))
    <2>1. places \in 0 .. 255 /\ ~(Len(amount.fraction) > places) /\ Len(amount.fraction) \in Nat
      BY DEF Preparation!Scaled
    <2> QED
      BY <2>1 DEF Preparation!Scaled
  <1>2. Preparation!Scaled(amount, places)
           = NumberOf(10, amount.whole \o amount.fraction \o Zeros(places - Len(amount.fraction)))
    BY <1>1, PreparationNumerals
  <1>3. /\ NumberOf(10, amount.whole \o amount.fraction \o Zeros(places - Len(amount.fraction)))
              = NumberOf(10, amount.whole \o amount.fraction) * Power(10, places - Len(amount.fraction))
        /\ NumberOf(10, amount.whole \o amount.fraction) * Power(10, places)
              = (NumberOf(10, amount.whole \o amount.fraction) * Power(10, places - Len(amount.fraction)))
                   * Power(10, Len(amount.fraction))
    BY <1>1, ScaledDecimal
  <1> QED
    BY <1>2, <1>3, PreparationNumerals

\* The places after the point up to the last that is not nought.
LEMMA UsedPlaces ==
    ASSUME NEW d \in Seq(Nat)
    PROVE  LET used == Preparation!Max({0} \cup {i \in DOMAIN d : d[i] # 0})
           IN  used \in 0 .. Len(d) /\ \A i \in 1 .. Len(d) : i > used => d[i] = 0
  <1> DEFINE l == Len(d)
             T == {0} \cup {i \in DOMAIN d : d[i] # 0}
  <1>1. l \in Nat /\ DOMAIN d = 1 .. l /\ T \in SUBSET Nat /\ T # {} /\ \A i \in T : i <= l /\ i \in Nat
    OBVIOUS
  <1>2. \A i \in 1 .. l : d[i] # 0 => i \in T
    BY <1>1
  <1> HIDE DEF l, T
  <1>3. \E m \in T : \A i \in T : i <= m
    BY <1>1, GreatestElement
  <1>4. Preparation!Max(T) = CHOOSE m \in T : \A i \in T : m >= i
    BY DEF Preparation!Max
  <1>5. Preparation!Max(T) \in T /\ \A i \in T : Preparation!Max(T) >= i
    <2>1. PICK m \in T : \A i \in T : i <= m
      BY <1>3
    <2>2. \A i \in T : m >= i
      BY <1>1, <2>1
    <2> QED
      BY <1>4, <2>2
  <1> DEFINE used == Preparation!Max(T)
  <1>6. used \in 0 .. l /\ \A i \in 1 .. l : d[i] # 0 => used >= i
    <2>1. used \in Nat /\ used <= l
      BY <1>1, <1>5
    <2>2. \A i \in 1 .. l : d[i] # 0 => used >= i
      BY <1>2, <1>5
    <2> HIDE DEF used
    <2> QED
      BY <1>1, <2>1, <2>2
  <1> HIDE DEF used
  <1>7. \A i \in 1 .. l : i > used => d[i] = 0
    BY <1>1, <1>6
  <1> QED
    BY <1>6, <1>7 DEF used, T, l

\* The digits of a number, at least n of them, and no nought before more.
LEMMA DigitsOfNumber ==
    ASSUME NEW v \in Nat, NEW n \in Nat \ {0}
    PROVE  LET digits == Preparation!Digits(v, n) IN
           /\ digits \in Seq(Nat) /\ Len(digits) >= n /\ NumberOf(10, digits) = v
           /\ Len(digits) > n => digits[1] # 0
  <1> DEFINE size == CHOOSE k \in n .. n + v :
                        v < Preparation!Power(10, k) /\ (k = n \/ Preparation!Power(10, k - 1) <= v)
  <1>ten. 10 \in Nat /\ 10 > 1 /\ 10 \in Nat \ {0}
    OBVIOUS
  <1>1. \E k \in n .. n + v : v < Preparation!Power(10, k) /\ (k = n \/ Preparation!Power(10, k - 1) <= v)
    <2>1. \E k \in n .. n + v : v < Power(10, k) /\ (k = n \/ Power(10, k - 1) <= v)
      BY <1>ten, SizeExists
    <2> QED
      BY <2>1, PreparationNumerals
  <1>2. size \in n .. n + v /\ v < Preparation!Power(10, size) /\ (size = n \/ Preparation!Power(10, size - 1) <= v)
    BY <1>1
  <1>3. Preparation!Digits(v, n) = Preparation!DigitsOf(10, v, size)
    BY DEF Preparation!Digits
  <1> HIDE DEF size
  <1> DEFINE digits == DigitsOf(10, v, size)
  <1>4. /\ size \in Nat \ {0} /\ size >= n /\ v < Power(10, size) /\ (size = n \/ Power(10, size - 1) <= v)
        /\ Preparation!Digits(v, n) = digits
    BY <1>2, <1>3, PreparationNumerals
  <1>5. digits \in Seq(Nat) /\ Len(digits) = size
    BY <1>ten, <1>4, DigitsAre
  <1>6. NumberOf(10, digits) = v
    BY <1>ten, <1>4, DigitsExact
  <1>7. size > n => digits[1] # 0
    BY <1>ten, <1>4, LeadingDigit
  <1> HIDE DEF digits
  <1> QED
    BY <1>4, <1>5, <1>6, <1>7

\* What formatDatosAsGas() writes is read as the number it was.
LEMMA FormattedParses ==
    ASSUME NEW v \in Nat \ {0}, GasDecimals \in Nat
    PROVE  Preparation!ParseGasAmountToDatos(Preparation!FormatDatosAsGas(v)) = v
  <1> DEFINE g == GasDecimals
             digits == Preparation!Digits(v, g + 1)
             l == Len(digits)
             whole == SubSeq(digits, 1, l - g)
             places == SubSeq(digits, l - g + 1, l)
             used == Preparation!Max({0} \cup {i \in DOMAIN places : places[i] # 0})
             fraction == SubSeq(places, 1, used)
             told == Preparation!FormatDatosAsGas(v)
  <1>1. /\ digits \in Seq(Nat) /\ l >= g + 1 /\ NumberOf(10, digits) = v
        /\ l > g + 1 => digits[1] # 0
    <2>1. g + 1 \in Nat \ {0}
      OBVIOUS
    <2> HIDE DEF g
    <2> QED
      BY <2>1, DigitsOfNumber
  <1>2. told.plain /\ told.whole = whole /\ told.fraction = fraction
    BY DEF Preparation!FormatDatosAsGas
  <1> HIDE DEF told, digits
  <1>3. g \in Nat /\ l \in Nat /\ l - g \in Nat /\ l - g >= 1
    BY <1>1
  <1>4. whole \in Seq(Nat) /\ Len(whole) = l - g /\ places \in Seq(Nat) /\ Len(places) = g
    BY SMTT(40), <1>1, <1>3
  <1>5. whole \o places = digits
    BY <1>1, <1>3
  <1>6. whole[1] = digits[1]
    BY <1>1, <1>3
  <1> HIDE DEF whole, places
  <1>7. used \in 0 .. g /\ \A i \in 1 .. g : i > used => places[i] = 0
    BY <1>4, UsedPlaces
  <1> HIDE DEF used
  <1>8. Len(fraction) = used
    BY <1>4, <1>7
  <1>9. fraction \o Zeros(g - used) = places
    BY <1>4, <1>7, EndInZeros
  <1> HIDE DEF fraction
  <1>10. NumberOf(10, whole) * Power(10, g) + NumberOf(10, places) = v
    <2>1. 10 \in Nat \ {0}
      OBVIOUS
    <2> QED
      BY <1>1, <1>4, <1>5, <2>1, NumberJoins
  <1>11. Preparation!Number(told.whole) * Preparation!Power(10, g)
            + Preparation!Number(told.fraction \o Preparation!Zeros(g - Len(told.fraction))) = v
    BY <1>2, <1>8, <1>9, <1>10, PreparationNumerals
  <1>12. ~(Len(told.whole) > 1 /\ told.whole[1] = 0)
    BY <1>1, <1>2, <1>3, <1>4, <1>6
  <1>13. ~(Len(told.fraction) > g)
    BY <1>2, <1>3, <1>7, <1>8
  <1> DEFINE datos == Preparation!Number(told.whole) * Preparation!Power(10, g)
                         + Preparation!Number(told.fraction \o Preparation!Zeros(g - Len(told.fraction)))
  <1>14. Preparation!ParseGasAmountToDatos(told)
            = IF ~told.plain \/ (Len(told.whole) > 1 /\ told.whole[1] = 0) \/ Len(told.fraction) > g \/ datos = 0
              THEN Preparation!Rejected ELSE datos
    BY DEF Preparation!ParseGasAmountToDatos
  <1>15. datos = v /\ datos # 0
    BY <1>11
  <1> HIDE DEF datos, g
  <1> QED
    BY <1>2, <1>12, <1>13, <1>14, <1>15 DEF told

\* A job keeps the digits it was asked for; what it scales by is the decimals of its
\* asset; and an estimate tells its fee.
AmountInv(i) ==
    /\ i.amount.whole \in Seq(Nat) /\ i.amount.fraction \in Seq(Nat)
    /\ i.kind = "transfer" /\ i.pc \in Past => i.decimals = Preparation!DecimalsOf(i.asset)
    /\ i.pc = "told" => i.systemFee \in Nat /\ i.told = Preparation!FormatDatosAsGas(i.systemFee)
AmountsInv == \A j \in Jobs : AmountInv(job[j])

LEMMA AmountRests ==
    ASSUME NEW pc \in {"idle", "failed"}
    PROVE  AmountInv([Preparation!Unstarted EXCEPT !.pc = pc])
  <1> DEFINE i == [Preparation!Unstarted EXCEPT !.pc = pc]
  <1>1. i.pc = pc /\ i.amount = Preparation!Nothing
    BY DEF Preparation!Unstarted
  <1>2. Preparation!Nothing.whole \in Seq(Nat) /\ Preparation!Nothing.fraction \in Seq(Nat)
    BY DEF Preparation!Nothing
  <1> HIDE DEF i
  <1>3. AmountInv(i)
    BY <1>1, <1>2 DEF AmountInv, Past, Late
  <1> QED
    BY <1>3 DEF i

LEMMA AmountsInitially == Preparation!Init => AmountsInv
  <1>1. AmountInv([Preparation!Unstarted EXCEPT !.pc = "idle"])
    BY AmountRests
  <1>2. [Preparation!Unstarted EXCEPT !.pc = "idle"] = Preparation!Unstarted
    BY DEF Preparation!Unstarted
  <1> QED
    BY <1>1, <1>2 DEF Preparation!Init, AmountsInv

LEMMA OneAmountMoves ==
    ASSUME SigningInv, AmountsInv, NEW j \in Jobs, NEW i, Preparation!Become(j, i), AmountInv(i)
    PROVE  AmountsInv'
  BY DEF Preparation!Become, SigningInv, AmountsInv

LEMMA AmountFails ==
    ASSUME SigningInv, AmountsInv, NEW j \in Jobs, Preparation!Fail(j)
    PROVE  AmountsInv'
  BY AmountRests, OneAmountMoves DEF Preparation!Fail

\* A job that goes on without telling anything, with the decimals it had or scaled by
\* none.
LEMMA AmountStays ==
    ASSUME NEW i, AmountInv(i), NEW k, k.amount = i.amount, k.kind = i.kind, k.asset = i.asset, k.pc # "told",
           k.kind # "transfer" \/ k.pc \notin Past \/ (i.pc \in Past /\ k.decimals = i.decimals)
    PROVE  AmountInv(k)
  BY DEF AmountInv

LEMMA AmountStep ==
    ASSUME SigningInv, AmountsInv, NEW j \in Jobs, Preparation!Step(j)
    PROVE  AmountsInv'
  <1> DEFINE i == job[j]
  <1>1. /\ JobRecord(i) /\ AmountInv(i) /\ JobShape(i) /\ Limited(i, height)
    BY DEF SigningInv, JobInv, JobShape, AmountsInv
  <1> HIDE DEF i
  <1>2. ASSUME NEW r \in Requests, Preparation!Start(j, r)
        PROVE  AmountsInv'
    <2> DEFINE pc == IF networkMagic[Preparation!ServiceOf(r.kind)] THEN Preparation!AfterMagic(r.kind) ELSE "magic"
               asset == IF r.kind = "claimGas" THEN "NEO" ELSE r.asset
               k == [Preparation!Unstarted EXCEPT
                       !.pc = pc, !.kind = r.kind, !.asset = asset,
                       !.amount = r.amount, !.began = height, !.seen = {wallet}]
    <2>1. Preparation!Become(j, k) \/ Preparation!Fail(j)
      BY <1>2 DEF Preparation!Start
    <2>2. r.kind \in Preparation!Kinds /\ r.amount.whole \in Seq(Nat) /\ r.amount.fraction \in Seq(Nat)
      <3>1. Preparation!Request(r)
        BY PartsConstants DEF Preparation!ConstantsOK
      <3>2. \A digits \in Seq(0 .. 9) : digits \in Seq(Nat)
        OBVIOUS
      <3> QED
        BY <3>1, <3>2 DEF Preparation!Request
    <2>3. pc # "told" /\ (r.kind = "transfer" => pc \notin Past)
      BY <2>2, AfterMagicTyped DEF Past, Late
    <2> HIDE DEF pc, asset
    <2>4. k.pc = pc /\ k.kind = r.kind /\ k.amount = r.amount
      BY DEF Preparation!Unstarted
    <2> HIDE DEF k
    <2>5. AmountInv(k)
      BY <2>2, <2>3, <2>4 DEF AmountInv
    <2> QED
      BY <2>1, <2>5, OneAmountMoves, AmountFails
  <1>3. ASSUME NEW decimals, Preparation!DecimalsAnswer(j, decimals)
        PROVE  AmountsInv'
    <2> DEFINE k == [i EXCEPT !.decimals = decimals, !.scaled = Preparation!Scaled(i.amount, decimals),
                              !.pc = IF i.kind = "estimate" THEN "system" ELSE "count"]
    <2>1. (Preparation!Become(j, k) \/ Preparation!Fail(j)) /\ decimals = Preparation!DecimalsOf(i.asset)
      BY <1>3 DEF Preparation!DecimalsAnswer, Preparation!ScaleBy, i
    <2>2. k.pc # "told" /\ k.kind = i.kind /\ k.asset = i.asset /\ k.amount = i.amount /\ k.decimals = decimals
      BY <1>1 DEF JobRecord, JobFields
    <2> HIDE DEF k
    <2>3. AmountInv(k)
      BY <1>1, <2>1, <2>2 DEF AmountInv
    <2> QED
      BY <2>1, <2>3, OneAmountMoves, AmountFails
  <1>4. ASSUME Preparation!UnclaimedAnswers(j) \/ Preparation!NeoBalanceAnswers(j)
        PROVE  AmountsInv'
    <2>1. i.kind = "claimGas"
      BY <1>1, <1>4 DEF JobShape, Preparation!UnclaimedAnswers, Preparation!NeoBalanceAnswers, i
    <2>2. ASSUME NEW k, Preparation!Become(j, k), k.amount = i.amount, k.kind = i.kind, k.asset = i.asset,
                 k.pc # "told"
          PROVE  AmountsInv'
      BY <1>1, <2>1, <2>2, AmountStays, OneAmountMoves
    <2>3. CASE Preparation!Fail(j)
      BY <2>3, AmountFails
    <2>4. CASE Preparation!Become(j, [i EXCEPT !.pc = "count"])
      <3> DEFINE k == [i EXCEPT !.pc = "count"]
      <3>1. k.amount = i.amount /\ k.kind = i.kind /\ k.asset = i.asset /\ k.pc # "told"
        BY <1>1 DEF JobRecord, JobFields
      <3> QED
        BY <2>2, <2>4, <3>1
    <2>5. CASE Preparation!Become(j, [i EXCEPT !.claim = "worth"])
      <3> DEFINE k == [i EXCEPT !.claim = "worth"]
      <3>1. k.amount = i.amount /\ k.kind = i.kind /\ k.asset = i.asset /\ k.pc # "told"
        BY <1>1, <1>4 DEF JobRecord, JobFields, Preparation!UnclaimedAnswers, Preparation!NeoBalanceAnswers, i
      <3> QED
        BY <2>2, <2>5, <3>1
    <2> DEFINE counted == [i EXCEPT !.scaled = wallet.neo,
                                    !.pc = IF i.claim = "worth" THEN "count" ELSE "claim", !.claim = "counted"]
    <2>6. CASE Preparation!Become(j, counted)
      <3>1. counted.amount = i.amount /\ counted.kind = i.kind /\ counted.asset = i.asset /\ counted.pc # "told"
        BY <1>1 DEF JobRecord, JobFields
      <3> HIDE DEF counted
      <3> QED
        BY <2>2, <2>6, <3>1
    <2> QED
      BY <1>4, <2>3, <2>4, <2>5, <2>6 DEF Preparation!UnclaimedAnswers, Preparation!NeoBalanceAnswers, i
  <1>5. ASSUME NEW behind \in 0 .. 1, Preparation!CountAnswers(j, behind)
        PROVE  AmountsInv'
    <2> DEFINE k == [i EXCEPT !.validUntilBlock = Preparation!ValidUntil(height + 1 - behind), !.pc = "system"]
    <2>1. Preparation!Become(j, k) /\ i.pc = "count"
      BY <1>5 DEF Preparation!CountAnswers, i
    <2>2. /\ k.amount = i.amount /\ k.kind = i.kind /\ k.asset = i.asset /\ k.pc # "told"
          /\ k.decimals = i.decimals /\ i.pc \in Past
      BY <1>1, <2>1 DEF JobRecord, JobFields, Past
    <2> HIDE DEF k
    <2> QED
      BY <1>1, <2>1, <2>2, AmountStays, OneAmountMoves
  <1>6. ASSUME NEW fee \in Fees, NEW halting \in BOOLEAN, Preparation!SystemFeeAnswers(j, fee, halting)
        PROVE  AmountsInv'
    <2> DEFINE k == [i EXCEPT !.systemFee = fee, !.pc = "network"]
    <2>1. (Preparation!Become(j, k) \/ Preparation!Fail(j)) /\ i.pc = "system"
      BY <1>6 DEF Preparation!SystemFeeAnswers, i
    <2>2. /\ k.amount = i.amount /\ k.kind = i.kind /\ k.asset = i.asset /\ k.pc # "told"
          /\ k.decimals = i.decimals /\ i.pc \in Past
      BY <1>1, <2>1 DEF JobRecord, JobFields, Past, Late
    <2> HIDE DEF k
    <2> QED
      BY <1>1, <2>1, <2>2, AmountStays, OneAmountMoves, AmountFails
  <1>7. ASSUME NEW fee \in Fees, Preparation!NetworkFeeAnswers(j, fee)
        PROVE  AmountsInv'
    <2> DEFINE k == [i EXCEPT !.networkFee = fee, !.pc = "gas"]
               told == Preparation!FormatDatosAsGas(i.systemFee)
               e == [i EXCEPT !.networkFee = fee, !.pc = "told", !.told = told]
    <2>1. /\ i.pc = "network"
          /\ (i.kind = "estimate" /\ Preparation!Become(j, e)) \/ Preparation!Become(j, k) \/ Preparation!Fail(j)
      BY <1>7 DEF Preparation!NetworkFeeAnswers, Preparation!Estimated, i
    <2>2. /\ k.amount = i.amount /\ k.kind = i.kind /\ k.asset = i.asset /\ k.pc # "told"
          /\ k.decimals = i.decimals /\ i.pc \in Past
      BY <1>1, <2>1 DEF JobRecord, JobFields, Past, Late
    <2>3. AmountInv(k)
      BY <1>1, <2>2, AmountStays
    <2> HIDE DEF k, told
    <2>4. e.amount = i.amount /\ e.kind = i.kind /\ e.pc = "told" /\ e.systemFee = i.systemFee /\ e.told = told
      BY <1>1 DEF JobRecord, JobFields
    <2>5. i.systemFee \in Nat
      BY <1>1, <2>1 DEF Limited
    <2> HIDE DEF e
    <2>6. i.kind = "estimate" => AmountInv(e)
      BY <1>1, <2>4, <2>5 DEF AmountInv, told
    <2> QED
      BY <2>1, <2>3, <2>6, OneAmountMoves, AmountFails
  <1>8. ASSUME Preparation!GasBalanceAnswers(j)
        PROVE  AmountsInv'
    <2> DEFINE k == [i EXCEPT !.pc = "signed"]
    <2>1. (Preparation!Become(j, k) \/ Preparation!Fail(j)) /\ i.pc = "gas"
      BY <1>8 DEF Preparation!GasBalanceAnswers, Preparation!Signed, i
    <2>2. /\ k.amount = i.amount /\ k.kind = i.kind /\ k.asset = i.asset /\ k.pc # "told"
          /\ k.decimals = i.decimals /\ i.pc \in Past
      BY <1>1, <2>1 DEF JobRecord, JobFields, Past, Late
    <2> HIDE DEF k
    <2> QED
      BY <1>1, <2>1, <2>2, AmountStays, OneAmountMoves, AmountFails
  <1>9. ASSUME Preparation!RpcFails(j)
        PROVE  AmountsInv'
    BY <1>9, AmountFails DEF Preparation!RpcFails
  <1> QED
    BY <1>2, <1>3, <1>4, <1>5, <1>6, <1>7, <1>8, <1>9 DEF Preparation!Step

LEMMA AmountsInductive ==
    ASSUME SigningInv, AmountsInv, [Preparation!Next]_(Preparation!vars)
    PROVE  AmountsInv'
  <1>1. CASE UNCHANGED Preparation!vars
    BY <1>1 DEF Preparation!vars, AmountsInv
  <1>2. ASSUME NEW service \in Preparation!Services, NEW right \in BOOLEAN, Preparation!MagicAnswers(service, right)
        PROVE  AmountsInv'
    <2> SUFFICES ASSUME NEW j \in Jobs
                 PROVE  AmountInv(job'[j])
      BY DEF AmountsInv
    <2> DEFINE i == job[j]
               k == [i EXCEPT !.pc = Preparation!AfterMagic(i.kind)]
    <2>1. AmountInv(i) /\ JobShape(i) /\ JobRecord(i)
      BY DEF AmountsInv, SigningInv, JobInv, JobShape
    <2>2. \/ job'[j] = i \/ job'[j] = [Preparation!Unstarted EXCEPT !.pc = "failed"] \/ job'[j] = k
      BY <1>2 DEF Preparation!MagicAnswers
    <2> HIDE DEF i
    <2>3. k.amount = i.amount /\ k.kind = i.kind /\ k.asset = i.asset /\ k.pc = Preparation!AfterMagic(i.kind)
      BY <2>1 DEF JobRecord, JobFields
    <2>4. k.pc # "told" /\ (k.kind = "transfer" => k.pc \notin Past)
      BY <2>1, <2>3, AfterMagicTyped DEF JobShape, Past, Late
    <2> HIDE DEF k
    <2>5. AmountInv(k)
      BY <2>1, <2>3, <2>4, AmountStays
    <2> QED
      BY <2>1, <2>2, <2>5, AmountRests
  <1>3. ASSUME NEW after \in Wallets, Preparation!Block(after)
        PROVE  AmountsInv'
    <2> SUFFICES ASSUME NEW j \in Jobs
                 PROVE  AmountInv(job'[j])
      BY DEF AmountsInv
    <2> DEFINE i == job[j]
               k == [i EXCEPT !.seen = i.seen \cup {after}]
    <2>1. AmountInv(i) /\ JobRecord(i)
      BY DEF AmountsInv, SigningInv, JobInv, JobShape
    <2>2. job'[j] = i \/ (job'[j] = k /\ i.pc # "told")
      BY <1>3 DEF Preparation!Block, Preparation!AtRest
    <2> HIDE DEF i
    <2>3. k.amount = i.amount /\ k.kind = i.kind /\ k.asset = i.asset /\ k.pc = i.pc /\ k.decimals = i.decimals
      BY <2>1 DEF JobRecord, JobFields
    <2> HIDE DEF k
    <2> QED
      BY <2>1, <2>2, <2>3, AmountStays
  <1> QED
    BY <1>1, <1>2, <1>3, AmountStep DEF Preparation!Next

LEMMA AmountsImply == ASSUME SigningInv, AmountsInv PROVE Preparation!AmountsAreExact
  <1> SUFFICES ASSUME NEW j \in Jobs
               PROVE  LET i == job[j] IN
                      /\ i.pc = "signed" /\ i.kind = "transfer" =>
                            Preparation!Number(i.amount.whole \o i.amount.fraction) * Preparation!Power(10, i.decimals)
                               = i.scaled * Preparation!Power(10, Len(i.amount.fraction))
                      /\ i.pc = "told" /\ i.systemFee > 0 =>
                            Preparation!ParseGasAmountToDatos(i.told) = i.systemFee
    BY DEF Preparation!AmountsAreExact
  <1> DEFINE i == job[j]
  <1>1. AmountInv(i) /\ Moved(i)
    BY DEF AmountsInv, SigningInv, JobInv
  <1> HIDE DEF i
  <1>2. ASSUME i.pc = "signed", i.kind = "transfer"
        PROVE  Preparation!Number(i.amount.whole \o i.amount.fraction) * Preparation!Power(10, i.decimals)
                  = i.scaled * Preparation!Power(10, Len(i.amount.fraction))
    <2>1. /\ i.scaled = Preparation!Scaled(i.amount, i.decimals) /\ i.scaled > 0
          /\ i.amount.whole \in Seq(Nat) /\ i.amount.fraction \in Seq(Nat)
      BY <1>1, <1>2 DEF AmountInv, Moved, Past, Late
    <2>2. Preparation!Scaled(i.amount, i.decimals) # Preparation!Rejected
      BY <2>1 DEF Preparation!Rejected
    <2> QED
      BY <2>1, <2>2, ScaledExact
  <1>3. ASSUME i.pc = "told", i.systemFee > 0
        PROVE  Preparation!ParseGasAmountToDatos(i.told) = i.systemFee
    <2>1. i.systemFee \in Nat \ {0} /\ i.told = Preparation!FormatDatosAsGas(i.systemFee)
      BY <1>1, <1>3 DEF AmountInv
    <2>2. GasDecimals \in Nat
      BY PartsConstants DEF Preparation!ConstantsOK
    <2> QED
      BY <2>1, <2>2, FormattedParses
  <1> QED
    BY <1>2, <1>3 DEF i

\* A signed transfer moves the digits that were given, and no others, whatever their
\* number and the decimals of the token; and what formatDatosAsGas() tells of a fee is
\* read back as that fee.
THEOREM AmountsExact == Preparation!Spec => []Preparation!AmountsAreExact
  <1>1. Preparation!Init => SigningInv /\ AmountsInv
    BY SigningInitially, AmountsInitially
  <1>2. SigningInv /\ AmountsInv /\ [Preparation!Next]_(Preparation!vars) => SigningInv' /\ AmountsInv'
    BY SigningInductive, AmountsInductive
  <1> QED
    BY <1>1, <1>2, AmountsImply, PTL DEF Preparation!Spec

-----------------------------------------------------------------------------
(* ChainReads: what the answers of endpoints may say.                      *)

Rpcs == {"getblockcount", "getvalidators", "getnextblockvalidators", "getblock", "getstateroot", "getstateheight",
         "getnep17balances", "balanceOf NEO", "balanceOf GAS", "getrawtransaction", "getrawtransaction by query",
         "getapplicationlog", "getnep17transfers", "invokescript", "eth_call", "eth_chainId", "eth_gasPrice",
         "eth_blockNumber", "eth_getBlockByNumber", "eth_getBlockByHash", "eth_getBalance",
         "eth_getTransactionByHash", "eth_getTransactionReceipt"}

\* The part of TypeOK the other parts rest on.
ChainShape ==
    /\ tip \in Nat \ {0} /\ mined \in Nat /\ mined <= tip /\ validated \in Nat
    /\ pooled \in BOOLEAN /\ halts \in BOOLEAN /\ (mined > 0 => pooled)

ReadShape ==
    /\ read = [pc |-> read.pc, ask |-> read.ask, began |-> read.began, got |-> read.got, result |-> read.result]
    /\ read.pc \in {"idle", "asking", "done"} /\ read.began \in Nat /\ read.began <= tip
    /\ read.pc # "idle" => Chain!AskForm(read.ask)
    /\ DOMAIN read.got \subseteq Rpcs
    /\ read.pc # "done" => read.result = Chain!Error

\* An answer says what was so at a height of the window, or nothing.  The state height
\* alone is not of a height: roots are signed meanwhile.
SaidSo(rpc, said) ==
    \/ said.state \in {"failed", "unsupported"}
    \/ IF rpc = "getstateheight" THEN said.state = "ok" /\ said.number \in Nat /\ said.number <= validated
       ELSE \E v \in Chain!Window : said \in Chain!Known(rpc, read.ask, v)

\* No answer so far ended the read.
Going == \A rpc \in DOMAIN read.got : ~Chain!Fails(read.ask, rpc, read.got[rpc])

\* The height is asked for after the transaction, so its endpoint lags behind the other
\* one by no more than endpoints do.
Ordered ==
    LET count == read.got["getblockcount"] IN
    read.ask.kind = "n3Status" /\ "getblockcount" \in DOMAIN read.got =>
        /\ Chain!TransactionKnown(read.got)
        /\ Chain!TransactionAnswer(read.got).number > 0
        /\ count.state = "ok" => count.number >= Chain!TransactionAnswer(read.got).number + mined - MaxLag

ReadsInv ==
    /\ ChainShape /\ ReadShape
    /\ \A rpc \in DOMAIN read.got : SaidSo(rpc, read.got[rpc])
    /\ read.pc = "asking" \/ read.result.outcome = "answer" => Going /\ Ordered
    /\ read.result.outcome = "answer" =>
          /\ read.pc = "done"
          /\ Chain!Wanted(read.ask, read.got) \subseteq DOMAIN read.got
          /\ read.result = Chain!Result(read.ask, read.got)

LEMMA LagTyped == MaxLag \in Nat
  BY PartsConstants DEF Chain!ConstantsOK

LEMMA WindowTyped ==
    ASSUME ChainShape, ReadShape
    PROVE  /\ Chain!Window \subseteq 0 .. tip
           /\ \A v \in Chain!Window : v >= read.began - MaxLag
           /\ Chain!Views(tip) \subseteq Chain!Window
           /\ \A v \in Chain!Views(tip) : v >= tip - MaxLag
  BY LagTyped DEF ChainShape, ReadShape, Chain!Window, Chain!Views, Chain!Larger

LEMMA WantedAreRpcs ==
    ASSUME NEW got, Chain!AskForm(read.ask)
    PROVE  Chain!Wanted(read.ask, got) \subseteq Rpcs
  <1>1. /\ Chain!InfoRequests(got) \subseteq Rpcs /\ Chain!BlockRequests(read.ask, got) \subseteq Rpcs
        /\ Chain!BalanceRequests(got) \subseteq Rpcs /\ Chain!TransactionRequests(got) \subseteq Rpcs
        /\ Chain!EvmStatusRequests(got) \subseteq Rpcs /\ Chain!BlockLookup(read.ask) \in Rpcs
    BY DEF Chain!InfoRequests, Chain!BlockRequests, Chain!BalanceRequests, Chain!TransactionRequests,
           Chain!EvmStatusRequests, Chain!BlockLookup, Chain!If, Rpcs
  <1>2. Chain!StatusRequests(got) \subseteq Rpcs
    BY <1>1 DEF Chain!StatusRequests, Chain!If, Rpcs
  <1>3. {"getnep17transfers", "getapplicationlog", "invokescript", "eth_chainId", "eth_blockNumber", "eth_gasPrice",
         "eth_getTransactionByHash", "eth_getBalance", "eth_call"} \subseteq Rpcs
    BY DEF Rpcs
  <1> HIDE DEF Rpcs
  <1> QED
    BY <1>1, <1>2, <1>3 DEF Chain!Wanted, Chain!AskForm

\* What is so at a height the chain has reached stays so.
LEMMA KnownStays ==
    ASSUME ChainShape, ReadShape, Chain!ChainGoesOn, NEW v \in Chain!Window, NEW rpc \in Rpcs \ {"getstateheight"}
    PROVE  v \in Chain!Window' /\ Chain!Known(rpc, read.ask, v) \subseteq Chain!Known(rpc, read.ask, v)'
  <1>1. /\ tip' \in {tip, tip + 1} /\ (mined' = mined \/ (mined = 0 /\ mined' = tip + 1))
        /\ (pooled => pooled') /\ UNCHANGED <<halts, read>>
    BY DEF Chain!ChainGoesOn, ChainShape
  <1>2. v \in 0 .. tip /\ v \in Chain!Window'
    BY <1>1, LagTyped DEF ChainShape, ReadShape, Chain!Window, Chain!Larger
  <1>3. Chain!MinedAt(v)' = Chain!MinedAt(v) /\ (Chain!MinedAt(v) => mined' = mined)
    BY <1>1, <1>2 DEF ChainShape, Chain!MinedAt
  <1>4. Chain!NeoAt(v)' = Chain!NeoAt(v) /\ Chain!GasAt(v)' = Chain!GasAt(v)
    BY <1>1, <1>3 DEF Chain!NeoAt, Chain!GasAt
  <1>5. Chain!Transaction(v) \subseteq Chain!Transaction(v)'
    BY <1>1, <1>3 DEF Chain!Transaction, Chain!Ok, Chain!Answer
  <1>6. \A from, to : Chain!History(from, to, v)' = Chain!History(from, to, v)
    BY <1>3 DEF Chain!History
  <1>7. Chain!HistoryAnswer(Chain!HistoryParams(read.ask), v)' = Chain!HistoryAnswer(Chain!HistoryParams(read.ask), v)
    BY <1>1, <1>6 DEF Chain!HistoryAnswer, Chain!Ok, Chain!Answer
  <1> DEFINE known == Chain!Known(rpc, read.ask, v)
  <1>8. ASSUME rpc \in {"getblockcount", "getvalidators", "getnextblockvalidators", "getblock", "getstateroot",
                     "eth_chainId", "eth_gasPrice", "eth_blockNumber", "eth_getBlockByNumber", "eth_getBlockByHash"} PROVE known \subseteq known'
    BY <1>1, <1>8 DEF Chain!Known, Chain!Ok, Chain!Answer
  <1>9. ASSUME rpc \in {"getnep17balances", "balanceOf NEO", "balanceOf GAS", "eth_getBalance"} PROVE known \subseteq known'
    BY <1>4, <1>9 DEF Chain!Known, Chain!Ok, Chain!Answer
  <1>10. ASSUME rpc \in {"getrawtransaction", "getrawtransaction by query"} PROVE known \subseteq known'
    BY <1>5, <1>10 DEF Chain!Known
  <1>11. ASSUME rpc = "getapplicationlog" PROVE known \subseteq known'
    <2>1. known = IF ~Chain!MinedAt(v) THEN {Chain!Answer("unknown", 0)}
                  ELSE {Chain!Answer("empty", 0)} \cup Chain!Log(IF halts THEN 1 ELSE 0)
      BY <1>11 DEF Chain!Known
    <2>2. known' = IF ~Chain!MinedAt(v)' THEN {Chain!Answer("unknown", 0)}
                   ELSE {Chain!Answer("empty", 0)} \cup Chain!Log(IF halts' THEN 1 ELSE 0)
      BY <1>11 DEF Chain!Known, Chain!Answer, Chain!Log
    <2> HIDE DEF known
    <2> QED
      BY <1>1, <1>3, <2>1, <2>2
  <1>12. ASSUME rpc = "getnep17transfers" PROVE known \subseteq known'
    BY <1>7, <1>12 DEF Chain!Known
  <1>13. ASSUME rpc \in {"invokescript", "eth_call"} PROVE known \subseteq known'
    BY <1>1, <1>13 DEF Chain!Known, Chain!Ok, Chain!Answer
  <1>14. ASSUME rpc = "eth_getTransactionByHash" PROVE known \subseteq known'
    BY <1>1, <1>3, <1>14 DEF Chain!Known, Chain!Ok, Chain!Answer
  <1>15. ASSUME rpc = "eth_getTransactionReceipt" PROVE known \subseteq known'
    BY <1>1, <1>3, <1>15 DEF Chain!Known, Chain!Ok, Chain!Answer
  <1> HIDE DEF known
  <1>16. known \subseteq known'
    BY <1>8, <1>9, <1>10, <1>11, <1>12, <1>13, <1>14, <1>15 DEF Rpcs
  <1> QED
    BY <1>2, <1>16 DEF known

LEMMA ReadsInitially == Chain!Init => ReadsInv
  <1> SUFFICES ASSUME Chain!Init PROVE ReadsInv
    OBVIOUS
  <1>1. /\ read.pc = "idle" /\ read.began = 0 /\ read.result = Chain!Error /\ DOMAIN read.got = {}
        /\ read = [pc |-> read.pc, ask |-> read.ask, began |-> read.began, got |-> read.got, result |-> read.result]
    BY DEF Chain!Init, Chain!Idle
  <1>2. Chain!Error.outcome = "error"
    BY DEF Chain!Error
  <1>3. ChainShape
    <2>1. pooled \in BOOLEAN /\ (mined > 0 => pooled)
      <3>1. CASE mined = 0
        <4>1. ~(mined = 1) /\ ~(mined > 0)
          BY <3>1
        <4>2. pooled = FALSE
          BY <4>1, Zenon DEF Chain!Init
        <4> QED
          BY <4>1, <4>2, Zenon
      <3>2. CASE mined = 1
        <4>1. pooled = TRUE
          BY <3>2, Zenon DEF Chain!Init
        <4> QED
          BY <4>1
      <3> QED
        BY <3>1, <3>2 DEF Chain!Init
    <2>2. tip = 1 /\ mined \in 0 .. 1 /\ validated \in 0 .. 1 /\ halts \in BOOLEAN
      BY DEF Chain!Init
    <2> QED
      BY <2>1, <2>2 DEF ChainShape
  <1> QED
    BY <1>1, <1>2, <1>3 DEF Chain!Init, ReadsInv, ReadShape

LEMMA BeginStep ==
    ASSUME ReadsInv, NEW ask \in ReadAsks, Chain!Begin(ask)
    PROVE  ReadsInv'
  <1>1. /\ read' = [pc |-> IF Chain!Refused(ask) THEN "done" ELSE "asking", ask |-> ask, began |-> tip,
                    got |-> <<>>, result |-> Chain!Error]
        /\ UNCHANGED <<tip, mined, pooled, halts, validated>>
    BY DEF Chain!Begin, Chain!Idle
  <1>2. Chain!AskForm(ask) /\ Chain!Error.outcome = "error" /\ DOMAIN <<>> = {}
    BY PartsConstants DEF Chain!ConstantsOK, Chain!Error
  <1>3. ChainShape' /\ ReadShape'
    BY <1>1, <1>2 DEF ReadsInv, ChainShape, ReadShape
  <1> QED
    BY <1>1, <1>2, <1>3 DEF ReadsInv, Going, Ordered

\* What Answers() of the chain may say now belongs to the window.
LEMMA AnswersAnswer ==
    ASSUME ChainShape, ReadShape, NEW rpc \in Rpcs, NEW said \in Chain!Answers(rpc, read.ask)
    PROVE  /\ SaidSo(rpc, said)
           /\ said.state \in {"failed", "unsupported"}
              \/ \E v \in Chain!Views(tip) : said \in Chain!Known(rpc, read.ask, v)
  <1>1. CASE said \in {Chain!Answer("failed", 0), Chain!Answer("unsupported", 0)}
    BY <1>1 DEF SaidSo, Chain!Answer
  <1>2. CASE \E v \in Chain!Views(tip) : said \in Chain!Known(rpc, read.ask, v)
    <2>1. PICK v \in Chain!Views(tip) : said \in Chain!Known(rpc, read.ask, v)
      BY <1>2
    <2>2. v \in Chain!Window /\ v \in 0 .. tip
      BY <2>1, WindowTyped
    <2>3. CASE rpc = "getstateheight"
      <3>1. said = Chain!Ok(IF validated <= v THEN validated ELSE v)
        BY <2>1, <2>3 DEF Chain!Known
      <3>2. said.state = "ok" /\ said.number = IF validated <= v THEN validated ELSE v
        BY <3>1 DEF Chain!Ok, Chain!Answer
      <3> QED
        BY <1>2, <2>2, <2>3, <3>2 DEF SaidSo, ChainShape
    <2>4. CASE rpc # "getstateheight"
      BY <1>2, <2>1, <2>2, <2>4 DEF SaidSo
    <2> QED
      BY <2>3, <2>4
  <1>3. \/ said \in UNION {Chain!Known(rpc, read.ask, v) : v \in Chain!Views(tip)}
        \/ said \in {Chain!Answer("failed", 0), Chain!Answer("unsupported", 0)}
    BY DEF Chain!Answers
  <1> QED
    BY <1>1, <1>2, <1>3

LEMMA WithAdds ==
    ASSUME NEW got, NEW rpc, NEW said
    PROVE  LET more == Chain!With(got, rpc, said)
           IN  /\ DOMAIN more = DOMAIN got \cup {rpc} /\ more[rpc] = said
               /\ \A r \in DOMAIN got : r # rpc => more[r] = got[r]
  BY DEF Chain!With

\* The answer about the transaction is not revised once it is there.
LEMMA TransactionStays ==
    ASSUME NEW got, Chain!TransactionKnown(got), NEW rpc \in {"getblockcount", "getapplicationlog"}, NEW said
    PROVE  LET more == Chain!With(got, rpc, said)
           IN  /\ Chain!TransactionKnown(more) /\ Chain!TransactionAnswer(more) = Chain!TransactionAnswer(got)
  <1> DEFINE more == Chain!With(got, rpc, said)
  <1>1. DOMAIN more = DOMAIN got \cup {rpc} /\ \A r \in DOMAIN got : r # rpc => more[r] = got[r]
    BY DEF Chain!With
  <1> HIDE DEF more
  <1>2. /\ DOMAIN more = DOMAIN got \cup {rpc}
        /\ \A r \in {"getrawtransaction", "getrawtransaction by query"} :
              (r \in DOMAIN more <=> r \in DOMAIN got) /\ (r \in DOMAIN got => more[r] = got[r])
    BY <1>1
  <1>3. "getrawtransaction" \in DOMAIN got
    BY DEF Chain!TransactionKnown, Chain!TransactionRequests
  <1>4. Chain!TransactionAnswer(more) = Chain!TransactionAnswer(got)
    BY <1>2, <1>3 DEF Chain!TransactionAnswer
  <1>5. Chain!TransactionRequests(more) = Chain!TransactionRequests(got)
    BY <1>2, <1>3 DEF Chain!TransactionRequests, Chain!If, Chain!Is
  <1>6. Chain!TransactionRequests(more) \subseteq DOMAIN more
    BY <1>2, <1>5 DEF Chain!TransactionKnown
  <1> QED
    BY <1>4, <1>6 DEF more, Chain!TransactionKnown

\* A transaction that is in a block for an answer is in one.
LEMMA ConfirmedIsMined ==
    ASSUME ChainShape, ReadShape, NEW rpc \in {"getrawtransaction", "getrawtransaction by query"}, NEW said,
           SaidSo(rpc, said), said.state = "ok"
    PROVE  \/ \E v \in Chain!Window : Chain!MinedAt(v) /\ said.number = v - mined + 1
           \/ said.number = 0 /\ pooled /\ \E v \in Chain!Window : ~Chain!MinedAt(v)
  <1>1. PICK v \in Chain!Window : said \in Chain!Transaction(v)
    BY DEF SaidSo, Chain!Known
  <1>2. CASE Chain!MinedAt(v)
    <2>1. said = Chain!Ok(v - mined + 1)
      BY <1>1, <1>2 DEF Chain!Transaction
    <2>2. said.number = v - mined + 1
      BY <2>1 DEF Chain!Ok, Chain!Answer
    <2> QED
      BY <1>2, <2>2
  <1>3. CASE ~Chain!MinedAt(v)
    <2>1. said = Chain!Answer("unknown", 0) \/ (pooled /\ said = Chain!Ok(0))
      BY <1>1, <1>3 DEF Chain!Transaction
    <2>2. said # Chain!Answer("unknown", 0)
      <3>1. Chain!Answer("unknown", 0).state = "unknown"
        BY DEF Chain!Answer
      <3> QED
        BY <3>1
    <2>3. pooled /\ said = Chain!Ok(0)
      BY <2>1, <2>2, Zenon
    <2>4. said.number = 0
      BY <2>3 DEF Chain!Ok, Chain!Answer
    <2> QED
      BY <1>3, <2>3, <2>4
  <1> QED
    BY <1>2, <1>3

\* What the answers of the read say of its transaction.
LEMMA KnownTransaction ==
    ASSUME ReadsInv, Chain!TransactionKnown(read.got)
    PROVE  LET said == Chain!TransactionAnswer(read.got)
           IN  \/ \E v \in Chain!Window : Chain!MinedAt(v) /\ said.number = v - mined + 1
               \/ said.number = 0 /\ pooled /\ \E v \in Chain!Window : ~Chain!MinedAt(v)
  <1>1. PICK rpc \in {"getrawtransaction", "getrawtransaction by query"} :
           rpc \in DOMAIN read.got /\ Chain!TransactionAnswer(read.got) = read.got[rpc]
    BY DEF Chain!TransactionKnown, Chain!TransactionRequests, Chain!TransactionAnswer
  <1> QED
    BY <1>1, ConfirmedIsMined DEF ReadsInv, Chain!TransactionKnown

\* The answers so far still answer when the chain goes on.
LEMMA GoesOnStep ==
    ASSUME ReadsInv, Chain!ChainGoesOn
    PROVE  ReadsInv'
  <1>1. /\ read' = read /\ read.pc # "done" /\ halts' = halts
        /\ tip' \in {tip, tip + 1} /\ (mined' = mined \/ (mined = 0 /\ mined' = tip' /\ pooled))
        /\ (pooled' = pooled \/ pooled' = TRUE) /\ validated' \in {validated, validated + 1}
    BY DEF Chain!ChainGoesOn, ReadsInv, ChainShape
  <1>2. ChainShape' /\ ReadShape'
    <2>1. pooled' \in BOOLEAN /\ (pooled => pooled')
      BY <1>1, Zenon DEF ReadsInv, ChainShape
    <2>2. mined' > 0 => pooled'
      BY <1>1, <2>1 DEF ReadsInv, ChainShape
    <2>3. /\ tip' \in Nat \ {0} /\ mined' \in Nat /\ mined' <= tip' /\ validated' \in Nat /\ halts' \in BOOLEAN
          /\ read.began <= tip'
      BY <1>1 DEF ReadsInv, ChainShape, ReadShape
    <2> QED
      BY <1>1, <2>1, <2>2, <2>3 DEF ReadsInv, ChainShape, ReadShape
  <1>3. ASSUME NEW rpc \in DOMAIN read.got
        PROVE  SaidSo(rpc, read.got[rpc])'
    <2>1. SaidSo(rpc, read.got[rpc]) /\ rpc \in Rpcs
      BY <1>3 DEF ReadsInv, ReadShape
    <2>2. CASE rpc = "getstateheight"
      BY <1>1, <2>1, <2>2 DEF SaidSo, ReadsInv, ChainShape
    <2>3. CASE rpc # "getstateheight" /\ read.got[rpc].state \notin {"failed", "unsupported"}
      <3>1. PICK v \in Chain!Window : read.got[rpc] \in Chain!Known(rpc, read.ask, v)
        BY <2>1, <2>3 DEF SaidSo
      <3>2. v \in Chain!Window' /\ read.got[rpc] \in Chain!Known(rpc, read.ask, v)'
        BY <2>1, <2>3, <3>1, KnownStays DEF ReadsInv
      <3> QED
        BY <1>1, <2>3, <3>2 DEF SaidSo
    <2> QED
      BY <1>1, <2>1, <2>2, <2>3 DEF SaidSo
  <1>4. Going' = Going
    BY <1>1 DEF Going
  <1>5. Ordered => Ordered'
    <2> SUFFICES ASSUME Ordered, read.ask.kind = "n3Status", "getblockcount" \in DOMAIN read.got
                 PROVE  mined' = mined
      BY <1>1 DEF Ordered
    <2>1. Chain!TransactionKnown(read.got) /\ Chain!TransactionAnswer(read.got).number > 0
      BY DEF Ordered
    <2>2. \E v \in Chain!Window : Chain!MinedAt(v)
      BY <2>1, KnownTransaction
    <2> QED
      BY <1>1, <2>2 DEF Chain!MinedAt, ReadsInv, ChainShape
  <1>6. read.result.outcome # "answer"
    BY <1>1 DEF ReadsInv, ReadShape, Chain!Error
  <1> QED
    BY <1>1, <1>2, <1>3, <1>4, <1>5, <1>6 DEF ReadsInv

\* One more answer.
LEMMA ReceiveStep ==
    ASSUME ReadsInv, read.pc = "asking", NEW rpc, Chain!Receive(rpc)
    PROVE  ReadsInv'
  <1>1. PICK said \in Chain!Answers(rpc, read.ask) :
           LET got == Chain!With(read.got, rpc, said) IN
           read' = IF Chain!Fails(read.ask, rpc, said) THEN [read EXCEPT !.pc = "done", !.got = got]
                   ELSE IF Chain!Wanted(read.ask, got) \subseteq DOMAIN got
                   THEN [read EXCEPT !.pc = "done", !.got = got, !.result = Chain!Result(read.ask, got)]
                   ELSE [read EXCEPT !.got = got]
    BY DEF Chain!Receive
  <1> DEFINE got == Chain!With(read.got, rpc, said)
  <1>2. /\ rpc \in Chain!Wanted(read.ask, read.got) \ DOMAIN read.got
        /\ UNCHANGED <<tip, mined, pooled, halts, validated>>
    BY DEF Chain!Receive
  <1>3. ChainShape /\ ReadShape /\ Going /\ Ordered /\ Chain!AskForm(read.ask)
        /\ read.result = Chain!Error /\ Chain!Error.outcome = "error"
    BY DEF ReadsInv, ReadShape, Chain!Error
  <1>4. rpc \in Rpcs
    BY <1>2, <1>3, WantedAreRpcs
  <1>5. SaidSo(rpc, said)
    BY <1>1, <1>3, <1>4, AnswersAnswer
  <1>6. DOMAIN got = DOMAIN read.got \cup {rpc} /\ got[rpc] = said /\ \A r \in DOMAIN read.got : got[r] = read.got[r]
    BY <1>2 DEF Chain!With
  <1>7. \A r \in DOMAIN got : SaidSo(r, got[r])
    BY <1>5, <1>6 DEF ReadsInv
  <1>8. ~Chain!Fails(read.ask, rpc, said) => \A r \in DOMAIN got : ~Chain!Fails(read.ask, r, got[r])
    BY <1>3, <1>6 DEF Going
  <1>9. read.ask.kind = "n3Status" /\ "getblockcount" \in DOMAIN got =>
           LET count == got["getblockcount"] IN
           /\ Chain!TransactionKnown(got)
           /\ Chain!TransactionAnswer(got).number > 0
           /\ count.state = "ok" => count.number >= Chain!TransactionAnswer(got).number + mined - MaxLag
    <2> SUFFICES ASSUME read.ask.kind = "n3Status", "getblockcount" \in DOMAIN got
                 PROVE  LET count == got["getblockcount"] IN
                        /\ Chain!TransactionKnown(got)
                        /\ Chain!TransactionAnswer(got).number > 0
                        /\ count.state = "ok" =>
                              count.number >= Chain!TransactionAnswer(got).number + mined - MaxLag
      OBVIOUS
    <2>1. rpc \in Chain!StatusRequests(read.got)
      BY <1>2 DEF Chain!Wanted
    <2>2. CASE rpc = "getblockcount"
      <3>1. Chain!TransactionKnown(read.got) /\ Chain!TransactionAnswer(read.got).number > 0
        BY <2>1, <2>2 DEF Chain!StatusRequests, Chain!TransactionRequests, Chain!If
      <3>2. Chain!TransactionKnown(got) /\ Chain!TransactionAnswer(got) = Chain!TransactionAnswer(read.got)
        BY <2>2, <3>1, TransactionStays
      <3>3. PICK v \in Chain!Window : Chain!TransactionAnswer(read.got).number = v - mined + 1
        BY <3>1, KnownTransaction
      <3>4. v \in 0 .. tip /\ mined \in Nat /\ tip \in Nat
        BY <1>3, <3>3, WindowTyped DEF ChainShape
      <3>5. ASSUME said.state = "ok"
            PROVE  said.number >= tip - MaxLag + 1
        <4>1. PICK w \in Chain!Views(tip) : said \in Chain!Known(rpc, read.ask, w)
          BY <1>1, <1>3, <1>4, <3>5, AnswersAnswer
        <4>2. said = Chain!Ok(w + 1)
          BY <2>2, <4>1 DEF Chain!Known
        <4>3. said.number = w + 1
          BY <4>2 DEF Chain!Ok, Chain!Answer
        <4>4. w >= tip - MaxLag /\ w \in 0 .. tip
          BY <1>3, <4>1, WindowTyped
        <4> QED
          BY <3>4, <4>3, <4>4, LagTyped
      <3>6. said.state = "ok" => said.number >= Chain!TransactionAnswer(got).number + mined - MaxLag
        <4>1. ASSUME said.state = "ok" PROVE said.number >= v - mined + 1 + mined - MaxLag
          <5>1. said.number \in Int
            <6>1. PICK w \in Chain!Views(tip) : said \in Chain!Known(rpc, read.ask, w)
              BY <1>1, <1>3, <1>4, <4>1, AnswersAnswer
            <6>2. said = Chain!Ok(w + 1) /\ w \in 0 .. tip
              BY <1>3, <2>2, <6>1, WindowTyped DEF Chain!Known
            <6> QED
              BY <6>2 DEF Chain!Ok, Chain!Answer
          <5> QED
            BY <3>4, <3>5, <4>1, <5>1, LagTyped
        <4> QED
          BY <3>2, <3>3, <4>1
      <3> QED
        BY <1>6, <2>2, <3>1, <3>2, <3>6
    <2>3. CASE rpc # "getblockcount"
      <3>1. "getblockcount" \in DOMAIN read.got /\ got["getblockcount"] = read.got["getblockcount"]
        BY <1>6, <2>3
      <3>2. /\ Chain!TransactionKnown(read.got) /\ Chain!TransactionAnswer(read.got).number > 0
            /\ read.got["getblockcount"].state = "ok" =>
                  read.got["getblockcount"].number >= Chain!TransactionAnswer(read.got).number + mined - MaxLag
        BY <1>3, <3>1 DEF Ordered
      <3>3. rpc = "getapplicationlog"
        BY <1>2, <2>1, <2>3, <3>2 DEF Chain!StatusRequests, Chain!TransactionKnown, Chain!If
      <3>4. Chain!TransactionKnown(got) /\ Chain!TransactionAnswer(got) = Chain!TransactionAnswer(read.got)
        BY <3>2, <3>3, TransactionStays
      <3> QED
        BY <3>1, <3>2, <3>4
    <2> QED
      BY <2>2, <2>3
  <1>10. DOMAIN got \subseteq Rpcs
    BY <1>3, <1>4, <1>6 DEF ReadShape
  <1> HIDE DEF got
  <1>11. /\ read'.ask = read.ask /\ read'.began = read.began /\ read'.got = got /\ read'.pc \in {"asking", "done"}
         /\ read' = [pc |-> read'.pc, ask |-> read'.ask, began |-> read'.began, got |-> read'.got,
                     result |-> read'.result]
         /\ \/ Chain!Fails(read.ask, rpc, said) /\ read'.pc = "done" /\ read'.result = Chain!Error
            \/ /\ ~Chain!Fails(read.ask, rpc, said) /\ Chain!Wanted(read.ask, got) \subseteq DOMAIN got
               /\ read'.pc = "done" /\ read'.result = Chain!Result(read.ask, got)
            \/ ~Chain!Fails(read.ask, rpc, said) /\ read'.pc = "asking" /\ read'.result = Chain!Error
    BY <1>1, <1>3 DEF got, ReadShape
  <1>12. ChainShape' /\ ReadShape'
    BY <1>2, <1>3, <1>10, <1>11 DEF ChainShape, ReadShape
  <1>13. \A r \in DOMAIN got : SaidSo(r, read.got[r])'
    <2> SUFFICES ASSUME NEW r \in DOMAIN got PROVE SaidSo(r, read.got[r])'
      OBVIOUS
    <2>1. SaidSo(r, got[r]) /\ Chain!Window' = Chain!Window
      BY <1>2, <1>7, <1>11 DEF Chain!Window
    <2>2. \A v : Chain!Known(r, read.ask, v)' = Chain!Known(r, read.ask, v)
      BY <1>2, <1>11 DEF Chain!Known, Chain!Transaction, Chain!MinedAt, Chain!NeoAt, Chain!GasAt,
                         Chain!HistoryAnswer, Chain!History
    <2> QED
      BY <1>2, <1>11, <2>1, <2>2 DEF SaidSo
  <1>14. ~Chain!Fails(read.ask, rpc, said) => Going' /\ Ordered'
    BY <1>2, <1>8, <1>9, <1>11 DEF Going, Ordered
  <1>15. read'.pc = "asking" \/ read'.result.outcome = "answer" => Going' /\ Ordered'
    BY <1>3, <1>11, <1>14
  <1>16. read'.result.outcome = "answer" =>
            /\ read'.pc = "done" /\ Chain!Wanted(read'.ask, read'.got) \subseteq DOMAIN read'.got
            /\ read'.result = Chain!Result(read'.ask, read'.got)
    BY <1>3, <1>11
  <1>17. \A r \in DOMAIN read'.got : SaidSo(r, read.got[r])'
    BY <1>11, <1>13
  <1> QED
    BY <1>12, <1>15, <1>16, <1>17 DEF ReadsInv

-----------------------------------------------------------------------------
(* ChainReads: what a read tells.                                          *)

\* A read that has an answer made it of good answers, or of such that say something.
Answering ==
    /\ ReadsInv /\ read.result.outcome = "answer"

LEMMA AnsweringHas ==
    ASSUME Answering
    PROVE  /\ ChainShape /\ ReadShape /\ Ordered /\ Chain!AskForm(read.ask)
           /\ Chain!Wanted(read.ask, read.got) \subseteq DOMAIN read.got
           /\ read.result = Chain!Result(read.ask, read.got)
           /\ \A rpc \in DOMAIN read.got :
                 /\ SaidSo(rpc, read.got[rpc])
                 /\ read.got[rpc].state = "ok" \/ Chain!Tolerated(read.ask, rpc, read.got[rpc].state)
  BY DEF Answering, ReadsInv, ReadShape, Going, Chain!Fails

\* What is told is nothing but what the kind of the read tells.
LEMMA ToldByKind ==
    ASSUME Answering
    PROVE  LET kind == read.ask.kind  told == read.result
           IN  /\ kind \notin {"n3Status", "xStatus"} => told.status = "none"
               /\ kind \notin {"n3Info", "xInfo"} => told.height = Chain!None
               /\ kind # "n3Balance" => told.neo = Chain!None
               /\ kind \notin {"n3Balance", "xBalance"} => told.gas = Chain!None
               /\ kind # "n3Block" => told.validated = FALSE
               /\ kind # "n3Log" => told.parties = Chain!Nobody
  <1>1. read.result = Chain!Result(read.ask, read.got) /\ Chain!AskForm(read.ask)
    BY AnsweringHas
  <1> DEFINE kind == read.ask.kind
  <1>2. kind \in {"n3Info", "n3Block", "n3Balance", "n3Transaction", "n3Status", "n3Transfers", "n3Log", "n3Invoke",
                  "xInfo", "xBlock", "xTransaction", "xBalance", "xStatus", "xCall"}
    BY <1>1 DEF Chain!AskForm
  <1> USE DEF Chain!Told, Chain!Error
  <1>3. CASE kind \in {"n3Info", "n3Transaction", "n3Transfers", "n3Invoke", "xInfo", "xBlock", "xTransaction",
                       "xBalance", "xCall"}
    <2>1. CASE kind \in {"n3Info", "xInfo"}
      BY <1>1, <2>1 DEF Chain!Result
    <2>2. CASE kind \in {"n3Transaction", "n3Transfers"}
      BY <1>1, <2>2 DEF Chain!Result
    <2>3. CASE kind \in {"xBlock", "xTransaction", "xBalance"}
      BY <1>1, <2>3 DEF Chain!Result
    <2>4. CASE kind \in {"n3Invoke", "xCall"}
      BY <1>1, <2>4 DEF Chain!Result
    <2> QED
      BY <1>3, <2>1, <2>2, <2>3, <2>4
  <1>4. CASE kind = "n3Block"
    BY <1>1, <1>4 DEF Chain!Result, Chain!Block
  <1>5. CASE kind = "n3Balance"
    BY <1>1, <1>5 DEF Chain!Result, Chain!Balance
  <1>6. CASE kind = "n3Status"
    BY <1>1, <1>6 DEF Chain!Result, Chain!Status
  <1>7. CASE kind = "n3Log"
    BY <1>1, <1>7 DEF Chain!Result, Chain!EnrichedLog
  <1>8. CASE kind = "xStatus"
    BY <1>1, <1>8 DEF Chain!Result, Chain!EvmStatus
  <1> QED
    BY <1>2, <1>3, <1>4, <1>5, <1>6, <1>7, <1>8

\* An answer that is good, to a request other than for the state height.
LEMMA GoodAnswer ==
    ASSUME Answering, NEW rpc \in Rpcs \ {"getstateheight"}, rpc \in DOMAIN read.got,
           read.got[rpc].state \notin {"failed", "unsupported"}
    PROVE  \E v \in Chain!Window : v \in 0 .. tip /\ v >= read.began - MaxLag
                                   /\ read.got[rpc] \in Chain!Known(rpc, read.ask, v)
  <1>1. PICK v \in Chain!Window : read.got[rpc] \in Chain!Known(rpc, read.ask, v)
    BY AnsweringHas DEF SaidSo
  <1> QED
    BY <1>1, AnsweringHas, WindowTyped

\* Not in a block for one endpoint: it was not in one for all of them.
LEMMA NotMinedBefore ==
    ASSUME ChainShape, ReadShape, NEW v \in Chain!Window, ~Chain!MinedAt(v)
    PROVE  ~Chain!MinedAt(read.began - MaxLag)
  <1>1. v \in 0 .. tip /\ v >= read.began - MaxLag
    BY WindowTyped
  <1> QED
    BY <1>1, LagTyped DEF Chain!MinedAt, ChainShape, ReadShape

LEMMA N3StatusTrue ==
    ASSUME Answering, read.ask.kind = "n3Status"
    PROVE  Chain!StatusWasTrue
  <1> DEFINE got == read.got
             transaction == Chain!TransactionAnswer(got)
  <1>1. /\ ChainShape /\ ReadShape /\ Ordered /\ Chain!StatusRequests(got) \subseteq DOMAIN got
        /\ read.result = Chain!Status(got)
        /\ \A rpc \in DOMAIN got : SaidSo(rpc, got[rpc])
                                   /\ (got[rpc].state = "ok" \/ Chain!Tolerated(read.ask, rpc, got[rpc].state))
    BY AnsweringHas DEF Chain!Wanted, Chain!Result
  <1>2. /\ Chain!TransactionRequests(got) \subseteq DOMAIN got
        /\ Chain!TransactionKnown(got) /\ transaction.number > 0 => "getblockcount" \in DOMAIN got
        /\ Chain!TransactionKnown(got) /\ transaction.number > 0 /\ "getblockcount" \in DOMAIN got =>
              "getapplicationlog" \in DOMAIN got
    BY <1>1 DEF Chain!StatusRequests, Chain!If
  <1>3. CASE transaction.state # "ok"
    <2>1. read.result.status = "unknown"
      BY <1>1, <1>3 DEF Chain!Status, Chain!Told, Chain!Error
    <2>2. PICK rpc \in {"getrawtransaction", "getrawtransaction by query"} :
             rpc \in DOMAIN got /\ transaction = got[rpc]
             /\ (rpc = "getrawtransaction" => "getrawtransaction by query" \notin DOMAIN got)
      BY <1>2 DEF Chain!TransactionRequests, Chain!TransactionAnswer
    <2>3. got[rpc].state = "unknown" \/ Chain!Mistaken
      <3>1. got[rpc].state \in {"unknown", "unsupported"}
        BY <1>1, <1>3, <2>2 DEF Chain!Tolerated
      <3>2. rpc = "getrawtransaction" => got[rpc].state # "unsupported"
        BY <1>2, <2>2 DEF Chain!TransactionRequests, Chain!If, Chain!Is
      <3> QED
        BY <2>2, <3>1, <3>2 DEF Chain!Mistaken, Chain!Is
    <2>4. ASSUME got[rpc].state = "unknown" PROVE ~Chain!MinedAt(read.began - MaxLag)
      <3>1. PICK v \in Chain!Window : got[rpc] \in Chain!Transaction(v)
        BY <1>1, <2>2, <2>4 DEF SaidSo, Chain!Known
      <3>2. ~Chain!MinedAt(v)
        <4>1. Chain!Ok(v - mined + 1).state = "ok"
          BY DEF Chain!Ok, Chain!Answer
        <4> QED
          BY <2>4, <3>1, <4>1 DEF Chain!Transaction
      <3> QED
        BY <1>1, <3>2, NotMinedBefore
    <2> QED
      BY <2>1, <2>3, <2>4 DEF Chain!StatusWasTrue
  <1>4. CASE transaction.state = "ok" /\ transaction.number = 0
    <2>1. read.result.status = "pending"
      BY <1>1, <1>4 DEF Chain!Status, Chain!Told, Chain!Error
    <2>2. Chain!TransactionKnown(got)
      BY <1>2, <1>4 DEF Chain!TransactionKnown
    <2>3. pooled /\ \E v \in Chain!Window : ~Chain!MinedAt(v)
      <3>1. \A v \in Chain!Window : Chain!MinedAt(v) => v - mined + 1 # 0
        <4> SUFFICES ASSUME NEW v \in Chain!Window, Chain!MinedAt(v) PROVE v - mined + 1 # 0
          OBVIOUS
        <4>1. v \in 0 .. tip /\ mined \in 1 .. v
          BY <1>1, WindowTyped DEF Chain!MinedAt
        <4> QED
          BY <1>1, <4>1 DEF ChainShape
      <3>2. \/ \E v \in Chain!Window : Chain!MinedAt(v) /\ transaction.number = v - mined + 1
            \/ transaction.number = 0 /\ pooled /\ \E v \in Chain!Window : ~Chain!MinedAt(v)
        BY <2>2, KnownTransaction DEF Answering
      <3> HIDE DEF transaction
      <3> QED
        BY <1>4, <3>1, <3>2
    <2>4. ~Chain!MinedAt(read.began - MaxLag)
      BY <1>1, <2>3, NotMinedBefore
    <2> QED
      BY <2>1, <2>3, <2>4, Zenon DEF Chain!StatusWasTrue
  <1>5. CASE transaction.state = "ok" /\ transaction.number # 0
    <2> DEFINE count == got["getblockcount"]
               log == got["getapplicationlog"]
    <2>1. /\ read.result.status = "confirmed" /\ read.result.confirmations = transaction.number
          /\ read.result.block = Chain!BlockNumber(transaction.number, count)
          /\ read.result.succeeded = Chain!Succeeded(log)
      BY <1>1, <1>5 DEF Chain!Status, Chain!Told, Chain!Error
    <2>2. Chain!TransactionKnown(got)
      BY <1>2, <1>5 DEF Chain!TransactionKnown
    <2>3. PICK v \in Chain!Window : Chain!MinedAt(v) /\ transaction.number = v - mined + 1
      BY <1>5, <2>2, KnownTransaction DEF Answering
    <2>4. /\ v \in 0 .. tip /\ mined \in 1 .. v /\ transaction.number \in 1 .. tip - mined + 1
          /\ tip \in Nat /\ read.began \in Nat /\ read.began <= tip /\ v >= read.began - MaxLag
      <3>1. v \in 0 .. tip /\ mined \in 1 .. v /\ v >= read.began - MaxLag
        BY <1>1, <2>3, WindowTyped DEF Chain!MinedAt
      <3> QED
        BY <1>1, <2>3, <3>1 DEF ChainShape, ReadShape
    <2>5. "getblockcount" \in DOMAIN got /\ "getapplicationlog" \in DOMAIN got
      BY <1>2, <2>2, <2>4
    <2>6. (read.result.succeeded = "yes" => halts) /\ (read.result.succeeded = "no" => ~halts)
      <3>1. CASE log.state # "ok"
        BY <2>1, <3>1 DEF Chain!Succeeded
      <3>2. CASE log.state = "ok"
        <4>1. PICK w \in Chain!Window : log \in Chain!Known("getapplicationlog", read.ask, w)
          BY <1>1, <2>5, <3>2 DEF SaidSo
        <4>2. log \in {Chain!Answer("unknown", 0), Chain!Answer("empty", 0)} \cup Chain!Log(IF halts THEN 1 ELSE 0)
          BY <4>1 DEF Chain!Known
        <4>3. Chain!Answer("unknown", 0).state = "unknown" /\ Chain!Answer("empty", 0).state = "empty"
          BY DEF Chain!Answer
        <4>4. log \in Chain!Log(IF halts THEN 1 ELSE 0)
          BY <3>2, <4>2, <4>3
        <4>5. log.number = IF halts THEN 1 ELSE 0
          BY <4>4 DEF Chain!Log
        <4>6. CASE halts
          BY <2>1, <3>2, <4>5, <4>6 DEF Chain!Succeeded
        <4>7. CASE ~halts
          BY <2>1, <3>2, <4>5, <4>7 DEF Chain!Succeeded
        <4> QED
          BY <4>6, <4>7
      <3> QED
        BY <3>1, <3>2
    <2>7. ASSUME read.result.block # Chain!None
          PROVE  read.result.block - mined \in -MaxLag .. MaxLag + tip - read.began
      <3>1. count.state = "ok" /\ read.result.block = count.number - 1 - (transaction.number - 1)
        BY <2>1, <2>7 DEF Chain!BlockNumber
      <3>2. count.number >= transaction.number + mined - MaxLag
        BY <1>1, <2>5, <3>1 DEF Ordered
      <3>3. PICK w \in Chain!Window : count \in Chain!Known("getblockcount", read.ask, w)
        BY <1>1, <2>5, <3>1 DEF SaidSo
      <3>4. count.number = w + 1 /\ w \in 0 .. tip
        <4>1. count = Chain!Ok(w + 1)
          BY <3>3 DEF Chain!Known
        <4> QED
          BY <1>1, <3>3, <4>1, WindowTyped DEF Chain!Ok, Chain!Answer
      <3> HIDE DEF count, transaction
      <3>5. read.result.block - mined = w - v /\ w + 1 >= v - mined + 1 + mined - MaxLag
        BY <2>3, <2>4, <3>1, <3>2, <3>4, LagTyped
      <3> QED
        BY <2>4, <3>4, <3>5, LagTyped
    <2>8. mined > 0 /\ read.result.confirmations \in 0 .. tip - mined + 1
      BY <2>1, <2>4
    <2> QED
      BY <2>1, <2>6, <2>7, <2>8 DEF Chain!StatusWasTrue
  <1> QED
    BY <1>3, <1>4, <1>5

LEMMA XStatusTrue ==
    ASSUME Answering, read.ask.kind = "xStatus"
    PROVE  Chain!StatusWasTrue
  <1> DEFINE got == read.got
             receipt == got["eth_getTransactionReceipt"]
             transaction == got["eth_getTransactionByHash"]
             last_ == got["eth_blockNumber"]
  <1>1. /\ ChainShape /\ ReadShape /\ Chain!EvmStatusRequests(got) \subseteq DOMAIN got
        /\ read.result = Chain!EvmStatus(got)
        /\ \A rpc \in DOMAIN got : SaidSo(rpc, got[rpc])
                                   /\ (got[rpc].state = "ok" \/ Chain!Tolerated(read.ask, rpc, got[rpc].state))
    BY AnsweringHas DEF Chain!Wanted, Chain!Result
  <1>2. /\ "eth_getTransactionReceipt" \in DOMAIN got
        /\ receipt.state = "null" => "eth_getTransactionByHash" \in DOMAIN got
        /\ receipt.state = "ok" => "eth_blockNumber" \in DOMAIN got
    BY <1>1 DEF Chain!EvmStatusRequests, Chain!If, Chain!Is
  <1>3. receipt.state \in {"ok", "null"}
    BY <1>1, <1>2 DEF Chain!Tolerated
  <1>4. PICK v \in Chain!Window : receipt \in Chain!Known("eth_getTransactionReceipt", read.ask, v)
    BY <1>1, <1>2, <1>3 DEF SaidSo
  <1>5. receipt = IF Chain!MinedAt(v) THEN [Chain!Ok(mined) EXCEPT !.form = IF halts THEN "0x1" ELSE "0x0"]
                  ELSE Chain!Answer("null", 0)
    BY <1>4 DEF Chain!Known
  <1>6. v \in 0 .. tip /\ v >= read.began - MaxLag /\ tip \in Nat /\ read.began \in Nat /\ read.began <= tip
        /\ mined \in Nat
    BY <1>1, <1>4, WindowTyped DEF ChainShape, ReadShape
  <1>7. CASE Chain!MinedAt(v)
    <2>1. receipt.state = "ok" /\ receipt.number = mined /\ receipt.form = IF halts THEN "0x1" ELSE "0x0"
      BY <1>5, <1>7 DEF Chain!Ok, Chain!Answer
    <2>2. /\ read.result.status = "confirmed" /\ read.result.block = mined
          /\ read.result.succeeded = (IF receipt.form = "0x1" THEN "yes" ELSE "no")
          /\ read.result.confirmations = Chain!Larger(0, last_.number - mined + 1)
      BY <1>1, <2>1 DEF Chain!EvmStatus, Chain!Told, Chain!Error
    <2>3. "eth_blockNumber" \in DOMAIN got /\ last_.state = "ok"
      BY <1>1, <1>2, <2>1 DEF Chain!Tolerated
    <2>4. PICK w \in Chain!Window : last_ \in Chain!Known("eth_blockNumber", read.ask, w)
      BY <1>1, <2>3 DEF SaidSo
    <2>5. last_.number = w /\ w \in 0 .. tip
      BY <1>1, <2>4, WindowTyped DEF Chain!Known, Chain!Ok, Chain!Answer
    <2>6. mined > 0 /\ mined <= tip
      BY <1>6, <1>7 DEF Chain!MinedAt
    <2>7. read.result.confirmations \in 0 .. tip - mined + 1
      <3> HIDE DEF last_
      <3> QED
        BY <1>6, <2>2, <2>5, <2>6 DEF Chain!Larger
    <2>8. (read.result.succeeded = "yes" => halts) /\ (read.result.succeeded = "no" => ~halts)
      BY <2>1, <2>2
    <2>9. read.result.block - mined \in -MaxLag .. MaxLag + tip - read.began
      BY <1>6, <2>2, LagTyped
    <2> QED
      BY <2>2, <2>6, <2>7, <2>8, <2>9 DEF Chain!StatusWasTrue
  <1>8. CASE ~Chain!MinedAt(v)
    <2>1. receipt.state = "null"
      BY <1>5, <1>8 DEF Chain!Answer
    <2>2. read.result.status = IF transaction.state = "ok" THEN "pending" ELSE "unknown"
      BY <1>1, <2>1 DEF Chain!EvmStatus, Chain!Told, Chain!Error
    <2>3. ~Chain!MinedAt(read.began - MaxLag)
      BY <1>1, <1>4, <1>8, NotMinedBefore
    <2>4. ASSUME transaction.state = "ok" PROVE pooled
      <3>1. PICK w \in Chain!Window : transaction \in Chain!Known("eth_getTransactionByHash", read.ask, w)
        BY <1>1, <1>2, <2>1, <2>4 DEF SaidSo
      <3>2. transaction \in IF Chain!MinedAt(w) THEN {Chain!Ok(mined)}
                            ELSE {Chain!Answer("null", 0)} \cup IF pooled THEN {Chain!Ok(0)} ELSE {}
        BY <3>1 DEF Chain!Known
      <3>3. Chain!Answer("null", 0).state = "null"
        BY DEF Chain!Answer
      <3>4. Chain!MinedAt(w) => mined > 0
        BY <1>6 DEF Chain!MinedAt
      <3> HIDE DEF transaction
      <3> QED
        BY <1>1, <2>4, <3>2, <3>3, <3>4 DEF ChainShape
    <2> QED
      BY <2>2, <2>3, <2>4 DEF Chain!StatusWasTrue
  <1> QED
    BY <1>7, <1>8

LEMMA HeightsTrue ==
    ASSUME Answering, read.ask.kind \in {"n3Info", "xInfo"}
    PROVE  read.result.height \in Chain!Window
  <1>1. CASE read.ask.kind = "n3Info"
    <2> DEFINE count == read.got["getblockcount"]
    <2>1. "getblockcount" \in DOMAIN read.got /\ read.result.height = Chain!Larger(0, count.number - 1)
      BY <1>1, AnsweringHas DEF Chain!Wanted, Chain!InfoRequests, Chain!Result, Chain!Told, Chain!Error
    <2>2. count.state = "ok"
      BY <1>1, <2>1, AnsweringHas DEF Chain!Tolerated
    <2>3. PICK v \in Chain!Window : v \in 0 .. tip /\ count \in Chain!Known("getblockcount", read.ask, v)
      BY <2>1, <2>2, GoodAnswer DEF Rpcs
    <2>4. count.number = v + 1
      BY <2>3 DEF Chain!Known, Chain!Ok, Chain!Answer
    <2> HIDE DEF count
    <2> QED
      BY <2>1, <2>3, <2>4 DEF Chain!Larger
  <1>2. CASE read.ask.kind = "xInfo"
    <2>1. "eth_blockNumber" \in DOMAIN read.got /\ read.result.height = read.got["eth_blockNumber"].number
      BY <1>2, AnsweringHas DEF Chain!Wanted, Chain!Result, Chain!Told, Chain!Error
    <2>2. read.got["eth_blockNumber"].state = "ok"
      BY <1>2, <2>1, AnsweringHas DEF Chain!Tolerated
    <2>3. PICK v \in Chain!Window : read.got["eth_blockNumber"] \in Chain!Known("eth_blockNumber", read.ask, v)
      BY <2>1, <2>2, GoodAnswer DEF Rpcs
    <2> QED
      BY <2>1, <2>3 DEF Chain!Known, Chain!Ok, Chain!Answer
  <1> QED
    BY <1>1, <1>2

\* Balances come from one answer or from one for each token.
LEMMA N3BalanceTrue ==
    ASSUME Answering, read.ask.kind = "n3Balance"
    PROVE  /\ \E h \in Chain!Window : read.result.neo = Chain!NeoAt(h)
           /\ \E h \in Chain!Window : read.result.gas = Chain!GasAt(h)
  <1> DEFINE got == read.got
             known(rpc, v) == Chain!Known(rpc, read.ask, v)
  <1>1. /\ Chain!BalanceRequests(got) \subseteq DOMAIN got /\ read.result = Chain!Balance(got)
        /\ \A rpc \in DOMAIN got : got[rpc].state = "ok" \/ Chain!Tolerated(read.ask, rpc, got[rpc].state)
    BY AnsweringHas DEF Chain!Wanted, Chain!Result
  <1>2. "getnep17balances" \in DOMAIN got /\ got["getnep17balances"].state \in {"ok", "unsupported"}
    BY <1>1 DEF Chain!BalanceRequests, Chain!Tolerated
  <1>3. CASE got["getnep17balances"].state = "ok"
    <2>1. read.result.neo = got["getnep17balances"].number /\ read.result.gas = 1 - got["getnep17balances"].number
      BY <1>1, <1>2, <1>3 DEF Chain!Balance, Chain!Is, Chain!Told, Chain!Error
    <2>2. PICK v \in Chain!Window : got["getnep17balances"] \in known("getnep17balances", v)
      BY <1>2, <1>3, GoodAnswer DEF Rpcs
    <2>3. got["getnep17balances"] \in {Chain!Ok(Chain!NeoAt(v)), Chain!Answer("empty", 0)}
      BY <2>2 DEF Chain!Known
    <2>4. got["getnep17balances"].number = Chain!NeoAt(v)
      BY <1>3, <2>3 DEF Chain!Ok, Chain!Answer
    <2> QED
      BY <2>1, <2>4 DEF Chain!GasAt
  <1>4. CASE got["getnep17balances"].state = "unsupported"
    <2>1. "balanceOf NEO" \in DOMAIN got /\ "balanceOf GAS" \in DOMAIN got
      BY <1>1, <1>2, <1>4 DEF Chain!BalanceRequests, Chain!If, Chain!Is
    <2>2. got["balanceOf NEO"].state = "ok" /\ got["balanceOf GAS"].state = "ok"
      BY <1>1, <2>1 DEF Chain!Tolerated
    <2>3. read.result.neo = got["balanceOf NEO"].number /\ read.result.gas = got["balanceOf GAS"].number
      BY <1>1, <1>4 DEF Chain!Balance, Chain!Is, Chain!Told, Chain!Error
    <2>4. PICK v \in Chain!Window : got["balanceOf NEO"] \in known("balanceOf NEO", v)
      BY <2>1, <2>2, GoodAnswer DEF Rpcs
    <2>5. got["balanceOf NEO"].number = Chain!NeoAt(v)
      <3>1. got["balanceOf NEO"] \in {Chain!Ok(Chain!NeoAt(v)), Chain!Answer("fault", 0)}
        BY <2>4 DEF Chain!Known
      <3>2. Chain!Ok(Chain!NeoAt(v)).number = Chain!NeoAt(v) /\ Chain!Answer("fault", 0).state = "fault"
        BY DEF Chain!Ok, Chain!Answer
      <3> QED
        BY <2>2, <3>1, <3>2
    <2>6. PICK w \in Chain!Window : got["balanceOf GAS"] \in known("balanceOf GAS", w)
      BY <2>1, <2>2, GoodAnswer DEF Rpcs
    <2>7. got["balanceOf GAS"].number = Chain!GasAt(w)
      <3>1. got["balanceOf GAS"] \in {Chain!Ok(Chain!GasAt(w)), Chain!Answer("fault", 0)}
        BY <2>6 DEF Chain!Known
      <3>2. Chain!Ok(Chain!GasAt(w)).number = Chain!GasAt(w) /\ Chain!Answer("fault", 0).state = "fault"
        BY DEF Chain!Ok, Chain!Answer
      <3> QED
        BY <2>2, <3>1, <3>2
    <2> QED
      BY <2>3, <2>5, <2>7
  <1> QED
    BY <1>2, <1>3, <1>4

LEMMA XBalanceTrue ==
    ASSUME Answering, read.ask.kind = "xBalance"
    PROVE  \E h \in Chain!Window : read.result.gas = Chain!GasAt(h)
  <1>1. "eth_getBalance" \in DOMAIN read.got /\ read.result.gas = read.got["eth_getBalance"].number
    BY AnsweringHas DEF Chain!Wanted, Chain!Result, Chain!Told, Chain!Error
  <1>2. read.got["eth_getBalance"].state = "ok"
    BY <1>1, AnsweringHas DEF Chain!Tolerated
  <1>3. PICK v \in Chain!Window : read.got["eth_getBalance"] \in Chain!Known("eth_getBalance", read.ask, v)
    BY <1>1, <1>2, GoodAnswer DEF Rpcs
  <1> QED
    BY <1>1, <1>3 DEF Chain!Known, Chain!Ok, Chain!Answer

LEMMA ValidatedTrue ==
    ASSUME Answering, read.ask.kind = "n3Block", read.result.validated
    PROVE  read.ask.block <= validated
  <1> DEFINE got == read.got
  <1>1. /\ Chain!BlockRequests(read.ask, got) \subseteq DOMAIN got /\ read.result = Chain!Block(read.ask, got)
        /\ \A rpc \in DOMAIN got : /\ SaidSo(rpc, got[rpc])
                                   /\ got[rpc].state = "ok" \/ Chain!Tolerated(read.ask, rpc, got[rpc].state)
        /\ read.ask.block \in Int /\ validated \in Nat
    BY AnsweringHas, PartsConstants DEF Chain!Wanted, Chain!Result, Chain!AskForm, ChainShape, Chain!ConstantsOK
  <1>2. read.ask.root /\ got["getstateroot"].number <= got["getstateheight"].number
    BY <1>1 DEF Chain!Block, Chain!Told, Chain!Error
  <1>3. "getblock" \in DOMAIN got /\ got["getblock"].state = "ok"
    BY <1>1 DEF Chain!BlockRequests, Chain!Tolerated
  <1>4. "getstateroot" \in DOMAIN got /\ "getstateheight" \in DOMAIN got
    BY <1>1, <1>2, <1>3 DEF Chain!BlockRequests, Chain!If, Chain!Is
  <1>5. got["getstateroot"].state = "ok" /\ got["getstateheight"].state = "ok"
    BY <1>1, <1>4 DEF Chain!Tolerated
  <1>6. PICK v \in Chain!Window : got["getstateroot"] \in Chain!Known("getstateroot", read.ask, v)
    BY <1>4, <1>5, GoodAnswer DEF Rpcs
  <1>7. got["getstateroot"].number = read.ask.block
    <2>1. got["getstateroot"] \in {Chain!Ok(read.ask.block), Chain!Answer("unknown", 0)}
      BY <1>6 DEF Chain!Known
    <2> QED
      BY <1>5, <2>1 DEF Chain!Ok, Chain!Answer
  <1>8. got["getstateheight"].number \in Nat /\ got["getstateheight"].number <= validated
    BY <1>1, <1>4, <1>5 DEF SaidSo
  <1> QED
    BY <1>1, <1>2, <1>7, <1>8

\* Bytes are turned round once, whatever form the contract emitted.
LEMMA PartiesTrue ==
    ASSUME Answering, read.ask.kind = "n3Log", read.result.parties # Chain!Nobody
    PROVE  read.result.parties = Chain!Parties
  <1> DEFINE log == read.got["getapplicationlog"]
  <1>1. "getapplicationlog" \in DOMAIN read.got /\ read.result = Chain!EnrichedLog(log)
    BY AnsweringHas DEF Chain!Wanted, Chain!Result
  <1>2. log.state \in {"ok", "empty"}
    BY <1>1, AnsweringHas DEF Chain!Tolerated
  <1>3. log.state = "ok" /\ read.result.parties = [p \in {"from", "to"} |-> Chain!Participant(log, p)]
    BY <1>1, <1>2 DEF Chain!EnrichedLog, Chain!Told, Chain!Error
  <1>4. PICK v \in Chain!Window : log \in Chain!Known("getapplicationlog", read.ask, v)
    BY <1>1, <1>3, GoodAnswer DEF Rpcs
  <1>5. log \in Chain!Log(IF halts THEN 1 ELSE 0)
    <2>1. log \in {Chain!Answer("unknown", 0), Chain!Answer("empty", 0)} \cup Chain!Log(IF halts THEN 1 ELSE 0)
      BY <1>4 DEF Chain!Known
    <2>2. Chain!Answer("unknown", 0).state = "unknown" /\ Chain!Answer("empty", 0).state = "empty"
      BY DEF Chain!Answer
    <2> QED
      BY <1>3, <2>1, <2>2
  <1>6. log.parties = [p \in {"from", "to"} |->
                          IF log.form = "ByteString" THEN Chain!Reversed(Chain!Parties[p]) ELSE Chain!Parties[p]]
    BY <1>5 DEF Chain!Log
  <1>7. \A p \in {"from", "to"} : Chain!Reversed(Chain!Reversed(Chain!Parties[p])) = Chain!Parties[p]
    <2>1. Chain!Parties["from"] = Chain!Party("alice", "big") /\ Chain!Parties["to"] = Chain!Party("bob", "big")
      BY DEF Chain!Parties
    <2>2. \A name : /\ Chain!Reversed(Chain!Party(name, "big")) = Chain!Party(name, "little")
                    /\ Chain!Reversed(Chain!Party(name, "little")) = Chain!Party(name, "big")
      BY DEF Chain!Reversed, Chain!Party
    <2> QED
      BY <2>1, <2>2
  <1> HIDE DEF log
  <1>8. \A p \in {"from", "to"} : Chain!Participant(log, p) = Chain!Parties[p]
    BY <1>6, <1>7 DEF Chain!Participant
  <1>9. Chain!Parties = [p \in {"from", "to"} |-> Chain!Parties[p]]
    BY DEF Chain!Parties
  <1> QED
    BY <1>3, <1>8, <1>9

LEMMA PairOfSingletons == ASSUME NEW x, NEW y PROVE <<x>> \o <<y>> = <<x, y>>
  <1> DEFINE S == {x, y}
             s == <<x>> \o <<y>>
  <1>1. <<x>> \in Seq(S) /\ <<y>> \in Seq(S) /\ <<x, y>> \in Seq(S) /\ Len(<<x>>) = 1 /\ Len(<<y>>) = 1
    OBVIOUS
  <1>2. s \in Seq(S) /\ Len(s) = 2 /\ s[1] = x /\ s[2] = y
    BY <1>1, ConcatProperties
  <1> HIDE DEF s
  <1>3. s = <<x, y>>
    BY <1>2
  <1> QED
    BY <1>3 DEF s

\* Where the history that is told begins and ends for an endpoint at v.
LEMMA HistoryTold ==
    ASSUME Answering, read.ask.kind = "n3Transfers"
    PROVE  \E v \in Chain!Window : LET ask == read.ask IN
              read.result.listed =
                 Chain!History(IF ask.from # Chain!None THEN ask.from
                               ELSE IF ask.to # Chain!None THEN 0 ELSE v - Week,
                               IF ask.to # Chain!None THEN ask.to ELSE v, v)
  <1> DEFINE ask == read.ask
             history == read.got["getnep17transfers"]
             params == Chain!HistoryParams(ask)
  <1>1. "getnep17transfers" \in DOMAIN read.got /\ read.result.listed = history.number
    BY AnsweringHas DEF Chain!Wanted, Chain!Result, Chain!Told, Chain!Error
  <1>2. history.state = "ok"
    BY <1>1, AnsweringHas DEF Chain!Tolerated
  <1>3. PICK v \in Chain!Window : history \in Chain!Known("getnep17transfers", read.ask, v)
    BY <1>1, <1>2, GoodAnswer DEF Rpcs
  <1>4. history = Chain!Ok(Chain!History(IF params = <<>> THEN v - Week ELSE params[1],
                                         IF Len(params) < 2 THEN v ELSE params[2], v))
    BY <1>3 DEF Chain!Known, Chain!HistoryAnswer
  <1> HIDE DEF history
  <1>5. history.number = Chain!History(IF params = <<>> THEN v - Week ELSE params[1],
                                       IF Len(params) < 2 THEN v ELSE params[2], v)
    BY <1>4 DEF Chain!Ok, Chain!Answer
  <1>6. CASE ask.from # Chain!None /\ ask.to # Chain!None
    <2>1. params = <<ask.from, ask.to>>
      <3>1. params = <<ask.from>> \o <<ask.to>>
        BY <1>6 DEF Chain!HistoryParams
      <3> QED
        BY <3>1, PairOfSingletons
    <2> HIDE DEF params
    <2>2. params # <<>> /\ Len(params) = 2 /\ params[1] = ask.from /\ params[2] = ask.to
      BY <2>1
    <2> QED
      BY <1>1, <1>5, <1>6, <2>2
  <1>7. CASE ask.from # Chain!None /\ ask.to = Chain!None
    <2>1. params = <<ask.from>>
      BY <1>7 DEF Chain!HistoryParams
    <2> HIDE DEF params
    <2>2. params # <<>> /\ Len(params) = 1 /\ params[1] = ask.from
      BY <2>1
    <2> QED
      BY <1>1, <1>5, <1>7, <2>2
  <1>8. CASE ask.from = Chain!None /\ ask.to # Chain!None
    <2>1. params = <<0, ask.to>>
      <3>1. params = <<0>> \o <<ask.to>>
        BY <1>8 DEF Chain!HistoryParams
      <3> QED
        BY <3>1, PairOfSingletons
    <2> HIDE DEF params
    <2>2. params # <<>> /\ Len(params) = 2 /\ params[1] = 0 /\ params[2] = ask.to
      BY <2>1
    <2> QED
      BY <1>1, <1>5, <1>8, <2>2
  <1>9. CASE ask.from = Chain!None /\ ask.to = Chain!None
    <2>1. params = <<>>
      BY <1>9 DEF Chain!HistoryParams
    <2> HIDE DEF params
    <2>2. params = <<>> /\ Len(params) = 0
      BY <2>1
    <2> QED
      BY <1>1, <1>5, <1>9, <2>2
  <1> QED
    BY <1>6, <1>7, <1>8, <1>9

LEMMA TransfersTrue ==
    ASSUME Answering, read.ask.kind = "n3Transfers"
    PROVE  LET ask  == read.ask
               from == IF ask.from = Chain!None THEN 0 ELSE ask.from
               to   == IF ask.to = Chain!None THEN tip ELSE ask.to
           IN  /\ read.result.listed = 1 => Chain!MinedAt(tip) /\ mined \in from .. to
               /\ read.result.listed = 0 /\ (ask.from # Chain!None \/ ask.to # Chain!None) =>
                      ~(Chain!MinedAt(read.began - MaxLag) /\ mined \in from .. to)
  <1> DEFINE ask   == read.ask
             first(v) == IF ask.from # Chain!None THEN ask.from ELSE IF ask.to # Chain!None THEN 0 ELSE v - Week
             until(v) == IF ask.to # Chain!None THEN ask.to ELSE v
  <1>1. PICK v \in Chain!Window : read.result.listed = Chain!History(first(v), until(v), v)
    BY HistoryTold
  <1>2. /\ v \in 0 .. tip /\ v >= read.began - MaxLag /\ tip \in Nat /\ read.began \in Nat /\ mined \in Nat
        /\ ask.from \in Int /\ ask.to \in Int /\ Week \in Nat /\ read.began <= tip
    BY <1>1, AnsweringHas, WindowTyped, PartsConstants
    DEF ChainShape, ReadShape, Chain!AskForm, Chain!None, Chain!ConstantsOK
  <1>3. /\ read.result.listed = 1 => Chain!MinedAt(v) /\ mined \in first(v) .. until(v)
        /\ read.result.listed = 0 => ~(Chain!MinedAt(v) /\ mined \in first(v) .. until(v))
    BY <1>1 DEF Chain!History
  <1> QED
    BY <1>2, <1>3, LagTyped DEF Chain!MinedAt

LEMMA ReadsImply == ReadsInv => Chain!AnswersWereTrue
  <1> SUFFICES ASSUME Answering PROVE Chain!AnswersWereTrue
    BY DEF Answering, Chain!AnswersWereTrue
  <1>1. Chain!StatusWasTrue
    <2>1. CASE read.ask.kind \notin {"n3Status", "xStatus"}
      BY <2>1, ToldByKind DEF Chain!StatusWasTrue
    <2> QED
      BY <2>1, N3StatusTrue, XStatusTrue
  <1>2. read.result.height # Chain!None => read.result.height \in Chain!Window
    BY ToldByKind, HeightsTrue
  <1>3. /\ read.result.neo # Chain!None => \E h \in Chain!Window : read.result.neo = Chain!NeoAt(h)
        /\ read.result.gas # Chain!None => \E h \in Chain!Window : read.result.gas = Chain!GasAt(h)
    BY ToldByKind, N3BalanceTrue, XBalanceTrue
  <1>4. read.result.validated => read.ask.block <= validated
    BY ToldByKind, ValidatedTrue
  <1>5. read.result.parties # Chain!Nobody => read.result.parties = Chain!Parties
    BY ToldByKind, PartiesTrue
  <1> QED
    BY <1>1, <1>2, <1>3, <1>4, <1>5, TransfersTrue DEF Chain!AnswersWereTrue

LEMMA ReadsInductive == ReadsInv /\ [Chain!Next]_(Chain!vars) => ReadsInv'
  <1> SUFFICES ASSUME ReadsInv, [Chain!Next]_(Chain!vars) PROVE ReadsInv'
    OBVIOUS
  <1>1. CASE UNCHANGED Chain!vars
    <2>1. UNCHANGED <<tip, mined, pooled, halts, validated, read>>
      BY <1>1 DEF Chain!vars
    <2>2. ChainShape' /\ ReadShape' /\ Going' = Going /\ Ordered' = Ordered
      BY <2>1 DEF ReadsInv, ChainShape, ReadShape, Going, Ordered
    <2>3. \A rpc \in DOMAIN read.got : SaidSo(rpc, read.got[rpc])'
      <3> SUFFICES ASSUME NEW rpc \in DOMAIN read.got PROVE SaidSo(rpc, read.got[rpc])'
        OBVIOUS
      <3>1. SaidSo(rpc, read.got[rpc]) /\ Chain!Window' = Chain!Window
        BY <2>1 DEF ReadsInv, Chain!Window
      <3>2. \A v : Chain!Known(rpc, read.ask, v)' = Chain!Known(rpc, read.ask, v)
        BY <2>1 DEF Chain!Known, Chain!Transaction, Chain!MinedAt, Chain!NeoAt, Chain!GasAt, Chain!HistoryAnswer,
                    Chain!History
      <3> QED
        BY <2>1, <3>1, <3>2 DEF SaidSo
    <2> QED
      BY <2>1, <2>2, <2>3 DEF ReadsInv
  <1> QED
    BY <1>1, BeginStep, ReceiveStep, GoesOnStep DEF Chain!Next

\* Whatever endpoints lag behind and whatever happens between the requests of one read,
\* what NeoService and the node tools put together of the answers was true within the
\* window between the oldest view of an endpoint and the present.
THEOREM AnswersTrue == Chain!Spec => []Chain!AnswersWereTrue
  BY ReadsInitially, ReadsInductive, ReadsImply, PTL DEF Chain!Spec

-----------------------------------------------------------------------------
(* Proposals: what a call on its way to a proposal has been told.          *)

ProposalFields == {"pc", "ask", "decimals", "run", "got", "outcome", "network", "proposed"}

\* The decimals of the asset on a network.
DecimalsThere(ask, network) ==
    CASE ask.asset = "NEO" -> 0 [] ask.asset = "GAS" -> GasDecimals
      [] ask.asset \notin {"NEO", "GAS"} /\ ask.decimals # NoDecimals -> ask.decimals
      [] OTHER -> DecimalsOn[network]

\* Only a transfer of a token whose decimals are not known waits for them; what is built
\* for a preview is built with those of its asset.
AskedDecimals ==
    /\ proposal.pc = "decimals" =>
          /\ proposal.ask.tool = "n3_build_transfer" /\ proposal.ask.asset \notin {"NEO", "GAS"}
          /\ proposal.ask.decimals = NoDecimals /\ ~Proposed!Refused(proposal.ask)
    /\ proposal.pc = "previewing" =>
          /\ proposal.ask.tool \in Proposed!N3Tools /\ ~Proposed!Refused(proposal.ask)
          /\ proposal.ask.tool = "n3_build_transfer" =>
                proposal.decimals = DecimalsThere(proposal.ask, Proposed!ServiceFor(proposal.ask))

\* Every answer of a simulation is about the one call object; the price was known.
Simulated ==
    proposal.pc = "simulating" =>
        /\ proposal.ask.tool \in Proposed!XTools /\ DOMAIN proposal.got \subseteq Proposed!Priced
        /\ \A rpc \in DOMAIN proposal.got :
              /\ proposal.got[rpc].call = Proposed!CallObject(proposal.ask)
              /\ proposal.got[rpc].network = Proposed!Network(proposal.ask)
              /\ rpc = "eth_gasPrice" => proposal.got[rpc].ok

ProposalInv ==
    /\ DOMAIN proposal = ProposalFields
    /\ proposal.pc \in {"idle", "decimals", "previewing", "simulating", "done"}
    /\ proposal.pc # "idle" => Proposed!AskForm(proposal.ask)
    /\ proposal.pc # "done" => proposal.outcome = "none"
    /\ AskedDecimals /\ Simulated /\ Proposed!ProposedWasPreviewed

LEMMA DecimalsTyped == NoDecimals # 0 /\ NoDecimals # GasDecimals /\ \A ask \in ProposalAsks : Proposed!AskForm(ask)
  BY PartsConstants DEF Proposed!ConstantsOK

LEMMA ProposalsInitially == Proposed!Init => ProposalInv
  BY DEF Proposed!Init, Proposed!Idle, ProposalInv, ProposalFields, AskedDecimals, Simulated, Proposed!ProposedWasPreviewed

\* What is over without a proposal owes nothing.
LEMMA NothingProposed ==
    ASSUME DOMAIN proposal' = ProposalFields, proposal'.pc = "done", Proposed!AskForm(proposal'.ask),
           proposal'.outcome # "proposed"
    PROVE  ProposalInv'
  BY DEF ProposalInv, AskedDecimals, Simulated, Proposed!ProposedWasPreviewed

LEMMA ProposalBegins ==
    ASSUME ProposalInv, proposal.pc = "idle", NEW ask \in ProposalAsks, Proposed!Begin(ask)
    PROVE  ProposalInv'
  <1> DEFINE asks == ask.tool = "n3_build_transfer" /\ Proposed!KnownDecimals(ask) = NoDecimals
             refused == Proposed!Refused(ask)
                        \/ (~asks /\ Proposed!Unbuildable(ask, Proposed!KnownDecimals(ask)))
             pc == IF refused THEN "done" ELSE IF ask.tool \in Proposed!XTools THEN "simulating"
                   ELSE IF asks THEN "decimals" ELSE "previewing"
             outcome == IF refused THEN "error" ELSE "none"
  <1>1. /\ proposal' = [Proposed!Idle EXCEPT !.ask = ask, !.pc = pc, !.decimals = Proposed!KnownDecimals(ask),
                                             !.outcome = outcome]
        /\ UNCHANGED enabled
    BY DEF Proposed!Begin
  <1>2. /\ pc \in {"decimals", "previewing", "simulating", "done"} /\ outcome \in {"none", "error"}
        /\ pc # "done" => outcome = "none" /\ ~Proposed!Refused(ask)
        /\ pc = "simulating" <=> (~refused /\ ask.tool \in Proposed!XTools)
        /\ pc \in {"decimals", "previewing"} => ask.tool \notin Proposed!XTools
        /\ pc = "decimals" => asks
        /\ pc = "previewing" => ~asks
    OBVIOUS
  <1>3. Proposed!AskForm(ask)
    BY DecimalsTyped
  <1>4. asks <=> ask.tool = "n3_build_transfer" /\ ask.asset \notin {"NEO", "GAS"} /\ ask.decimals = NoDecimals
    BY DecimalsTyped DEF Proposed!KnownDecimals
  <1>5. ask.tool = "n3_build_transfer" /\ ~asks =>
           Proposed!KnownDecimals(ask) = DecimalsThere(ask, Proposed!ServiceFor(ask))
    BY DecimalsTyped DEF Proposed!KnownDecimals, DecimalsThere
  <1>6. ask.tool \in Proposed!N3Tools \cup Proposed!XTools
    BY <1>3 DEF Proposed!AskForm
  <1> HIDE DEF asks, refused, pc, outcome
  <1>7. /\ DOMAIN proposal' = ProposalFields /\ proposal'.ask = ask /\ proposal'.pc = pc
        /\ proposal'.decimals = Proposed!KnownDecimals(ask) /\ proposal'.outcome = outcome
        /\ DOMAIN proposal'.got = {}
    BY <1>1 DEF Proposed!Idle, ProposalFields
  <1>8. Proposed!ServiceFor(ask)' = Proposed!ServiceFor(ask)
    BY <1>1 DEF Proposed!ServiceFor
  <1>9. AskedDecimals'
    BY <1>2, <1>4, <1>5, <1>6, <1>7, <1>8 DEF AskedDecimals
  <1>10. Simulated'
    BY <1>2, <1>7 DEF Simulated
  <1> QED
    BY <1>2, <1>3, <1>7, <1>9, <1>10 DEF ProposalInv, Proposed!ProposedWasPreviewed

LEMMA ProposalDecimals ==
    ASSUME ProposalInv, Proposed!DecimalsAnswer
    PROVE  ProposalInv'
  <1> DEFINE ask == proposal.ask
  <1>1. PICK decimals \in {DecimalsOn[Proposed!ServiceFor(ask)], NoDecimals} :
           proposal' = IF decimals # NoDecimals /\ ~Proposed!Unbuildable(ask, decimals)
                       THEN [proposal EXCEPT !.pc = "previewing", !.decimals = decimals]
                       ELSE Proposed!End("error")
    BY DEF Proposed!DecimalsAnswer
  <1>2. proposal.pc = "decimals" /\ UNCHANGED enabled
    BY DEF Proposed!DecimalsAnswer
  <1>3. /\ DOMAIN proposal = ProposalFields /\ Proposed!AskForm(ask) /\ proposal.outcome = "none"
        /\ ask.tool = "n3_build_transfer" /\ ask.asset \notin {"NEO", "GAS"} /\ ask.decimals = NoDecimals
        /\ ~Proposed!Refused(ask)
    BY <1>2 DEF ProposalInv, AskedDecimals
  <1> HIDE DEF ask
  <1>4. CASE proposal' = [proposal EXCEPT !.pc = "previewing", !.decimals = decimals] /\ decimals # NoDecimals
    <2>1. /\ DOMAIN proposal' = ProposalFields /\ proposal'.ask = ask /\ proposal'.pc = "previewing"
          /\ proposal'.decimals = decimals /\ proposal'.outcome = "none"
      BY <1>3, <1>4 DEF ProposalFields, ask
    <2>2. Proposed!ServiceFor(ask)' = Proposed!ServiceFor(ask)
      BY <1>2, <2>1 DEF Proposed!ServiceFor, ask
    <2>3. decimals = DecimalsThere(ask, Proposed!ServiceFor(ask))
      BY <1>1, <1>3, <1>4 DEF DecimalsThere
    <2>4. AskedDecimals'
      BY <1>3, <2>1, <2>2, <2>3 DEF AskedDecimals, Proposed!N3Tools, ask
    <2> QED
      BY <1>3, <2>1, <2>4 DEF ProposalInv, Simulated, Proposed!ProposedWasPreviewed
  <1>5. CASE proposal' = Proposed!End("error")
    <2>1. DOMAIN proposal' = ProposalFields /\ proposal'.pc = "done" /\ proposal'.ask = ask /\ proposal'.outcome = "error"
      BY <1>3, <1>5 DEF Proposed!End, ProposalFields, ask
    <2> QED
      BY <1>3, <2>1, NothingProposed
  <1> QED
    BY <1>1, <1>4, <1>5

CallFields == {"contract", "operation", "args", "amount", "signers"}

LEMMA CalledTyped ==
    ASSUME NEW place, NEW name, NEW list, NEW number, NEW who
    PROVE  /\ DOMAIN Proposed!Call(place, name, list, number, who) = CallFields
           /\ Proposed!Call(place, name, list, number, who).operation = name
           /\ Proposed!Call(place, name, list, number, who).signers = who
  BY DEF Proposed!Call, CallFields

\* What each tool builds: signers who were given, or the caller; and a name of the
\* operation that says whether its run must return true.
LEMMA BuiltTyped ==
    ASSUME NEW ask, Proposed!AskForm(ask), ask.tool \in Proposed!N3Tools \ {"n3_test_invoke"},
           ~Proposed!Refused(ask), NEW decimals
    PROVE  LET built == Proposed!Built(ask, decimals) IN
           /\ DOMAIN built = CallFields
           /\ IF ask.signers # <<>> THEN built.signers = ask.signers
              ELSE \E i \in DOMAIN built.signers : built.signers[i].account = ask.from
           /\ built.operation \in {"vote", "register"} /\ ask.tool # "n3_build_invoke" =>
                 \/ ask.tool = "n3_build_vote"
                 \/ ask.tool = "n3_build_nns_operation" /\ ask.detail = "register"
           /\ ask.tool = "n3_build_transfer" => built.amount = Proposed!Scaled(ask.amount, decimals)
  <1> DEFINE built == Proposed!Built(ask, decimals)
             own == Proposed!OwnSigner(ask)
  <1>1. \E i \in DOMAIN own : own[i].account = ask.from
    <2>1. 1 \in DOMAIN own /\ own[1].account = ask.from
      BY DEF Proposed!OwnSigner, Proposed!Signer
    <2> QED
      BY <2>1
  <1> HIDE DEF own
  <1>2. ask.signers # <<>> => ask.tool = "n3_build_invoke"
    BY DEF Proposed!AskForm
  <1>3. CASE ask.tool = "n3_build_transfer"
    <2>1. /\ DOMAIN built = CallFields /\ built.signers = own /\ built.operation = "transfer"
          /\ built.amount = Proposed!Scaled(ask.amount, decimals)
      BY <1>3 DEF Proposed!Built, Proposed!Call, CallFields, own
    <2> QED
      BY <1>1, <1>2, <1>3, <2>1
  <1>4. CASE ask.tool = "n3_build_vote"
    <2>1. DOMAIN built = CallFields /\ built.signers = own
      BY <1>4 DEF Proposed!Built, Proposed!Call, CallFields, own
    <2> QED
      BY <1>1, <1>2, <1>4, <2>1
  <1>5. CASE ask.tool = "n3_build_nns_operation"
    <2> DEFINE nns == "nns " \o Proposed!Network(ask)
    <2>1. ask.detail \in {"register", "renew", "set_record", "delete_record", "transfer"}
      BY <1>5 DEF Proposed!AskForm, Proposed!Refused, Proposed!N3Tools
    <2>2. built = Proposed!NnsCall(ask)
      BY <1>5 DEF Proposed!Built
    <2> HIDE DEF nns
    <2>3. ASSUME NEW name, NEW list, built = Proposed!Call(nns, name, list, 0, own)
          PROVE  DOMAIN built = CallFields /\ built.signers = own /\ built.operation = name
      BY <2>3, CalledTyped
    <2> HIDE DEF built
    <2>4. /\ DOMAIN built = CallFields /\ built.signers = own
          /\ built.operation \in {"vote", "register"} => ask.detail = "register"
      <3>1. CASE ask.detail = "register"
        <4>1. built = Proposed!Call(nns, "register", <<"domain", ask.from>>, 0, own)
          BY <2>2, <3>1 DEF Proposed!NnsCall, own, nns
        <4>2. DOMAIN built = CallFields /\ built.signers = own /\ built.operation = "register"
          BY Zenon, <4>1, <2>3
        <4> QED
          BY <3>1, <4>2
      <3>2. CASE ask.detail = "renew"
        <4>1. built = Proposed!Call(nns, "renew", <<"domain", "years">>, 0, own)
          BY <2>2, <3>2 DEF Proposed!NnsCall, own, nns
        <4>2. DOMAIN built = CallFields /\ built.signers = own /\ built.operation = "renew"
          BY Zenon, <4>1, <2>3
        <4> QED
          BY <3>2, <4>2
      <3>3. CASE ask.detail = "set_record"
        <4>1. built = Proposed!Call(nns, "setRecord", <<"domain", "type", "data">>, 0, own)
          BY <2>2, <3>3 DEF Proposed!NnsCall, own, nns
        <4>2. DOMAIN built = CallFields /\ built.signers = own /\ built.operation = "setRecord"
          BY Zenon, <4>1, <2>3
        <4> QED
          BY <3>3, <4>2
      <3>4. CASE ask.detail = "delete_record"
        <4>1. built = Proposed!Call(nns, "deleteRecord", <<"domain", "type">>, 0, own)
          BY <2>2, <3>4 DEF Proposed!NnsCall, own, nns
        <4>2. DOMAIN built = CallFields /\ built.signers = own /\ built.operation = "deleteRecord"
          BY Zenon, <4>1, <2>3
        <4> QED
          BY <3>4, <4>2
      <3>5. CASE ask.detail = "transfer"
        <4>1. built = Proposed!Call(nns, "transfer", <<ask.to, "domain", "null">>, 0, own)
          BY <2>2, <3>5 DEF Proposed!NnsCall, own, nns
        <4>2. DOMAIN built = CallFields /\ built.signers = own /\ built.operation = "transfer"
          BY Zenon, <4>1, <2>3
        <4> QED
          BY <3>5, <4>2
      <3> QED
        BY <2>1, <3>1, <3>2, <3>3, <3>4, <3>5
    <2> QED
      BY <1>1, <1>2, <1>5, <2>4 DEF built
  <1>6. CASE ask.tool = "n3_build_invoke"
    <2>1. DOMAIN built = CallFields /\ built.signers = Proposed!SignersOf(ask)
      BY <1>6 DEF Proposed!Built, Proposed!Call, CallFields
    <2>2. Proposed!SignersOf(ask) = IF ask.signers = <<>> THEN own ELSE ask.signers
      BY <1>6 DEF Proposed!SignersOf, own
    <2> QED
      BY <1>1, <1>6, <2>1, <2>2
  <1> QED
    BY <1>3, <1>4, <1>5, <1>6 DEF Proposed!N3Tools

\* What a node is sent differs from what is built in the form of the signers alone.
LEMMA SentIsBuilt ==
    ASSUME NEW ask, ask.tool # "n3_test_invoke", NEW built, DOMAIN built = CallFields
    PROVE  LET sent == Proposed!Sent(ask, built) IN
           /\ [sent EXCEPT !.signers = <<>>] = [built EXCEPT !.signers = <<>>]
           /\ DOMAIN sent.signers = DOMAIN built.signers
           /\ \A i \in DOMAIN built.signers : sent.signers[i] = [built.signers[i] EXCEPT !.form = "hash"]
           /\ sent.operation = built.operation
  <1> DEFINE signers == [i \in DOMAIN built.signers |-> Proposed!RpcSigner(built.signers[i])]
  <1>1. Proposed!Sent(ask, built) = [built EXCEPT !.signers = signers]
    BY DEF Proposed!Sent
  <1>2. \A i \in DOMAIN built.signers : signers[i] = [built.signers[i] EXCEPT !.form = "hash"]
    BY DEF Proposed!RpcSigner
  <1>3. DOMAIN signers = DOMAIN built.signers
    OBVIOUS
  <1> HIDE DEF signers
  <1>4. [[built EXCEPT !.signers = signers] EXCEPT !.signers = <<>>] = [built EXCEPT !.signers = <<>>]
    OBVIOUS
  <1> QED
    BY <1>1, <1>2, <1>3, <1>4 DEF CallFields

LEMMA ProposalPreviewed ==
    ASSUME ProposalInv, Proposed!PreviewAnswers
    PROVE  ProposalInv'
  <1> DEFINE ask == proposal.ask
             built == Proposed!Built(ask, proposal.decimals)
             network == Proposed!ServiceFor(ask)
  <1>1. PICK state \in {"HALT", "FAULT", "failed"}, exception \in BOOLEAN, value \in {"true", "false", "other"} :
           LET run == [state |-> state, exception |-> exception, value |-> value, network |-> network,
                       call |-> Proposed!Sent(ask, built)]
           IN  proposal' = [(IF state = "failed" THEN Proposed!End("error")
                             ELSE IF ask.tool = "n3_test_invoke" THEN Proposed!End("told")
                             ELSE IF Proposed!EndedWell(ask, run) THEN Proposed!Propose(built, Proposed!Network(ask))
                             ELSE Proposed!End("error")) EXCEPT !.run = run]
    BY Zenon DEF Proposed!PreviewAnswers
  <1> DEFINE run == [state |-> state, exception |-> exception, value |-> value, network |-> network,
                     call |-> Proposed!Sent(ask, built)]
  <1>2. proposal.pc = "previewing" /\ UNCHANGED enabled
    BY DEF Proposed!PreviewAnswers
  <1>3. /\ DOMAIN proposal = ProposalFields /\ Proposed!AskForm(ask) /\ ask.tool \in Proposed!N3Tools
        /\ ~Proposed!Refused(ask)
        /\ ask.tool = "n3_build_transfer" => proposal.decimals = DecimalsThere(ask, network)
    BY <1>2 DEF ProposalInv, AskedDecimals
  <1>4. /\ run.state = state /\ run.exception = exception /\ run.value = value /\ run.network = network
        /\ run.call = Proposed!Sent(ask, built)
    OBVIOUS
  <1> HIDE DEF ask, built, network, run
  <1>5. ASSUME NEW outcome \in {"error", "told"}, proposal' = [Proposed!End(outcome) EXCEPT !.run = run]
        PROVE  ProposalInv'
    <2>1. DOMAIN proposal' = ProposalFields /\ proposal'.pc = "done" /\ proposal'.ask = ask /\ proposal'.outcome = outcome
      BY <1>3, <1>5 DEF Proposed!End, ProposalFields, ask
    <2> QED
      BY <1>3, <2>1, NothingProposed
  <1>6. ASSUME ask.tool # "n3_test_invoke", Proposed!EndedWell(ask, run),
               proposal' = [Proposed!Propose(built, Proposed!Network(ask)) EXCEPT !.run = run]
        PROVE  ProposalInv'
    <2>1. /\ DOMAIN proposal' = ProposalFields /\ proposal'.pc = "done" /\ proposal'.ask = ask
          /\ proposal'.outcome = "proposed" /\ proposal'.run = run /\ proposal'.proposed = built
          /\ proposal'.network = Proposed!Network(ask)
      BY <1>3, <1>6 DEF Proposed!Propose, Proposed!End, ProposalFields, ask
    <2>2. ask' = ask
      BY <2>1 DEF ask
    <2>3. /\ DOMAIN built = CallFields
          /\ IF ask.signers # <<>> THEN built.signers = ask.signers
             ELSE \E i \in DOMAIN built.signers : built.signers[i].account = ask.from
          /\ built.operation \in {"vote", "register"} /\ ask.tool # "n3_build_invoke" =>
                \/ ask.tool = "n3_build_vote"
                \/ ask.tool = "n3_build_nns_operation" /\ ask.detail = "register"
          /\ ask.tool = "n3_build_transfer" => built.amount = Proposed!Scaled(ask.amount, proposal.decimals)
      BY <1>3, <1>6, BuiltTyped DEF built
    <2>4. /\ [run.call EXCEPT !.signers = <<>>] = [built EXCEPT !.signers = <<>>]
          /\ DOMAIN run.call.signers = DOMAIN built.signers
          /\ \A i \in DOMAIN built.signers : run.call.signers[i] = [built.signers[i] EXCEPT !.form = "hash"]
          /\ run.call.operation = built.operation
      BY <1>4, <1>6, <2>3, SentIsBuilt
    <2>5. /\ run.state = "HALT" /\ ~run.exception
          /\ (built.operation = "transfer" \/ (built.operation \in {"vote", "register"} /\ ask.tool # "n3_build_invoke"))
                => run.value = "true"
      BY <1>6, <2>3, <2>4 DEF Proposed!EndedWell, Proposed!NeedsTrue
    <2>6. run.network = Proposed!Network(ask) \/ Proposed!Mislabelled(ask)'
      BY <1>2, <1>4, <2>2 DEF Proposed!Network, Proposed!Mislabelled, Proposed!ServiceFor, network
    <2>7. ask.tool = "n3_build_transfer" => built.amount = Proposed!Scaled(ask.amount, Proposed!MeantDecimals(ask)')
      <3>1. Proposed!MeantDecimals(ask)' = DecimalsThere(ask, network)
        BY <1>4, <2>1 DEF Proposed!MeantDecimals, DecimalsThere, ask
      <3> QED
        BY <1>3, <2>3, <3>1
    <2>8. Proposed!N3Sound(proposal.ask)'
      BY <2>1, <2>3, <2>4, <2>5, <2>6, <2>7, <2>2 DEF Proposed!N3Sound
    <2> QED
      BY <1>3, <2>1, <2>8 DEF ProposalInv, AskedDecimals, Simulated, Proposed!ProposedWasPreviewed
  <1>7. \/ proposal' = [Proposed!End("error") EXCEPT !.run = run]
        \/ proposal' = [Proposed!End("told") EXCEPT !.run = run]
        \/ /\ ask.tool # "n3_test_invoke" /\ Proposed!EndedWell(ask, run)
           /\ proposal' = [Proposed!Propose(built, Proposed!Network(ask)) EXCEPT !.run = run]
    BY <1>1 DEF run
  <1> QED
    BY <1>5, <1>6, <1>7

LEMMA ProposalSimulated ==
    ASSUME ProposalInv, NEW rpc \in Proposed!Priced, Proposed!EvmAnswers(rpc)
    PROVE  ProposalInv'
  <1> DEFINE ask == proposal.ask
             object == Proposed!CallObject(ask)
             network == Proposed!Network(ask)
  <1>1. PICK ok \in BOOLEAN, gas \in 1 .. 2 :
           LET got == Proposed!With(proposal.got, rpc, [ok |-> ok, gas |-> gas, call |-> object, network |-> network])
           IN  proposal' = [(IF rpc = "eth_gasPrice" /\ ~ok THEN Proposed!End("error")
                             ELSE IF DOMAIN got # Proposed!Priced THEN proposal
                             ELSE IF ask.tool = "x_simulate_call" THEN Proposed!End("told")
                             ELSE IF got["eth_call"].ok /\ got["eth_estimateGas"].ok
                             THEN Proposed!Propose(Proposed!EvmTx(ask, got), network)
                             ELSE Proposed!End("error")) EXCEPT !.got = got]
    BY Zenon DEF Proposed!EvmAnswers
  <1> DEFINE said == [ok |-> ok, gas |-> gas, call |-> object, network |-> network]
             got == Proposed!With(proposal.got, rpc, said)
  <1>2. proposal.pc = "simulating" /\ UNCHANGED enabled
    BY DEF Proposed!EvmAnswers
  <1>3. /\ DOMAIN proposal = ProposalFields /\ Proposed!AskForm(ask) /\ ask.tool \in Proposed!XTools
        /\ proposal.outcome = "none" /\ DOMAIN proposal.got \subseteq Proposed!Priced
        /\ \A r \in DOMAIN proposal.got :
              /\ proposal.got[r].call = object /\ proposal.got[r].network = network
              /\ r = "eth_gasPrice" => proposal.got[r].ok
    BY <1>2 DEF ProposalInv, Simulated
  <1>4. said.ok = ok /\ said.call = object /\ said.network = network
    OBVIOUS
  <1> HIDE DEF said
  <1>5. /\ DOMAIN got = DOMAIN proposal.got \cup {rpc}
        /\ \A r \in DOMAIN got : got[r] = IF r = rpc THEN said ELSE proposal.got[r]
    BY DEF Proposed!With
  <1> HIDE DEF ask, object, network, got
  <1>6. DOMAIN got \subseteq Proposed!Priced
    BY <1>3, <1>5
  <1>7. /\ \A r \in DOMAIN got : got[r].call = object /\ got[r].network = network
        /\ (rpc = "eth_gasPrice" => ok) => \A r \in DOMAIN got : r = "eth_gasPrice" => got[r].ok
    BY <1>3, <1>4, <1>5
  <1>8. ASSUME NEW outcome \in {"error", "told"}, proposal' = [Proposed!End(outcome) EXCEPT !.got = got]
        PROVE  ProposalInv'
    <2>1. DOMAIN proposal' = ProposalFields /\ proposal'.pc = "done" /\ proposal'.ask = ask /\ proposal'.outcome = outcome
      BY <1>3, <1>8 DEF Proposed!End, ProposalFields, ask
    <2> QED
      BY <1>3, <2>1, NothingProposed
  <1>9. ASSUME rpc = "eth_gasPrice" => ok, proposal' = [proposal EXCEPT !.got = got]
        PROVE  ProposalInv'
    <2>1. /\ DOMAIN proposal' = ProposalFields /\ proposal'.pc = "simulating" /\ proposal'.ask = ask
          /\ proposal'.outcome = "none" /\ proposal'.got = got
      BY <1>2, <1>3, <1>9 DEF ProposalFields, ask
    <2>2. Simulated'
      BY <1>3, <1>6, <1>7, <1>9, <2>1 DEF Simulated, object, network
    <2> QED
      BY <1>3, <2>1, <2>2 DEF ProposalInv, AskedDecimals, Proposed!ProposedWasPreviewed
  <1>10. ASSUME rpc = "eth_gasPrice" => ok, DOMAIN got = Proposed!Priced, got["eth_call"].ok, got["eth_estimateGas"].ok,
                proposal' = [Proposed!Propose(Proposed!EvmTx(ask, got), network) EXCEPT !.got = got]
         PROVE  ProposalInv'
    <2> DEFINE what == Proposed!EvmTx(ask, got)
    <2>1. /\ DOMAIN proposal' = ProposalFields /\ proposal'.pc = "done" /\ proposal'.ask = ask
          /\ proposal'.outcome = "proposed" /\ proposal'.got = got /\ proposal'.proposed = what
          /\ proposal'.network = network
      BY <1>3, <1>10 DEF Proposed!Propose, Proposed!End, ProposalFields, ask
    <2>2. /\ what.gas = got["eth_estimateGas"].gas /\ what.gasPrice = got["eth_gasPrice"].gas
          /\ what.chainId = Proposed!ChainId(network)
          /\ \A key \in {"from", "to", "data", "value"} : object[key] = what[key]
      BY DEF Proposed!EvmTx, Proposed!CallObject, object, network
    <2> HIDE DEF what
    <2>3. \A r \in Proposed!Priced : got[r].ok /\ got[r].network = network
      <3>1. Proposed!Priced = {"eth_call", "eth_estimateGas", "eth_gasPrice"}
        BY DEF Proposed!Priced
      <3> QED
        BY <1>7, <1>10, <3>1
    <2>4. \A r \in {"eth_call", "eth_estimateGas"}, key \in {"from", "to", "data", "value"} : got[r].call[key] = what[key]
      BY <1>7, <1>10, <2>2 DEF Proposed!Priced
    <2>5. Proposed!XSound(proposal.ask)'
      BY <2>1, <2>2, <2>3, <2>4 DEF Proposed!XSound
    <2>6. ask.tool \notin Proposed!N3Tools
      BY <1>3 DEF Proposed!XTools, Proposed!N3Tools
    <2> QED
      BY <1>3, <2>1, <2>5, <2>6 DEF ProposalInv, AskedDecimals, Simulated, Proposed!ProposedWasPreviewed
  <1>11. \/ proposal' = [Proposed!End("error") EXCEPT !.got = got]
         \/ proposal' = [Proposed!End("told") EXCEPT !.got = got]
         \/ (rpc = "eth_gasPrice" => ok) /\ proposal' = [proposal EXCEPT !.got = got]
         \/ /\ rpc = "eth_gasPrice" => ok
            /\ DOMAIN got = Proposed!Priced /\ got["eth_call"].ok /\ got["eth_estimateGas"].ok
            /\ proposal' = [Proposed!Propose(Proposed!EvmTx(ask, got), network) EXCEPT !.got = got]
    BY <1>1 DEF got, said
  <1> QED
    BY <1>8, <1>9, <1>10, <1>11

LEMMA ProposalInductive ==
    ASSUME ProposalInv, [Proposed!Next]_(Proposed!vars)
    PROVE  ProposalInv'
  <1>1. CASE UNCHANGED Proposed!vars
    <2>1. UNCHANGED <<enabled, proposal>>
      BY <1>1 DEF Proposed!vars
    <2>2. AskedDecimals' = AskedDecimals /\ Simulated' = Simulated
      BY <2>1 DEF AskedDecimals, Simulated, Proposed!ServiceFor
    <2>3. Proposed!ProposedWasPreviewed' = Proposed!ProposedWasPreviewed
      BY <2>1 DEF Proposed!ProposedWasPreviewed, Proposed!N3Sound, Proposed!XSound, Proposed!Mislabelled,
                  Proposed!MeantDecimals
    <2> QED
      BY <2>1, <2>2, <2>3 DEF ProposalInv
  <1> QED
    BY <1>1, ProposalBegins, ProposalDecimals, ProposalPreviewed, ProposalSimulated DEF Proposed!Next

\* Nothing is proposed to a wallet but what a node has just run, in every part the same,
\* and which ended well.
THEOREM ProposalsArePreviewed == Proposed!Spec => []Proposed!ProposedWasPreviewed
  <1>1. ProposalInv /\ [Proposed!Next]_(Proposed!vars) => ProposalInv'
    BY ProposalInductive
  <1>2. ProposalInv => Proposed!ProposedWasPreviewed
    BY DEF ProposalInv
  <1> QED
    BY <1>1, <1>2, ProposalsInitially, PTL DEF Proposed!Spec

-----------------------------------------------------------------------------
(* Proposals: calldata.                                                    *)

\* The numerals of the part are those of the lemmas.
LEMMA ProposedNumerals ==
    /\ \A base, digits : Proposed!NumberOf(base, digits) = NumberOf(base, digits)
    /\ \A base, n : Proposed!Power(base, n) = Power(base, n)
    /\ \A n : Proposed!Zeros(n) = Zeros(n)
    /\ \A base, v, size : Proposed!DigitsOf(base, v, size) = DigitsOf(base, v, size)
    /\ \A pieces : Proposed!Joined(pieces) = Joined(pieces)
  <1>1. ASSUME NEW base, NEW start, NEW digits
        PROVE  Proposed!Behind(base, start, digits) = Behind(base, start, digits)
    <2>1. Proposed!Prefixes(base, start, digits) = Prefixes(base, start, digits)
      BY DEF Proposed!Prefixes, Prefixes
    <2> QED
      BY <2>1 DEF Proposed!Behind, Behind
  <1>2. ASSUME NEW base, NEW digits
        PROVE  Proposed!NumberOf(base, digits) = NumberOf(base, digits)
    BY <1>1 DEF Proposed!NumberOf, NumberOf
  <1>3. ASSUME NEW n
        PROVE  Proposed!Zeros(n) = Zeros(n)
    BY DEF Proposed!Zeros, Zeros
  <1>4. ASSUME NEW base, NEW n
        PROVE  Proposed!Power(base, n) = Power(base, n)
    BY <1>1, <1>3 DEF Proposed!Power, Power
  <1>5. ASSUME NEW base, NEW v, NEW size
        PROVE  Proposed!DigitsOf(base, v, size) = DigitsOf(base, v, size)
    BY <1>4 DEF Proposed!DigitsOf, DigitsOf
  <1>6. ASSUME NEW pieces
        PROVE  Proposed!Joined(pieces) = Joined(pieces)
    BY DEF Proposed!Joined, Joined
  <1> QED
    BY <1>2, <1>3, <1>4, <1>5, <1>6

AbiConstants ==
    /\ Base \in Nat \ {0} /\ Base > 1 /\ WordBytes \in Nat \ {0} /\ WordBytes >= 1
    /\ AddressBytes \in Nat /\ AddressBytes <= WordBytes /\ WordBytes - AddressBytes \in Nat
LEMMA AbiConstantsHold == AbiConstants
  BY PartsConstants DEF Proposed!ConstantsOK, Proposed!AbiConstantsOK, AbiConstants

LEMMA ModulusIs ==
    ASSUME AbiConstants
    PROVE  /\ \A size \in Nat : Proposed!Modulus(size) \in Nat \ {0}
           /\ \A size \in 1 .. WordBytes : Proposed!Modulus(size) <= Proposed!Modulus(WordBytes)
           /\ Proposed!Modulus(WordBytes) > 1
  <1>1. \A size : Proposed!Modulus(size) = Power(Base, size)
    BY ProposedNumerals DEF Proposed!Modulus
  <1>2. \A size \in Nat : Power(Base, size) \in Nat \ {0}
    BY PowerSteps DEF AbiConstants
  <1>3. \A size \in 1 .. WordBytes : Power(Base, size) <= Power(Base, WordBytes)
    BY PowerMonotone DEF AbiConstants
  <1>4. Power(Base, WordBytes) > WordBytes /\ Power(Base, WordBytes) \in Nat
    BY PowerGrows DEF AbiConstants
  <1> QED
    BY <1>1, <1>2, <1>3, <1>4 DEF AbiConstants

\* A word holds a number, a negative one as its complement.
LEMMA WordIs ==
    ASSUME AbiConstants, NEW v \in Int, -Proposed!Modulus(WordBytes) <= v, v < Proposed!Modulus(WordBytes)
    PROVE  LET word == Proposed!PadLeft(v) IN
           /\ word \in Seq(Nat) /\ Len(word) = WordBytes
           /\ Proposed!NumberOf(Base, word) = IF v < 0 THEN v + Proposed!Modulus(WordBytes) ELSE v
  <1> DEFINE m == Proposed!Modulus(WordBytes)
             u == IF v < 0 THEN v + m ELSE v
  <1>1. m \in Nat /\ m = Power(Base, WordBytes)
    BY ModulusIs, ProposedNumerals DEF AbiConstants, Proposed!Modulus
  <1>2. u \in Nat /\ u < m
    BY <1>1
  <1>3. Proposed!PadLeft(v) = DigitsOf(Base, u, WordBytes)
    BY ProposedNumerals DEF Proposed!PadLeft
  <1> HIDE DEF u, m
  <1>4. Base \in Nat \ {0} /\ WordBytes \in Nat
    BY DEF AbiConstants
  <1>5. DigitsOf(Base, u, WordBytes) \in Seq(Nat) /\ Len(DigitsOf(Base, u, WordBytes)) = WordBytes
    BY <1>2, <1>4, DigitsAre
  <1>6. NumberOf(Base, DigitsOf(Base, u, WordBytes)) = u
    BY <1>1, <1>2, <1>4, DigitsExact
  <1> QED
    BY <1>3, <1>5, <1>6, ProposedNumerals DEF u, m

\* What is accepted as a value of a type that is not dynamic.
StaticAccepted(type, value) ==
    /\ Proposed!ArgumentForm(type, value) /\ ~Proposed!IsDynamic(type)
    /\ IF Proposed!IsNumber(type) THEN type.size \in 1 .. WordBytes /\ Proposed!InRange(type, value)
       ELSE Proposed!SizeAccepted(type, value)

TypeNames == {"uint", "int", "bool", "address", "fixedBytes", "bytes", "string"}
LEMMA FormOfArguments ==
    ASSUME AbiConstants, NEW type, NEW value, Proposed!ArgumentForm(type, value)
    PROVE  /\ type.name \in TypeNames /\ type.size \in Nat
           /\ Proposed!IsNumber(type) <=> type.name \in {"uint", "int", "bool"}
           /\ Proposed!IsDynamic(type) <=> type.name \in {"bytes", "string"}
           /\ IF Proposed!IsNumber(type) THEN value \in Int ELSE value \in Seq(Nat)
  <1>1. type.name \in TypeNames /\ type.size \in Nat
    BY DEF Proposed!ArgumentForm, Proposed!AbiTypes, TypeNames
  <1>2. \A bytes \in Seq(Proposed!Bytes) : bytes \in Seq(Nat)
    BY DEF Proposed!Bytes, AbiConstants
  <1> QED
    BY <1>1, <1>2 DEF Proposed!ArgumentForm, Proposed!IsNumber, Proposed!IsDynamic

\* A number of a type that has bounds is one of the numbers of a word.
LEMMA NumberInWord ==
    ASSUME AbiConstants, NEW type, NEW value, StaticAccepted(type, value), Proposed!IsNumber(type)
    PROVE  /\ value \in Int /\ -Proposed!Modulus(WordBytes) <= value /\ value < Proposed!Modulus(WordBytes)
           /\ type.name = "bool" => value >= 0
           /\ type.name = "uint" => value >= 0 /\ value < Proposed!Modulus(type.size)
           /\ type.name = "int" => /\ -Proposed!Modulus(type.size) <= 2 * value
                                   /\ 2 * value < Proposed!Modulus(type.size)
                                   /\ value < Proposed!Modulus(WordBytes) \div 2
  <1> DEFINE m == Proposed!Modulus(type.size)
             n == Proposed!Modulus(WordBytes)
             h == m \div 2
             k == n \div 2
  <1>1. value \in Int /\ type.size \in 1 .. WordBytes /\ type.size \in Nat /\ Proposed!InRange(type, value)
        /\ type.name \in {"uint", "int", "bool"}
    BY FormOfArguments DEF StaticAccepted
  <1>2. m \in Nat \ {0} /\ n \in Nat \ {0} /\ m <= n /\ n > 1
    BY <1>1, ModulusIs DEF AbiConstants
  <1> HIDE DEF m, n
  <1>3. h \in Int /\ 2 * h <= m /\ h >= 0 /\ k \in Int /\ h <= k
    BY <1>2
  <1>4. CASE type.name = "uint"
    <2>1. value \in 0 .. m - 1
      BY <1>1, <1>4 DEF Proposed!InRange, m
    <2> QED
      BY <1>2, <1>4, <2>1 DEF m, n
  <1>5. CASE type.name = "int"
    <2>1. value \in -h .. h - 1
      BY <1>1, <1>5 DEF Proposed!InRange, m
    <2> HIDE DEF h, k
    <2>2. -m <= 2 * value /\ 2 * value < m /\ -n <= value /\ value < n /\ value < k
      BY <1>1, <1>2, <1>3, <2>1
    <2> QED
      BY <1>1, <1>5, <2>2 DEF m, n, k
  <1>6. CASE type.name = "bool"
    <2>1. value \in 0 .. 1
      BY <1>1, <1>6 DEF Proposed!InRange
    <2> QED
      BY <1>2, <1>6, <2>1 DEF n
  <1> QED
    BY <1>1, <1>4, <1>5, <1>6

\* Bytes with noughts up to a word.
LEMMA PaddedIs ==
    ASSUME AbiConstants, NEW bytes \in Seq(Nat)
    PROVE  \E z \in Seq(Nat) : /\ Proposed!PadRight(bytes) = Concat(bytes, z)
                               /\ Len(bytes) \in 1 .. WordBytes => Len(bytes) + Len(z) = WordBytes
  <1> DEFINE l == Len(bytes)
             r == l % WordBytes
  <1>1. l \in Nat /\ r \in 0 .. WordBytes - 1
    <2>1. l \in Nat
      OBVIOUS
    <2> QED
      BY <2>1, DivMod DEF AbiConstants
  <1>2. l \in 1 .. WordBytes => r = IF l = WordBytes THEN 0 ELSE l
    <2>1. ASSUME l = WordBytes
          PROVE  r = 0
      <3>1. WordBytes = WordBytes * 1 + 0 /\ 0 \in 0 .. WordBytes - 1 /\ WordBytes \in Int
        BY DEF AbiConstants
      <3>2. WordBytes % WordBytes = 0
        BY <3>1, DivUnique DEF AbiConstants
      <3> QED
        BY <2>1, <3>2
    <2>2. ASSUME l < WordBytes
          PROVE  r = l
      <3>1. l = WordBytes * 0 + l /\ l \in 0 .. WordBytes - 1 /\ l \in Int
        BY <1>1, <2>2 DEF AbiConstants
      <3> QED
        BY <3>1, DivUnique DEF AbiConstants
    <2> QED
      BY <1>1, <2>1, <2>2 DEF AbiConstants
  <1>3. Proposed!PadRight(bytes) = IF r = 0 THEN bytes ELSE Concat(bytes, Zeros(WordBytes - r))
    BY ProposedNumerals DEF Proposed!PadRight, Concat
  <1> HIDE DEF r
  <1>4. CASE r = 0
    <2>1. <<>> \in Seq(Nat) /\ Len(<<>>) = 0 /\ Concat(bytes, <<>>) = bytes
      BY ConcatTyped
    <2>2. l \in 1 .. WordBytes => l + Len(<<>>) = WordBytes
      BY <1>1, <1>2, <1>4, <2>1
    <2> QED
      BY <1>3, <1>4, <2>1, <2>2
  <1>5. CASE r # 0
    <2>1. WordBytes - r \in Nat
      BY <1>1 DEF AbiConstants
    <2> DEFINE z == Zeros(WordBytes - r)
    <2>2. z \in Seq(Nat) /\ Len(z) = WordBytes - r
      BY <2>1, ZerosAre
    <2> HIDE DEF z
    <2>3. l \in 1 .. WordBytes => l + Len(z) = WordBytes
      BY <1>1, <1>2, <1>5, <2>2 DEF AbiConstants
    <2> QED
      BY <1>3, <1>5, <2>2, <2>3 DEF z
  <1> QED
    BY <1>4, <1>5

\* The component of a type that is not dynamic is one word.
LEMMA StaticComponent ==
    ASSUME AbiConstants, NEW type, NEW value, StaticAccepted(type, value)
    PROVE  Proposed!Component(type, value) \in Seq(Nat) /\ Len(Proposed!Component(type, value)) = WordBytes
  <1> DEFINE component == Proposed!Component(type, value)
  <1>1. CASE Proposed!IsNumber(type)
    <2>1. component = Proposed!PadLeft(value)
      BY <1>1 DEF Proposed!Component
    <2> QED
      BY <1>1, <2>1, NumberInWord, WordIs
  <1>2. CASE type.name = "address"
    <2> DEFINE z == Zeros(WordBytes - AddressBytes)
    <2>1. ~Proposed!IsNumber(type) /\ ~Proposed!IsDynamic(type) /\ value \in Seq(Nat) /\ Len(value) = AddressBytes
      BY <1>2, FormOfArguments DEF StaticAccepted, Proposed!SizeAccepted
    <2>2. component = Concat(z, value)
      BY <1>2, <2>1, ProposedNumerals DEF Proposed!Component, Concat
    <2>3. z \in Seq(Nat) /\ Len(z) = WordBytes - AddressBytes
      BY ZerosAre DEF AbiConstants
    <2> HIDE DEF z, component
    <2>4. component \in Seq(Nat) /\ Len(component) = Len(z) + Len(value)
      BY <2>1, <2>2, <2>3, ConcatTyped
    <2>5. Len(component) = WordBytes
      BY <2>1, <2>3, <2>4 DEF AbiConstants
    <2> QED
      BY <2>4, <2>5 DEF component
  <1>3. CASE type.name = "fixedBytes"
    <2>1. ~Proposed!IsNumber(type) /\ ~Proposed!IsDynamic(type) /\ value \in Seq(Nat)
          /\ Len(value) = type.size /\ type.size \in 1 .. WordBytes
      BY <1>3, FormOfArguments DEF StaticAccepted, Proposed!SizeAccepted
    <2>2. component = Proposed!PadRight(value)
      BY <1>3, <2>1 DEF Proposed!Component
    <2>3. PICK z \in Seq(Nat) : Proposed!PadRight(value) = Concat(value, z) /\ Len(value) + Len(z) = WordBytes
      BY <2>1, PaddedIs
    <2>4. Concat(value, z) \in Seq(Nat) /\ Len(Concat(value, z)) = WordBytes
      BY <2>1, <2>3, ConcatTyped
    <2> QED
      BY <2>2, <2>3, <2>4
  <1> QED
    BY <1>1, <1>2, <1>3, FormOfArguments DEF StaticAccepted, TypeNames

\* It is read as the value it was made of.
LEMMA StaticDecoded ==
    ASSUME AbiConstants, NEW data, NEW types, NEW i, NEW value, StaticAccepted(types[i], value),
           Proposed!WordAt(data, WordBytes * (i - 1)) = Proposed!Component(types[i], value)
    PROVE  Proposed!Decoded(data, types, i) = value
  <1> DEFINE type == types[i]
             word == Proposed!WordAt(data, WordBytes * (i - 1))
             number == Proposed!NumberOf(Base, word)
             m == Proposed!Modulus(WordBytes)
             signed == IF number < m \div 2 THEN number ELSE number - m
             n == Proposed!Modulus(type.size)
  <1>1. /\ type.name = "bool" => Proposed!Decoded(data, types, i) = number
        /\ type.name = "uint" => Proposed!Decoded(data, types, i) = IF number < n THEN number ELSE m
        /\ type.name = "int" => Proposed!Decoded(data, types, i)
                                   = IF -n <= 2 * signed /\ 2 * signed < n THEN signed ELSE m
        /\ type.name = "address" => Proposed!Decoded(data, types, i)
                                       = SubSeq(word, WordBytes - AddressBytes + 1, WordBytes)
        /\ type.name = "fixedBytes" => Proposed!Decoded(data, types, i) = SubSeq(word, 1, type.size)
    <2>0. ~Proposed!IsDynamic(type)
      BY DEF StaticAccepted
    <2>1. ASSUME type.name = "bool"
          PROVE  Proposed!Decoded(data, types, i) = number
      BY <2>0, <2>1 DEF Proposed!Decoded, Proposed!Reverts
    <2>2. ASSUME type.name = "uint"
          PROVE  Proposed!Decoded(data, types, i) = IF number < n THEN number ELSE m
      BY <2>0, <2>2 DEF Proposed!Decoded, Proposed!Reverts
    <2>3. ASSUME type.name = "int"
          PROVE  Proposed!Decoded(data, types, i) = IF -n <= 2 * signed /\ 2 * signed < n THEN signed ELSE m
      BY <2>0, <2>3 DEF Proposed!Decoded, Proposed!Reverts
    <2>4. ASSUME type.name = "address"
          PROVE  Proposed!Decoded(data, types, i) = SubSeq(word, WordBytes - AddressBytes + 1, WordBytes)
      BY <2>0, <2>4 DEF Proposed!Decoded, Proposed!Reverts
    <2>5. ASSUME type.name = "fixedBytes"
          PROVE  Proposed!Decoded(data, types, i) = SubSeq(word, 1, type.size)
      BY <2>0, <2>5 DEF Proposed!Decoded, Proposed!Reverts
    <2> QED
      BY <2>1, <2>2, <2>3, <2>4, <2>5
  <1>2. word = Proposed!Component(type, value)
    OBVIOUS
  <1> DEFINE decoded == Proposed!Decoded(data, types, i)
  <1>3. StaticAccepted(type, value)
    OBVIOUS
  <1> HIDE DEF word, type, decoded
  <1>4. CASE Proposed!IsNumber(type)
    <2>1. word = Proposed!PadLeft(value)
      BY <1>2, <1>4 DEF Proposed!Component
    <2>2. /\ value \in Int /\ -m <= value /\ value < m
          /\ type.name = "bool" => value >= 0
          /\ type.name = "uint" => value >= 0 /\ value < n
          /\ type.name = "int" => -n <= 2 * value /\ 2 * value < n /\ value < m \div 2
      BY <1>3, <1>4, NumberInWord
    <2>3. number = IF value < 0 THEN value + m ELSE value
      BY <2>1, <2>2, WordIs
    <2>4. type.size \in 1 .. WordBytes /\ type.name \in {"uint", "int", "bool"}
      BY <1>3, <1>4, FormOfArguments DEF StaticAccepted
    <2>5. m \in Nat \ {0} /\ n \in Nat \ {0} /\ n <= m
      BY <2>4, ModulusIs DEF AbiConstants
    <2> HIDE DEF number, m, n
    <2>6. CASE type.name \in {"bool", "uint"}
      BY <1>1, <2>2, <2>3, <2>6 DEF decoded
    <2>7. CASE type.name = "int"
      <3> DEFINE h == m \div 2
      <3>1. h \in Int /\ 2 * h <= m /\ m < 2 * h + 2
        BY <2>5
      <3>2. signed = IF number < h THEN number ELSE number - m
        OBVIOUS
      <3> HIDE DEF h, signed
      <3>3. CASE value < 0
        <4>1. number = value + m /\ number \in Int
          BY <2>2, <2>3, <2>5, <3>3
        <4>2. 2 * number >= m
          BY <2>2, <2>5, <2>7, <4>1
        <4>3. ~(number < h)
          BY <2>5, <3>1, <4>1, <4>2
        <4>4. signed = value
          BY <2>2, <2>5, <3>2, <4>1, <4>3
        <4> QED
          BY <1>1, <2>2, <2>7, <4>4 DEF decoded, signed, h
      <3>4. CASE ~(value < 0)
        <4>1. number = value /\ value < h
          BY <2>2, <2>3, <2>7, <3>4 DEF h
        <4>4. signed = value
          BY <3>2, <4>1
        <4> QED
          BY <1>1, <2>2, <2>7, <4>4 DEF decoded, signed, h
      <3> QED
        BY <3>3, <3>4
    <2> QED
      BY <2>4, <2>6, <2>7 DEF decoded
  <1>5. CASE type.name = "address"
    <2> DEFINE z == Zeros(WordBytes - AddressBytes)
    <2>1. ~Proposed!IsNumber(type) /\ ~Proposed!IsDynamic(type) /\ value \in Seq(Nat) /\ Len(value) = AddressBytes
      BY <1>3, <1>5, FormOfArguments DEF StaticAccepted, Proposed!SizeAccepted
    <2>2. word = Concat(z, value)
      BY <1>2, <1>5, <2>1, ProposedNumerals DEF Proposed!Component, Concat
    <2>3. z \in Seq(Nat) /\ Len(z) = WordBytes - AddressBytes /\ <<>> \in Seq(Nat)
      BY ZerosAre DEF AbiConstants
    <2> HIDE DEF z
    <2>4. Concat(value, <<>>) = value
      BY <2>1, ConcatTyped
    <2>5. SubSeq(Concat(z, Concat(value, <<>>)), Len(z) + 1, Len(z) + Len(value)) = value
      BY <2>1, <2>3, MiddlePart
    <2>6. Len(z) + 1 = WordBytes - AddressBytes + 1 /\ Len(z) + Len(value) = WordBytes
      BY <2>1, <2>3 DEF AbiConstants
    <2> QED
      BY <1>1, <1>5, <2>2, <2>4, <2>5, <2>6 DEF decoded
  <1>6. CASE type.name = "fixedBytes"
    <2>1. ~Proposed!IsNumber(type) /\ ~Proposed!IsDynamic(type) /\ value \in Seq(Nat)
          /\ Len(value) = type.size /\ type.size \in 1 .. WordBytes
      BY <1>3, <1>6, FormOfArguments DEF StaticAccepted, Proposed!SizeAccepted
    <2>2. word = Proposed!PadRight(value)
      BY <1>2, <1>6, <2>1 DEF Proposed!Component
    <2>3. PICK z \in Seq(Nat) : Proposed!PadRight(value) = Concat(value, z)
      BY <2>1, PaddedIs
    <2>4. <<>> \in Seq(Nat) /\ Len(<<>>) = 0 /\ Concat(value, z) \in Seq(Nat)
      BY <2>1, ConcatTyped
    <2>5. Concat(<<>>, Concat(value, z)) = Concat(value, z)
      BY <2>4, ConcatTyped
    <2>6. SubSeq(Concat(<<>>, Concat(value, z)), Len(<<>>) + 1, Len(<<>>) + Len(value)) = value
      BY <2>1, <2>4, MiddlePart
    <2>7. Len(<<>>) + 1 = 1 /\ Len(<<>>) + Len(value) = type.size
      BY <2>1, <2>4
    <2> QED
      BY <1>1, <1>6, <2>2, <2>3, <2>5, <2>6, <2>7 DEF decoded
  <1> QED
    BY <1>3, <1>4, <1>5, <1>6, FormOfArguments DEF StaticAccepted, TypeNames, decoded

\* Arguments of a call: types and values of the same number, each value of its type.
ArgumentsTyped(types, values, n) ==
    /\ n \in Nat /\ types = [i \in 1 .. n |-> types[i]] /\ Len(types) = n
    /\ \A i \in 1 .. n : Proposed!ArgumentForm(types[i], values[i])
    /\ Proposed!ArgumentsAccepted(types, values)

LEMMA AcceptedByType ==
    ASSUME AbiConstants, NEW types, NEW values, NEW n, ArgumentsTyped(types, values, n), NEW i \in 1 .. n
    PROVE  IF Proposed!IsDynamic(types[i])
           THEN /\ Proposed!Fits(Len(values[i])) /\ Proposed!Fits(Proposed!Offset(types, values, i))
                /\ values[i] \in Seq(Nat) /\ ~Proposed!IsNumber(types[i])
           ELSE StaticAccepted(types[i], values[i])
  <1>1. DOMAIN types = 1 .. n /\ Proposed!ArgumentForm(types[i], values[i])
    BY DEF ArgumentsTyped
  <1>2. IF Proposed!IsNumber(types[i])
        THEN types[i].size \in 1 .. WordBytes /\ Proposed!InRange(types[i], values[i])
        ELSE IF Proposed!IsDynamic(types[i])
        THEN Proposed!Fits(Len(values[i])) /\ Proposed!Fits(Proposed!Offset(types, values, i))
        ELSE Proposed!SizeAccepted(types[i], values[i])
    BY <1>1 DEF ArgumentsTyped, Proposed!ArgumentsAccepted
  <1>3. Proposed!IsDynamic(types[i]) => ~Proposed!IsNumber(types[i]) /\ values[i] \in Seq(Nat)
    BY <1>1, FormOfArguments
  <1> QED
    BY <1>1, <1>2, <1>3 DEF StaticAccepted

\* The component of a dynamic type: its length in a word, and its content.
LEMMA DynamicComponent ==
    ASSUME AbiConstants, NEW type, NEW value \in Seq(Nat), Proposed!IsDynamic(type), ~Proposed!IsNumber(type),
           Proposed!Fits(Len(value))
    PROVE  /\ Proposed!Component(type, value) \in Seq(Nat)
           /\ \E word, z \in Seq(Nat) : /\ Proposed!Component(type, value) = Concat(word, Concat(value, z))
                                        /\ Len(word) = WordBytes /\ Proposed!NumberOf(Base, word) = Len(value)
  <1> DEFINE word == Proposed!PadLeft(Len(value))
  <1>1. Len(value) \in Nat /\ Len(value) < Proposed!Modulus(WordBytes) /\ Proposed!Modulus(WordBytes) \in Nat
    BY ModulusIs DEF Proposed!Fits, AbiConstants
  <1>2. word \in Seq(Nat) /\ Len(word) = WordBytes /\ Proposed!NumberOf(Base, word) = Len(value)
    <2> DEFINE l == Len(value)
    <2>1. l \in Int /\ ~(l < 0) /\ -Proposed!Modulus(WordBytes) <= l /\ l < Proposed!Modulus(WordBytes)
      BY <1>1
    <2> HIDE DEF l
    <2> QED
      BY <2>1, WordIs DEF l
  <1>3. PICK z \in Seq(Nat) : Proposed!PadRight(value) = Concat(value, z)
    BY PaddedIs
  <1>4. Proposed!Component(type, value) = Concat(word, Proposed!PadRight(value))
    BY DEF Proposed!Component, Concat
  <1> HIDE DEF word
  <1>5. Concat(value, z) \in Seq(Nat)
    BY ConcatTyped
  <1>6. Concat(word, Concat(value, z)) \in Seq(Nat)
    BY <1>2, <1>5, ConcatTyped
  <1> QED
    BY <1>2, <1>3, <1>4, <1>6

HeadPieces(types, values) ==
    [i \in DOMAIN types |-> IF Proposed!IsDynamic(types[i]) THEN Proposed!PadLeft(Proposed!Offset(types, values, i))
                            ELSE Proposed!Component(types[i], values[i])]
TailPieces(types, values) ==
    [i \in DOMAIN types |-> IF Proposed!IsDynamic(types[i]) THEN Proposed!Component(types[i], values[i]) ELSE <<>>]

\* Heads and tails as they are joined.
LEMMA PiecesTyped ==
    ASSUME AbiConstants, NEW types, NEW values, NEW n, ArgumentsTyped(types, values, n)
    PROVE  LET heads == HeadPieces(types, values)
               tails == TailPieces(types, values)
           IN  /\ heads \in Seq(Seq(Nat)) /\ Len(heads) = n /\ \A i \in 1 .. n : Len(heads[i]) = WordBytes
               /\ tails \in Seq(Seq(Nat)) /\ Len(tails) = n
               /\ \A i \in Nat : i <= n => Joined(tails)[i] \in Seq(Nat)
               /\ \A i \in 1 .. n : Proposed!Offset(types, values, i) = n * WordBytes + Len(Joined(tails)[i - 1])
               /\ \A i \in 1 .. n : Proposed!Offset(types, values, i) \in Nat
               /\ Proposed!EncodeAbiParameters(types, values) = Concat(Joined(heads)[n], Joined(tails)[n])
  <1> DEFINE heads == HeadPieces(types, values)
             tails == TailPieces(types, values)
  <1>1. n \in Nat /\ DOMAIN types = 1 .. n /\ Len(types) = n
    BY DEF ArgumentsTyped
  <1>2. ASSUME NEW i \in 1 .. n
        PROVE  tails[i] \in Seq(Nat)
    <2>1. CASE Proposed!IsDynamic(types[i])
      BY <1>1, <2>1, AcceptedByType, DynamicComponent DEF TailPieces
    <2>2. CASE ~Proposed!IsDynamic(types[i])
      <3>1. <<>> \in Seq(Nat)
        OBVIOUS
      <3> QED
        BY <1>1, <2>2, <3>1 DEF TailPieces
    <2> QED
      BY <2>1, <2>2
  <1>3. tails \in Seq(Seq(Nat)) /\ Len(tails) = n
    <2>1. tails \in [1 .. n -> Seq(Nat)]
      BY <1>1, <1>2 DEF TailPieces
    <2> HIDE DEF tails
    <2> QED
      BY <1>1, <2>1
  <1> HIDE DEF tails
  <1>4. \A i \in Nat : i <= n => Joined(tails)[i] \in Seq(Nat)
    BY <1>3, JoinedSteps
  <1>5. Proposed!TailUpTo(types, values) = Joined(tails)
    BY ProposedNumerals DEF Proposed!TailUpTo, TailPieces, tails
  <1>6. ASSUME NEW i \in 1 .. n
        PROVE  Proposed!Offset(types, values, i) = n * WordBytes + Len(Joined(tails)[i - 1])
               /\ Proposed!Offset(types, values, i) \in Nat
    <2>1. Proposed!Offset(types, values, i) = n * WordBytes + Len(Joined(tails)[i - 1])
      BY <1>1, <1>5 DEF Proposed!Offset
    <2>2. i - 1 \in Nat /\ i - 1 <= n
      BY <1>1
    <2>3. Joined(tails)[i - 1] \in Seq(Nat)
      BY <1>4, <2>2
    <2>4. Len(Joined(tails)[i - 1]) \in Nat
      BY <2>3
    <2>5. n * WordBytes \in Nat
      BY <1>1 DEF AbiConstants
    <2> QED
      BY <2>1, <2>4, <2>5
  <1>7. ASSUME NEW i \in 1 .. n
        PROVE  heads[i] \in Seq(Nat) /\ Len(heads[i]) = WordBytes
    <2>1. CASE Proposed!IsDynamic(types[i])
      <3> DEFINE offset == Proposed!Offset(types, values, i)
      <3>1. heads[i] = Proposed!PadLeft(offset)
        BY <1>1, <2>1 DEF HeadPieces
      <3>2. offset \in Nat /\ offset < Proposed!Modulus(WordBytes) /\ Proposed!Modulus(WordBytes) \in Nat
        BY <1>6, <2>1, AcceptedByType, ModulusIs DEF Proposed!Fits, AbiConstants
      <3> HIDE DEF offset, heads
      <3>3. offset \in Int /\ -Proposed!Modulus(WordBytes) <= offset
        BY <3>2
      <3> QED
        BY <3>1, <3>2, <3>3, WordIs
    <2>2. CASE ~Proposed!IsDynamic(types[i])
      <3>1. heads[i] = Proposed!Component(types[i], values[i]) /\ StaticAccepted(types[i], values[i])
        BY <1>1, <2>2, AcceptedByType DEF HeadPieces
      <3> HIDE DEF heads
      <3> QED
        BY <3>1, StaticComponent
    <2> QED
      BY <2>1, <2>2
  <1>8. heads \in Seq(Seq(Nat)) /\ Len(heads) = n
    <2>1. heads = [i \in 1 .. n |-> heads[i]]
      BY <1>1 DEF HeadPieces
    <2> HIDE DEF heads
    <2>2. heads \in [1 .. n -> Seq(Nat)]
      BY <1>7, <2>1
    <2> QED
      BY <1>1, <2>2
  <1> HIDE DEF heads
  <1>9. Proposed!HeadUpTo(types, values) = Joined(heads)
    BY ProposedNumerals DEF Proposed!HeadUpTo, HeadPieces, heads
  <1>10. Proposed!EncodeAbiParameters(types, values) = Concat(Joined(heads)[n], Joined(tails)[n])
    BY <1>1, <1>5, <1>9 DEF Proposed!EncodeAbiParameters, Concat
  <1> QED
    BY <1>3, <1>4, <1>6, <1>7, <1>8, <1>10 DEF heads, tails

\* Where the encoding has what belongs to an argument.
LEMMA HeadOfArgument ==
    ASSUME AbiConstants, NEW types, NEW values, NEW n, ArgumentsTyped(types, values, n), NEW i \in 1 .. n
    PROVE  Proposed!WordAt(Proposed!EncodeAbiParameters(types, values), WordBytes * (i - 1))
              = HeadPieces(types, values)[i]
  <1> DEFINE heads == HeadPieces(types, values)
             tail == Joined(TailPieces(types, values))[n]
             data == Proposed!EncodeAbiParameters(types, values)
             before == Joined(heads)[i - 1]
  <1>1. /\ heads \in Seq(Seq(Nat)) /\ Len(heads) = n /\ \A k \in 1 .. n : Len(heads[k]) = WordBytes
        /\ tail \in Seq(Nat) /\ data = Concat(Joined(heads)[n], tail)
    <2>1. n \in Nat /\ n <= n
      BY DEF ArgumentsTyped
    <2> QED
      BY <2>1, PiecesTyped
  <1>2. n \in Nat /\ i - 1 \in Nat /\ i - 1 <= n /\ WordBytes \in Nat
    BY DEF ArgumentsTyped, AbiConstants
  <1> HIDE DEF heads, tail, data
  <1>3. PICK rest \in Seq(Nat) : Joined(heads)[n] = Concat(before, Concat(heads[i], rest))
    BY <1>1, JoinedHolds
  <1>4. before \in Seq(Nat) /\ heads[i] \in Seq(Nat)
    BY <1>1, JoinedHolds
  <1>5. Len(before) = (i - 1) * WordBytes
    BY <1>1, <1>2, JoinedEven
  <1> DEFINE head == heads[i]
  <1>6. Len(head) = WordBytes
    BY <1>1
  <1> HIDE DEF before, head
  <1>7. data = Concat(before, Concat(head, Concat(rest, tail)))
    <2>1. head \in Seq(Nat) /\ Concat(head, rest) \in Seq(Nat)
      BY <1>4, ConcatTyped DEF head
    <2>2. /\ Concat(Concat(before, Concat(head, rest)), tail) = Concat(before, Concat(Concat(head, rest), tail))
          /\ Concat(Concat(head, rest), tail) = Concat(head, Concat(rest, tail))
      BY <1>1, <1>4, <2>1, ConcatRegroups
    <2> QED
      BY <1>1, <1>3, <2>2 DEF head
  <1>8. SubSeq(data, Len(before) + 1, Len(before) + Len(head)) = head
    <2>1. head \in Seq(Nat) /\ Concat(rest, tail) \in Seq(Nat)
      BY <1>1, <1>4, ConcatTyped DEF head
    <2> QED
      BY <1>4, <1>7, <2>1, MiddlePart
  <1>9. Len(before) + 1 = WordBytes * (i - 1) + 1 /\ Len(before) + Len(head) = WordBytes * (i - 1) + WordBytes
    BY <1>2, <1>5, <1>6
  <1> QED
    BY <1>8, <1>9 DEF Proposed!WordAt, data, head, heads

LEMMA TailOfArgument ==
    ASSUME AbiConstants, NEW types, NEW values, NEW n, ArgumentsTyped(types, values, n), NEW i \in 1 .. n,
           Proposed!IsDynamic(types[i])
    PROVE  \E a, rest \in Seq(Nat) :
              /\ Len(a) = Proposed!Offset(types, values, i)
              /\ Proposed!EncodeAbiParameters(types, values)
                    = Concat(a, Concat(Proposed!Component(types[i], values[i]), rest))
  <1> DEFINE heads == HeadPieces(types, values)
             tails == TailPieces(types, values)
             head == Joined(heads)[n]
             data == Proposed!EncodeAbiParameters(types, values)
             before == Joined(tails)[i - 1]
             piece == tails[i]
  <1>1. /\ heads \in Seq(Seq(Nat)) /\ Len(heads) = n /\ \A k \in 1 .. n : Len(heads[k]) = WordBytes
        /\ tails \in Seq(Seq(Nat)) /\ Len(tails) = n
        /\ Proposed!Offset(types, values, i) = n * WordBytes + Len(before)
        /\ data = Concat(head, Joined(tails)[n])
    BY PiecesTyped
  <1>2. n \in Nat /\ n <= n /\ WordBytes \in Nat
    BY DEF ArgumentsTyped, AbiConstants
  <1>3. piece = Proposed!Component(types[i], values[i])
    BY DEF ArgumentsTyped, TailPieces
  <1> HIDE DEF heads, tails, data
  <1>4. head \in Seq(Nat) /\ Len(head) = n * WordBytes
    BY <1>1, <1>2, JoinedSteps, JoinedEven
  <1> HIDE DEF head
  <1>5. /\ tails \in Seq(Seq(Nat)) /\ i \in 1 .. Len(tails) /\ Len(tails) = n
    BY <1>1
  <1>6. /\ Joined(tails)[i - 1] \in Seq(Nat) /\ tails[i] \in Seq(Nat)
        /\ \E rest \in Seq(Nat) : Joined(tails)[Len(tails)] = Concat(Joined(tails)[i - 1], Concat(tails[i], rest))
    BY <1>5, JoinedHolds
  <1>7. PICK rest \in Seq(Nat) : Joined(tails)[n] = Concat(before, Concat(piece, rest))
    BY <1>5, <1>6
  <1> HIDE DEF before, piece
  <1> DEFINE a == Concat(head, before)
  <1>8. before \in Seq(Nat) /\ piece \in Seq(Nat)
    BY <1>6 DEF before, piece
  <1>9. a \in Seq(Nat) /\ Len(a) = Proposed!Offset(types, values, i)
    BY ZenonT(60), <1>1, <1>4, <1>8, ConcatTyped
  <1>10. data = Concat(a, Concat(piece, rest))
    <2>1. Concat(piece, rest) \in Seq(Nat)
      BY <1>8, ConcatTyped
    <2>2. Concat(a, Concat(piece, rest)) = Concat(head, Concat(before, Concat(piece, rest)))
      BY <1>4, <1>8, <2>1, ConcatRegroups
    <2> QED
      BY <1>1, <1>7, <2>2
  <1> HIDE DEF a
  <1> QED
    BY <1>3, <1>9, <1>10 DEF data, piece

\* encodeAbiParameters() loses nothing: the contract reads every argument as it was given.
LEMMA EncodingDecodes ==
    ASSUME AbiConstants, NEW types, NEW values, NEW n, ArgumentsTyped(types, values, n), NEW i \in 1 .. n
    PROVE  Proposed!Decoded(Proposed!EncodeAbiParameters(types, values), types, i) = values[i]
  <1> DEFINE data == Proposed!EncodeAbiParameters(types, values)
             word == Proposed!WordAt(data, WordBytes * (i - 1))
             type == types[i]
             value == values[i]
             offset == Proposed!Offset(types, values, i)
  <1>1. word = IF Proposed!IsDynamic(type) THEN Proposed!PadLeft(offset) ELSE Proposed!Component(type, value)
    <2>1. word = HeadPieces(types, values)[i]
      BY HeadOfArgument
    <2> QED
      BY <2>1 DEF HeadPieces, ArgumentsTyped
  <1>2. CASE ~Proposed!IsDynamic(type)
    <2>1. StaticAccepted(types[i], values[i])
      BY <1>2, AcceptedByType
    <2>2. Proposed!WordAt(data, WordBytes * (i - 1)) = Proposed!Component(types[i], values[i])
      BY <1>1, <1>2
    <2> HIDE DEF data
    <2>3. Proposed!Decoded(data, types, i) = values[i]
      BY <2>1, <2>2, StaticDecoded
    <2> QED
      BY <2>3 DEF data
  <1>3. CASE Proposed!IsDynamic(type)
    <2>1. /\ value \in Seq(Nat) /\ ~Proposed!IsNumber(type) /\ Proposed!Fits(Len(value)) /\ Proposed!Fits(offset)
      BY <1>3, AcceptedByType
    <2>2. offset \in Nat /\ offset < Proposed!Modulus(WordBytes) /\ Proposed!Modulus(WordBytes) \in Nat
      BY <2>1, PiecesTyped, ModulusIs DEF Proposed!Fits, AbiConstants
    <2>3. PICK a, rest \in Seq(Nat) :
             Len(a) = offset /\ data = Concat(a, Concat(Proposed!Component(type, value), rest))
      BY <1>3, TailOfArgument
    <2>4. PICK size, z \in Seq(Nat) :
             /\ Proposed!Component(type, value) = Concat(size, Concat(value, z))
             /\ Len(size) = WordBytes /\ Proposed!NumberOf(Base, size) = Len(value)
      BY <1>3, <2>1, DynamicComponent
    <2>5. Proposed!Decoded(data, types, i)
             = LET number == Proposed!NumberOf(Base, word)
               IN  SubSeq(data, number + WordBytes + 1,
                          number + WordBytes + Proposed!NumberOf(Base, Proposed!WordAt(data, number)))
      <3>1. type.name \in {"bytes", "string"}
        BY <1>3 DEF Proposed!IsDynamic
      <3> HIDE DEF data
      <3> QED
        BY <1>3, <3>1 DEF Proposed!Decoded
    <2> HIDE DEF data, word, offset, value
    <2>6. Proposed!NumberOf(Base, word) = offset
      <3>1. offset \in Int /\ -Proposed!Modulus(WordBytes) <= offset /\ ~(offset < 0)
        BY <2>2
      <3> QED
        BY <1>1, <1>3, <2>2, <3>1, WordIs
    <2> DEFINE content == Concat(value, z)
               behind == Concat(z, rest)
    <2>7. content \in Seq(Nat) /\ behind \in Seq(Nat) /\ Concat(content, rest) \in Seq(Nat)
          /\ Concat(a, size) \in Seq(Nat) /\ Len(Concat(a, size)) = Len(a) + Len(size)
      <3>1. content \in Seq(Nat) /\ behind \in Seq(Nat)
        BY <2>1, ConcatTyped
      <3> HIDE DEF content, behind
      <3> QED
        BY <3>1, ConcatTyped
    <2>8. Concat(content, rest) = Concat(value, behind)
      BY <2>1, ConcatRegroups
    <2> HIDE DEF content, behind
    <2>9. data = Concat(a, Concat(size, Concat(content, rest)))
      <3>1. Concat(Concat(size, content), rest) = Concat(size, Concat(content, rest))
        BY <2>7, ConcatRegroups
      <3> QED
        BY <2>3, <2>4, <3>1 DEF content
    <2>10. data = Concat(Concat(a, size), Concat(value, behind))
      <3>1. Concat(value, behind) \in Seq(Nat)
        BY <2>7, <2>8
      <3>2. Concat(Concat(a, size), Concat(value, behind)) = Concat(a, Concat(size, Concat(value, behind)))
        BY <3>1, ConcatRegroups
      <3> QED
        BY <2>8, <2>9, <3>2
    <2>11. Proposed!WordAt(data, offset) = size
      <3>1. SubSeq(data, Len(a) + 1, Len(a) + Len(size)) = size
        BY <2>7, <2>9, MiddlePart
      <3> QED
        BY <2>3, <2>4, <3>1 DEF Proposed!WordAt
    <2>12. SubSeq(data, Len(Concat(a, size)) + 1, Len(Concat(a, size)) + Len(value)) = value
      BY <2>1, <2>7, <2>10, MiddlePart
    <2>13. Len(Concat(a, size)) = offset + WordBytes
      BY <2>3, <2>4, <2>7
    <2> QED
      BY <2>4, <2>5, <2>6, <2>11, <2>12, <2>13 DEF value, data
  <1> QED
    BY <1>2, <1>3

-----------------------------------------------------------------------------
(* Proposals: amounts and calldata.                                        *)

\* What is on its way was accepted: the arguments before anything is asked of a node, the
\* amount when the decimals were known.
Encodable ==
    /\ proposal.pc = "simulating" /\ proposal.ask.data = "function" =>
          Proposed!ArgumentsAccepted(Proposed!Types(proposal.ask), Proposed!Values(proposal.ask))
    /\ proposal.pc = "previewing" /\ proposal.ask.tool = "n3_build_transfer" =>
          Proposed!AmountAccepted(proposal.ask.amount, proposal.decimals)
EncodingInv == Encodable /\ Proposed!EncodedIsExact

\* The calldata of a call that names a function.
LEMMA CalldataExact ==
    ASSUME NEW ask, Proposed!AskForm(ask), ask.data = "function",
           Proposed!ArgumentsAccepted(Proposed!Types(ask), Proposed!Values(ask))
    PROVE  LET data == Proposed!Calldata(ask)
               types == Proposed!Types(ask)
           IN  /\ \A i \in DOMAIN types : Proposed!Decoded(data.rest, types, i) = Proposed!Values(ask)[i]
               /\ (\A i \in DOMAIN types : ~types[i].alias) => data.selector = Proposed!Meant("f", types)
  <1> DEFINE types == Proposed!Types(ask)
             values == Proposed!Values(ask)
             n == Len(ask.arguments)
  <1>1. /\ n \in Nat /\ DOMAIN ask.arguments = 1 .. n /\ ask.tool = "x_build_contract_call"
        /\ \A i \in 1 .. n : Proposed!ArgumentForm(ask.arguments[i][1], ask.arguments[i][2])
    BY DEF Proposed!AskForm
  <1>2. /\ types = [i \in 1 .. n |-> ask.arguments[i][1]]
        /\ values = [i \in 1 .. n |-> ask.arguments[i][2]]
    BY <1>1 DEF Proposed!Types, Proposed!Values
  <1>3. /\ DOMAIN types = 1 .. n
        /\ \A i \in 1 .. n : Proposed!ArgumentForm(types[i], values[i]) /\ types[i] \in Proposed!AbiTypes
    BY <1>1, <1>2 DEF Proposed!ArgumentForm
  <1>4. types = [i \in 1 .. n |-> types[i]]
    BY <1>2
  <1> HIDE DEF types, values, n
  <1>5. types \in Seq(Proposed!AbiTypes) /\ Len(types) = n
    <2>1. types \in [1 .. n -> Proposed!AbiTypes]
      BY <1>3, <1>4
    <2> QED
      BY <1>1, <1>3, <2>1
  <1>6. AbiConstants /\ ArgumentsTyped(types, values, n)
    BY <1>1, <1>3, <1>4, <1>5, AbiConstantsHold DEF ArgumentsTyped, types, values
  <1>7. /\ Proposed!Calldata(ask).selector = <<"f", types>>
        /\ Proposed!Calldata(ask).rest = Proposed!EncodeAbiParameters(types, values)
    BY <1>1 DEF Proposed!Calldata, Proposed!FunctionSelector, types, values
  <1>8. \A i \in 1 .. n : Proposed!Decoded(Proposed!Calldata(ask).rest, types, i) = values[i]
    BY <1>6, <1>7, EncodingDecodes
  <1>9. ASSUME \A i \in DOMAIN types : ~types[i].alias
        PROVE  Proposed!Meant("f", types) = <<"f", types>>
    <2>1. \A i \in 1 .. n : [types[i] EXCEPT !.alias = FALSE] = types[i]
      BY <1>3, <1>9 DEF Proposed!AbiTypes
    <2>2. [i \in 1 .. n |-> [types[i] EXCEPT !.alias = FALSE]] = [i \in 1 .. n |-> types[i]]
      BY <2>1
    <2> QED
      BY <1>3, <1>4, <2>2 DEF Proposed!Meant
  <1> QED
    BY <1>3, <1>7, <1>8, <1>9 DEF types, values

\* An accepted amount is scaled to the last digit.
LEMMA AcceptedExact ==
    ASSUME NEW ask, Proposed!AskForm(ask), NEW places, Proposed!AmountAccepted(ask.amount, places)
    PROVE  Proposed!Scaled(ask.amount, places) * Proposed!Power(10, Len(ask.amount.fraction))
              = Proposed!NumberOf(10, ask.amount.whole \o ask.amount.fraction) * Proposed!Power(10, places)
  <1> DEFINE whole == ask.amount.whole
             fraction == ask.amount.fraction
  <1>1. places \in Nat /\ Len(fraction) <= places
    BY PartsConstants DEF Proposed!AmountAccepted, Proposed!ConstantsOK
  <1>2. whole \in Seq(Nat) /\ fraction \in Seq(Nat)
    <2>1. \A s \in Seq(0 .. 9) : s \in Seq(Nat)
      OBVIOUS
    <2> QED
      BY <2>1 DEF Proposed!AskForm
  <1>3. Proposed!Scaled(ask.amount, places)
           = NumberOf(10, whole \o fraction) * Power(10, places - Len(fraction))
    BY ProposedNumerals DEF Proposed!Scaled
  <1> HIDE DEF whole, fraction
  <1>4. NumberOf(10, whole \o fraction) * Power(10, places)
           = (NumberOf(10, whole \o fraction) * Power(10, places - Len(fraction))) * Power(10, Len(fraction))
    BY <1>1, <1>2, ScaledDecimal
  <1> QED
    BY <1>3, <1>4, ProposedNumerals DEF whole, fraction

LEMMA EncodingInitially == Proposed!Init => EncodingInv
  BY DEF Proposed!Init, Proposed!Idle, EncodingInv, Encodable, Proposed!EncodedIsExact

LEMMA EncodingBegins ==
    ASSUME NEW ask \in ProposalAsks, Proposed!Begin(ask)
    PROVE  EncodingInv'
  <1> DEFINE asks == ask.tool = "n3_build_transfer" /\ Proposed!KnownDecimals(ask) = NoDecimals
             refused == Proposed!Refused(ask)
                        \/ (~asks /\ Proposed!Unbuildable(ask, Proposed!KnownDecimals(ask)))
             pc == IF refused THEN "done" ELSE IF ask.tool \in Proposed!XTools THEN "simulating"
                   ELSE IF asks THEN "decimals" ELSE "previewing"
             outcome == IF refused THEN "error" ELSE "none"
  <1>1. proposal' = [Proposed!Idle EXCEPT !.ask = ask, !.pc = pc, !.decimals = Proposed!KnownDecimals(ask),
                                          !.outcome = outcome]
    BY DEF Proposed!Begin
  <1>2. /\ pc \in {"simulating", "previewing"} => ~Proposed!Refused(ask)
        /\ pc = "previewing" => ~Proposed!Unbuildable(ask, Proposed!KnownDecimals(ask))
        /\ outcome # "proposed"
    OBVIOUS
  <1> HIDE DEF pc, outcome
  <1>3. /\ proposal'.ask = ask /\ proposal'.pc = pc /\ proposal'.outcome = outcome
        /\ proposal'.decimals = Proposed!KnownDecimals(ask)
    BY <1>1 DEF Proposed!Idle
  <1>4. pc = "simulating" /\ ask.data = "function" =>
           Proposed!ArgumentsAccepted(Proposed!Types(ask), Proposed!Values(ask))
    BY <1>2 DEF Proposed!Refused
  <1>5. pc = "previewing" /\ ask.tool = "n3_build_transfer" =>
           Proposed!AmountAccepted(ask.amount, Proposed!KnownDecimals(ask))
    BY <1>2 DEF Proposed!Unbuildable
  <1> QED
    BY <1>2, <1>3, <1>4, <1>5 DEF EncodingInv, Encodable, Proposed!EncodedIsExact

LEMMA EncodingDecimals ==
    ASSUME ProposalInv, Proposed!DecimalsAnswer
    PROVE  EncodingInv'
  <1> DEFINE ask == proposal.ask
  <1>1. PICK decimals \in {DecimalsOn[Proposed!ServiceFor(ask)], NoDecimals} :
           proposal' = IF decimals # NoDecimals /\ ~Proposed!Unbuildable(ask, decimals)
                       THEN [proposal EXCEPT !.pc = "previewing", !.decimals = decimals]
                       ELSE Proposed!End("error")
    BY DEF Proposed!DecimalsAnswer
  <1>2. DOMAIN proposal = ProposalFields /\ proposal.outcome = "none"
    BY DEF ProposalInv, Proposed!DecimalsAnswer
  <1>3. CASE proposal' = [proposal EXCEPT !.pc = "previewing", !.decimals = decimals]
             /\ ~Proposed!Unbuildable(ask, decimals)
    <2>1. /\ proposal'.pc = "previewing" /\ proposal'.ask = ask /\ proposal'.decimals = decimals
          /\ proposal'.outcome = "none"
      BY <1>2, <1>3 DEF ProposalFields
    <2>2. ask.tool = "n3_build_transfer" => Proposed!AmountAccepted(ask.amount, decimals)
      BY <1>3 DEF Proposed!Unbuildable
    <2> QED
      BY <2>1, <2>2 DEF EncodingInv, Encodable, Proposed!EncodedIsExact
  <1>4. CASE proposal' = Proposed!End("error")
    <2>1. proposal'.pc = "done" /\ proposal'.outcome = "error"
      BY <1>2, <1>4 DEF Proposed!End, ProposalFields
    <2> QED
      BY <2>1 DEF EncodingInv, Encodable, Proposed!EncodedIsExact
  <1> QED
    BY <1>1, <1>3, <1>4

LEMMA EncodingPreviewed ==
    ASSUME ProposalInv, EncodingInv, Proposed!PreviewAnswers
    PROVE  EncodingInv'
  <1> DEFINE ask == proposal.ask
             built == Proposed!Built(ask, proposal.decimals)
             network == Proposed!ServiceFor(ask)
  <1>1. PICK state \in {"HALT", "FAULT", "failed"}, exception \in BOOLEAN, value \in {"true", "false", "other"} :
           LET run == [state |-> state, exception |-> exception, value |-> value, network |-> network,
                       call |-> Proposed!Sent(ask, built)]
           IN  proposal' = [(IF state = "failed" THEN Proposed!End("error")
                             ELSE IF ask.tool = "n3_test_invoke" THEN Proposed!End("told")
                             ELSE IF Proposed!EndedWell(ask, run) THEN Proposed!Propose(built, Proposed!Network(ask))
                             ELSE Proposed!End("error")) EXCEPT !.run = run]
    BY Zenon DEF Proposed!PreviewAnswers
  <1> DEFINE run == [state |-> state, exception |-> exception, value |-> value, network |-> network,
                     call |-> Proposed!Sent(ask, built)]
  <1>2. proposal.pc = "previewing"
    BY DEF Proposed!PreviewAnswers
  <1>3. /\ DOMAIN proposal = ProposalFields /\ Proposed!AskForm(ask) /\ ask.tool \in Proposed!N3Tools
        /\ ask.tool = "n3_build_transfer" =>
              /\ proposal.decimals = DecimalsThere(ask, network)
              /\ Proposed!AmountAccepted(ask.amount, proposal.decimals)
              /\ built.amount = Proposed!Scaled(ask.amount, proposal.decimals)
    <2>1. /\ DOMAIN proposal = ProposalFields /\ Proposed!AskForm(ask) /\ ask.tool \in Proposed!N3Tools
          /\ ~Proposed!Refused(ask)
          /\ ask.tool = "n3_build_transfer" => proposal.decimals = DecimalsThere(ask, network)
      BY <1>2 DEF ProposalInv, AskedDecimals
    <2>2. ask.tool = "n3_build_transfer" => Proposed!AmountAccepted(ask.amount, proposal.decimals)
      BY <1>2 DEF EncodingInv, Encodable
    <2>3. ask.tool = "n3_build_transfer" => built.amount = Proposed!Scaled(ask.amount, proposal.decimals)
      BY <2>1, BuiltTyped
    <2> QED
      BY <2>1, <2>2, <2>3
  <1>4. run.network = network
    OBVIOUS
  <1>5. \/ \E outcome \in {"error", "told"} : proposal' = [Proposed!End(outcome) EXCEPT !.run = run]
        \/ proposal' = [Proposed!Propose(built, Proposed!Network(ask)) EXCEPT !.run = run]
    BY <1>1
  <1> HIDE DEF ask, built, network, run
  <1>6. ASSUME NEW outcome \in {"error", "told"}, proposal' = [Proposed!End(outcome) EXCEPT !.run = run]
        PROVE  EncodingInv'
    <2>1. proposal'.pc = "done" /\ proposal'.outcome = outcome
      BY <1>3, <1>6 DEF Proposed!End, ProposalFields
    <2> QED
      BY <2>1 DEF EncodingInv, Encodable, Proposed!EncodedIsExact
  <1>7. ASSUME proposal' = [Proposed!Propose(built, Proposed!Network(ask)) EXCEPT !.run = run]
        PROVE  EncodingInv'
    <2>1. /\ proposal'.pc = "done" /\ proposal'.ask = ask /\ proposal'.outcome = "proposed"
          /\ proposal'.run = run /\ proposal'.proposed = built
      BY <1>3, <1>7 DEF Proposed!Propose, Proposed!End, ProposalFields, ask
    <2>2. ask' = ask
      BY <2>1 DEF ask
    <2>3. Proposed!MeantDecimals(ask)' = DecimalsThere(ask, network)
      BY <1>4, <2>1 DEF Proposed!MeantDecimals, DecimalsThere, ask
    <2>4. ask.tool = "n3_build_transfer" =>
             built.amount * Proposed!Power(10, Len(ask.amount.fraction))
                = Proposed!NumberOf(10, ask.amount.whole \o ask.amount.fraction)
                     * Proposed!Power(10, Proposed!MeantDecimals(ask)')
      BY <1>3, <2>3, AcceptedExact
    <2>5. ask.data # "function"
      BY <1>3 DEF Proposed!AskForm, Proposed!N3Tools
    <2>6. Proposed!EncodedIsExact'
      BY <2>1, <2>2, <2>4, <2>5 DEF Proposed!EncodedIsExact
    <2> QED
      BY <2>1, <2>6 DEF EncodingInv, Encodable
  <1> QED
    BY <1>5, <1>6, <1>7

LEMMA EncodingSimulated ==
    ASSUME ProposalInv, EncodingInv, NEW rpc \in Proposed!Priced, Proposed!EvmAnswers(rpc)
    PROVE  EncodingInv'
  <1> DEFINE ask == proposal.ask
             network == Proposed!Network(ask)
  <1>1. PICK ok \in BOOLEAN, gas \in 1 .. 2 :
           LET got == Proposed!With(proposal.got, rpc, [ok |-> ok, gas |-> gas, call |-> Proposed!CallObject(ask),
                                                        network |-> network])
           IN  proposal' = [(IF rpc = "eth_gasPrice" /\ ~ok THEN Proposed!End("error")
                             ELSE IF DOMAIN got # Proposed!Priced THEN proposal
                             ELSE IF ask.tool = "x_simulate_call" THEN Proposed!End("told")
                             ELSE IF got["eth_call"].ok /\ got["eth_estimateGas"].ok
                             THEN Proposed!Propose(Proposed!EvmTx(ask, got), network)
                             ELSE Proposed!End("error")) EXCEPT !.got = got]
    BY Zenon DEF Proposed!EvmAnswers
  <1> DEFINE got == Proposed!With(proposal.got, rpc, [ok |-> ok, gas |-> gas, call |-> Proposed!CallObject(ask),
                                                      network |-> network])
             what == Proposed!EvmTx(ask, got)
  <1>2. proposal.pc = "simulating"
    BY DEF Proposed!EvmAnswers
  <1>3. /\ DOMAIN proposal = ProposalFields /\ Proposed!AskForm(ask) /\ ask.tool \in Proposed!XTools
        /\ proposal.outcome = "none"
        /\ ask.data = "function" => Proposed!ArgumentsAccepted(Proposed!Types(ask), Proposed!Values(ask))
    BY <1>2 DEF ProposalInv, Simulated, EncodingInv, Encodable
  <1>4. what.data = Proposed!Calldata(ask)
    BY DEF Proposed!EvmTx
  <1>5. \/ \E outcome \in {"error", "told"} : proposal' = [Proposed!End(outcome) EXCEPT !.got = got]
        \/ proposal' = [proposal EXCEPT !.got = got]
        \/ proposal' = [Proposed!Propose(what, network) EXCEPT !.got = got]
    BY <1>1
  <1> HIDE DEF ask, network, got, what
  <1>6. ASSUME NEW outcome \in {"error", "told"}, proposal' = [Proposed!End(outcome) EXCEPT !.got = got]
        PROVE  EncodingInv'
    <2>1. proposal'.pc = "done" /\ proposal'.outcome = outcome
      BY <1>3, <1>6 DEF Proposed!End, ProposalFields
    <2> QED
      BY <2>1 DEF EncodingInv, Encodable, Proposed!EncodedIsExact
  <1>7. ASSUME proposal' = [proposal EXCEPT !.got = got]
        PROVE  EncodingInv'
    <2>1. proposal'.pc = "simulating" /\ proposal'.ask = ask /\ proposal'.outcome = "none"
      BY <1>2, <1>3, <1>7 DEF ProposalFields, ask
    <2> QED
      BY <1>3, <2>1 DEF EncodingInv, Encodable, Proposed!EncodedIsExact
  <1>8. ASSUME proposal' = [Proposed!Propose(what, network) EXCEPT !.got = got]
        PROVE  EncodingInv'
    <2>1. /\ proposal'.pc = "done" /\ proposal'.ask = ask /\ proposal'.outcome = "proposed"
          /\ proposal'.proposed = what
      BY <1>3, <1>8 DEF Proposed!Propose, Proposed!End, ProposalFields, ask
    <2>2. ask.tool # "n3_build_transfer"
      BY <1>3 DEF Proposed!XTools
    <2>3. ask.data = "function" =>
             LET types == Proposed!Types(ask)
             IN  /\ \A i \in DOMAIN types : Proposed!Decoded(what.data.rest, types, i) = Proposed!Values(ask)[i]
                 /\ (\A i \in DOMAIN types : ~types[i].alias) => what.data.selector = Proposed!Meant("f", types)
      BY <1>3, <1>4, CalldataExact
    <2>4. Proposed!EncodedIsExact'
      BY <2>1, <2>2, <2>3 DEF Proposed!EncodedIsExact
    <2> QED
      BY <2>1, <2>4 DEF EncodingInv, Encodable
  <1> QED
    BY <1>5, <1>6, <1>7, <1>8

LEMMA EncodingInductive ==
    ASSUME ProposalInv, EncodingInv, [Proposed!Next]_(Proposed!vars)
    PROVE  EncodingInv'
  <1>1. CASE UNCHANGED Proposed!vars
    <2>1. UNCHANGED proposal
      BY <1>1 DEF Proposed!vars
    <2>2. Proposed!EncodedIsExact' = Proposed!EncodedIsExact
      BY <2>1 DEF Proposed!EncodedIsExact, Proposed!MeantDecimals
    <2> QED
      BY <2>1, <2>2 DEF EncodingInv, Encodable
  <1> QED
    BY <1>1, EncodingBegins, EncodingDecimals, EncodingPreviewed, EncodingSimulated DEF Proposed!Next

\* What is proposed to a wallet says what was asked for: the amount of a transfer to the
\* last digit, and calldata that the contract decodes to the arguments, whatever their
\* types and number.
THEOREM EncodedExact == Proposed!Spec => []Proposed!EncodedIsExact
  <1>1. ProposalInv /\ EncodingInv /\ [Proposed!Next]_(Proposed!vars) => ProposalInv' /\ EncodingInv'
    BY ProposalInductive, EncodingInductive
  <1>2. Proposed!Init => ProposalInv /\ EncodingInv
    BY ProposalsInitially, EncodingInitially
  <1>3. EncodingInv => Proposed!EncodedIsExact
    BY DEF EncodingInv
  <1> QED
    BY <1>1, <1>2, <1>3, PTL DEF Proposed!Spec

-----------------------------------------------------------------------------
(* EvmRpcClient: the walk over the endpoints.                              *)

\* resolveRpcUrls() returns a list without blanks in which no endpoint comes twice.
LEMMA ResolvedListed ==
    ASSUME evmConfig \in Evm!RpcConfigs
    PROVE  LET list == Evm!Resolved
           IN  /\ Len(list) \in Nat /\ DOMAIN list = 1 .. Len(list)
               /\ \A m, n \in 1 .. Len(list) : list[m] = list[n] => m = n
               /\ \A n \in 1 .. Len(list) : list[n] # Blank
               /\ list # <<>> => Len(list) \in Nat \ {0}
  <1> DEFINE list == evmConfig.urls
             kept == {i \in DOMAIN list : list[i] # Blank /\ \A j \in 1 .. i - 1 : list[j] # list[i]}
             urls == KeptInOrder(list, kept)
  <1>1. list \in Seq({list[i] : i \in DOMAIN list})
    BY PartsConstants DEF Evm!ConstantsOK, Evm!RpcConfigs
  <1>2. Len(list) \in Nat /\ DOMAIN list = 1 .. Len(list)
    BY <1>1
  <1>3. kept \in SUBSET (1 .. Len(list)) /\ \A i \in kept : list[i] # Blank
    BY <1>2
  <1>4. ASSUME NEW i \in kept, NEW k \in kept, list[i] = list[k]
        PROVE  i = k
    <2>1. i \in Nat \ {0} /\ k \in Nat \ {0}
      BY <1>2
    <2>2. ~(i < k) /\ ~(k < i)
      BY <1>4, <2>1
    <2> QED
      BY <2>1, <2>2
  <1>5. Evm!Resolved = urls
    BY Zenon DEF Evm!Resolved, Evm!RpcUrls, KeptInOrder, Evm!Cardinality, Cardinality
  <1> HIDE DEF list, kept
  <1>6. /\ Len(urls) \in Nat /\ DOMAIN urls = 1 .. Len(urls)
        /\ \A m, n \in 1 .. Len(urls) : urls[m] = urls[n] => m = n
        /\ \A n \in 1 .. Len(urls) : \E i \in kept : urls[n] = list[i]
        /\ urls # <<>> => Len(urls) \in Nat \ {0}
    <2>1. \A i \in kept : list[i] \in {list[k] : k \in kept}
      OBVIOUS
    <2> QED
      BY <1>2, <1>3, <1>4, <2>1, KeptListed
  <1> HIDE DEF urls
  <1> QED
    BY <1>3, <1>5, <1>6

Reply == [kind : Evm!Definitive \cup Evm!Silent \cup {"cancelled"}, signal : {"open", "aborted"}]
GaveWay(reply) == reply.kind \in Evm!Silent /\ reply.signal = "open"

\* What is walked is the list of the configuration, and only after everything was found
\* in order.
Walked ==
    /\ evmConfig \in Evm!RpcConfigs /\ evmSignal \in {"open", "aborted"}
    /\ evmUrls = <<>> \/ (evmUrls = Evm!Resolved /\ Evm!Accepted)
    /\ evmUrls = <<>> => evmAsked = 0 /\ evmReplies = <<>> /\ evmOutcome \in {"none", "invalid"}

\* As many were asked as have answered, and one more while the walk goes on; all but the
\* last gave way to the next.
Counted ==
    /\ evmReplies \in Seq(Reply) /\ evmAsked \in Nat
    /\ evmAsked = IF evmUrls # <<>> /\ evmOutcome = "none" THEN Len(evmReplies) + 1 ELSE Len(evmReplies)
    /\ evmAsked <= Len(evmUrls)
    /\ \A i \in 1 .. Len(evmReplies) : i < evmAsked => GaveWay(evmReplies[i])

\* The outcome is what the last one asked made of it.
Concluded ==
    /\ evmOutcome \in {"none", "invalid", "noAnswer"} \cup Evm!Definitive
    /\ evmOutcome \in Evm!Definitive => evmReplies[Len(evmReplies)].kind = evmOutcome
    /\ evmOutcome = "noAnswer" =>
          evmSignal = "aborted"
          \/ (Len(evmReplies) = Len(evmUrls) /\ evmReplies[Len(evmReplies)].kind \in Evm!Silent)

EvmInv == Walked /\ Counted /\ Concluded

LEMMA EvmInitially == Evm!Init => EvmInv
  BY DEF Evm!Init, EvmInv, Walked, Counted, Concluded, Evm!Definitive

LEMMA EvmCallStep ==
    ASSUME EvmInv, Evm!Call
    PROVE  EvmInv'
  <1>1. /\ evmOutcome = "none" /\ evmUrls = <<>> /\ evmAsked = 0 /\ evmReplies = <<>>
        /\ UNCHANGED <<evmRequest, evmConfig, evmSignal, evmReplies>>
        /\ evmConfig \in Evm!RpcConfigs /\ evmSignal \in {"open", "aborted"}
    BY DEF EvmInv, Walked, Evm!Call, Evm!Called
  <1>2. Evm!Resolved' = Evm!Resolved /\ Evm!Accepted' = Evm!Accepted
    BY <1>1 DEF Evm!Resolved, Evm!Accepted
  <1>3. CASE ~Evm!Accepted /\ evmOutcome' = "invalid" /\ UNCHANGED <<evmUrls, evmAsked>>
    BY <1>1, <1>3 DEF EvmInv, Walked, Counted, Concluded, Evm!Definitive
  <1>4. CASE /\ Evm!Accepted /\ evmUrls' = Evm!Resolved
             /\ IF evmSignal = "open" THEN evmAsked' = 1 /\ UNCHANGED evmOutcome
                ELSE evmOutcome' = "noAnswer" /\ UNCHANGED evmAsked
    <2>1. Evm!Resolved # <<>> /\ Len(Evm!Resolved) \in Nat \ {0}
      BY <1>1, <1>4, ResolvedListed DEF Evm!Accepted
    <2>2. Walked'
      BY <1>1, <1>2, <1>4, <2>1 DEF Walked
    <2> HIDE DEF Evm!Resolved
    <2>3. Counted'
      BY <1>1, <1>4, <2>1 DEF Counted
    <2>4. Concluded'
      BY <1>1, <1>4 DEF Concluded, Evm!Definitive
    <2> QED
      BY <2>2, <2>3, <2>4 DEF EvmInv
  <1> QED
    BY <1>3, <1>4 DEF Evm!Call

LEMMA EvmRepliedStep ==
    ASSUME EvmInv, NEW reply \in Evm!Definitive \cup Evm!Silent \cup {"cancelled"}, Evm!Replied(reply)
    PROVE  EvmInv'
  <1> DEFINE entry == [kind |-> reply, signal |-> evmSignal]
  <1>1. /\ evmOutcome = "none" /\ evmUrls # <<>> /\ (reply = "cancelled" => evmSignal = "aborted")
        /\ evmReplies' = Append(evmReplies, entry)
        /\ UNCHANGED <<evmRequest, evmConfig, evmSignal, evmUrls>>
        /\ IF Evm!Retried(reply) THEN evmAsked' = evmAsked + 1 /\ UNCHANGED evmOutcome
           ELSE /\ evmOutcome' = IF reply \in Evm!Definitive THEN reply ELSE "noAnswer"
                /\ UNCHANGED evmAsked
    BY DEF Evm!Replied, Evm!Asking
  <1>2. /\ evmConfig \in Evm!RpcConfigs /\ evmSignal \in {"open", "aborted"} /\ evmUrls = Evm!Resolved /\ Evm!Accepted
        /\ evmReplies \in Seq(Reply) /\ Len(evmReplies) \in Nat /\ evmAsked = Len(evmReplies) + 1
        /\ evmAsked <= Len(evmUrls) /\ \A i \in 1 .. Len(evmReplies) : GaveWay(evmReplies[i])
    BY <1>1 DEF EvmInv, Walked, Counted
  <1>3. Len(evmUrls) \in Nat
    BY <1>2, ResolvedListed
  <1>4. Walked'
    <2>1. Evm!Resolved' = Evm!Resolved /\ Evm!Accepted' = Evm!Accepted
      BY <1>1 DEF Evm!Resolved, Evm!Accepted
    <2> QED
      BY <1>1, <1>2, <2>1 DEF Walked
  <1>5. entry \in Reply /\ entry.kind = reply /\ entry.signal = evmSignal
    BY <1>2 DEF Reply
  <1> HIDE DEF entry
  <1>6. /\ evmReplies' \in Seq(Reply) /\ Len(evmReplies') = Len(evmReplies) + 1
        /\ evmReplies'[Len(evmReplies')] = entry
        /\ \A i \in 1 .. Len(evmReplies) : evmReplies'[i] = evmReplies[i]
    BY <1>1, <1>2, <1>5, AppendProperties
  <1>7. CASE Evm!Retried(reply)
    <2>1. reply \in Evm!Silent /\ evmSignal = "open" /\ evmAsked < Len(evmUrls)
          /\ evmAsked' = evmAsked + 1 /\ evmOutcome' = "none"
      BY <1>1, <1>7 DEF Evm!Retried
    <2>2. GaveWay(entry)
      BY <1>5, <2>1 DEF GaveWay
    <2>3. \A i \in 1 .. Len(evmReplies') : GaveWay(evmReplies'[i])
      BY <1>2, <1>6, <2>2
    <2>4. Counted'
      BY <1>1, <1>2, <1>3, <1>6, <2>1, <2>3 DEF Counted
    <2>5. Concluded'
      BY <2>1 DEF Concluded, Evm!Definitive
    <2> QED
      BY <1>4, <2>4, <2>5 DEF EvmInv
  <1>8. CASE ~Evm!Retried(reply)
    <2>1. evmAsked' = evmAsked /\ evmOutcome' = IF reply \in Evm!Definitive THEN reply ELSE "noAnswer"
      BY <1>1, <1>8
    <2>2. evmOutcome' # "none"
      BY <2>1 DEF Evm!Definitive
    <2>3. Counted'
      BY <1>1, <1>2, <1>3, <1>6, <2>1, <2>2 DEF Counted
    <2>4. evmOutcome' = "noAnswer" => evmSignal = "aborted" \/ (reply \in Evm!Silent /\ evmAsked = Len(evmUrls))
      BY <1>1, <1>2, <1>3, <1>8, <2>1 DEF Evm!Retried, Evm!Definitive
    <2>5. evmReplies'[Len(evmReplies')].kind = reply
      BY <1>5, <1>6
    <2>6. evmOutcome' = "noAnswer" =>
             evmSignal' = "aborted"
             \/ (Len(evmReplies') = Len(evmUrls') /\ evmReplies'[Len(evmReplies')].kind \in Evm!Silent)
      <3>1. Len(evmReplies') = evmAsked
        BY <1>2, <1>6
      <3> QED
        BY <1>1, <2>4, <2>5, <3>1
    <2>7. evmOutcome' \in {"noAnswer"} \cup Evm!Definitive /\ (evmOutcome' \in Evm!Definitive => evmOutcome' = reply)
      BY <2>1 DEF Evm!Definitive
    <2>8. Concluded'
      BY <2>5, <2>6, <2>7 DEF Concluded
    <2> QED
      BY <1>4, <2>3, <2>8 DEF EvmInv
  <1> QED
    BY <1>7, <1>8

LEMMA EvmInductive == EvmInv /\ [Evm!Next]_(Evm!vars) => EvmInv'
  <1> SUFFICES ASSUME EvmInv, [Evm!Next]_(Evm!vars) PROVE EvmInv'
    OBVIOUS
  <1>1. ASSUME UNCHANGED <<evmRequest, evmConfig, evmUrls, evmAsked, evmReplies, evmOutcome>>,
               evmSignal' \in {evmSignal, "aborted"}
        PROVE  EvmInv'
    <2>1. Evm!Resolved' = Evm!Resolved /\ Evm!Accepted' = Evm!Accepted
      BY <1>1 DEF Evm!Resolved, Evm!Accepted
    <2> QED
      BY <1>1, <2>1 DEF EvmInv, Walked, Counted, Concluded
  <1>2. CASE Evm!Abort
    BY <1>1, <1>2 DEF Evm!Abort
  <1>3. CASE UNCHANGED Evm!vars
    BY <1>1, <1>3 DEF Evm!vars
  <1> QED
    BY <1>2, <1>3, EvmCallStep, EvmRepliedStep DEF Evm!Next

LEMMA EvmImplies == EvmInv => Evm!FirstAnswerCounts /\ Evm!OnlyReadsLeave
  <1> SUFFICES ASSUME EvmInv PROVE Evm!FirstAnswerCounts /\ Evm!OnlyReadsLeave
    OBVIOUS
  <1>1. /\ Len(evmUrls) \in Nat /\ DOMAIN evmUrls = 1 .. Len(evmUrls)
        /\ \A m, n \in 1 .. Len(evmUrls) : evmUrls[m] = evmUrls[n] => m = n
        /\ \A n \in 1 .. Len(evmUrls) : evmUrls[n] # Blank
    <2>1. CASE evmUrls = <<>>
      BY <2>1
    <2>2. CASE evmUrls = Evm!Resolved
      BY <2>2, ResolvedListed DEF EvmInv, Walked
    <2> QED
      BY <2>1, <2>2 DEF EvmInv, Walked
  <1>2. evmReplies \in Seq(Reply) /\ Len(evmReplies) \in Nat /\ DOMAIN evmReplies = 1 .. Len(evmReplies)
    BY DEF EvmInv, Counted
  <1>3. \A i \in 1 .. Len(evmReplies) : i < Len(evmReplies) => GaveWay(evmReplies[i])
    <2>1. evmAsked \in {Len(evmReplies), Len(evmReplies) + 1} /\ \A i \in 1 .. Len(evmReplies) : i < evmAsked => GaveWay(evmReplies[i])
      BY DEF EvmInv, Counted
    <2>2. \A i \in 1 .. Len(evmReplies) : i < Len(evmReplies) => i < evmAsked
      BY SMTT(40), <1>2, <2>1
    <2> QED
      BY <2>1, <2>2
  <1>4. Evm!FirstAnswerCounts
    BY <1>1, <1>2, <1>3 DEF EvmInv, Counted, Concluded, GaveWay, Evm!FirstAnswerCounts
  <1>5. ASSUME evmAsked > 0
        PROVE  /\ evmRequest.method \in Evm!EVM_READ_ONLY_METHODS \ Evm!EVM_FORBIDDEN_METHODS
               /\ \A i \in DOMAIN evmUrls : evmUrls[i] \notin Unusable \cup {Blank}
    <2>1. evmUrls = Evm!Resolved /\ Evm!Accepted
      BY <1>5 DEF EvmInv, Walked
    <2>2. evmRequest.method \notin Evm!EVM_FORBIDDEN_METHODS /\ evmRequest.method \in Evm!EVM_READ_ONLY_METHODS
      BY <2>1 DEF Evm!Accepted, Evm!ReadOnly
    <2>3. \A i \in DOMAIN evmUrls : evmUrls[i] \notin Unusable
      BY <2>1 DEF Evm!Accepted
    <2> QED
      BY <1>1, <2>2, <2>3
  <1> QED
    BY <1>4, <1>5 DEF Evm!OnlyReadsLeave

\* callEvmRpc() sends nothing for a method that signs or sends, and nothing to an endpoint
\* no configuration may name; the first endpoint that answers has the last word, however
\* many there are and wherever the caller's signal ends the walk.
THEOREM EvmWalksInOrder == Evm!Spec => []Evm!FirstAnswerCounts /\ []Evm!OnlyReadsLeave
  BY EvmInitially, EvmInductive, EvmImplies, PTL DEF Evm!Spec

-----------------------------------------------------------------------------
(* The types of the parts.  The invariants know most of them already.      *)

LEMMA HttpTypedInitially == ASSUME Times, Http!Init PROVE Http!TypeOK
  <1>1. server = Http!Refused \/ server \in Http!Options
    BY PartsConstants DEF Http!Init, Http!ConstantsOK
  <1>2. lastTrue \in [States -> 0 .. LastTime] /\ now \in 0 .. LastTime
    BY DEF Times, Http!Init, States
  <1>3. /\ healthStatusCache \in [expiresAt : -1 .. LastTime + Ttl, value : {"none", "up", "down"}]
        /\ healthStatusRequest \in [started : -1 .. LastTime, met : SUBSET {"up", "down"}]
        /\ answer \in [value : {"none", "up", "down"}, age : 0 .. LastTime]
    BY DEF Times, Http!Init, Http!NoCache, Http!NoProbe, Http!NoAnswer
  <1>4. last \in [route : Http!Routes, auth : {"none", "key", "approval"}, secret : BOOLEAN,
                  status : {0, 200, 202, 400, 401, 403, 404, 413, 415, 429, 500, 502, 504},
                  changed : BOOLEAN, failure : Http!Failures \cup {"none"}, details : BOOLEAN]
    BY DEF Http!Init, Http!NoRequest, Http!Routes
  <1> QED
    BY <1>1, <1>2, <1>3, <1>4 DEF Http!TypeOK, Http!Init, States

\* The statuses of the answers.
LEMMA StatusTyped ==
    ASSUME NEW q \in Http!QueryForms, NEW failure \in Http!Failures \cup {"none"}
    PROVE  /\ Http!Refusal(q, failure) \in {0, 400, 401, 403, 404, 413, 415, 429}
           /\ Http!Served(q, failure) \in {200, 202, 400, 401, 403, 404, 429, 500, 502, 504}
  <1>1. Http!Gate(q) \in {0, 401, 403, 429}
    BY DEF Http!Gate
  <1>2. Http!BodyStatus(q) \in {0, 400, 413, 415}
    BY DEF Http!BodyStatus, Http!QueryForms
  <1>3. Http!Refusal(q, failure) \in {0, 400, 401, 403, 404, 413, 415, 429}
    BY <1>1, <1>2 DEF Http!Refusal
  <1>4. Http!Success(q.route) \in {200, 202}
    BY DEF Http!Success
  <1>5. failure # "none" => Http!FailureStatus[failure] \in {400, 401, 403, 404, 429, 500, 502, 504}
    BY DEF Http!Failures, Http!FailureStatus
  <1> QED
    BY <1>3, <1>4, <1>5 DEF Http!Served

LEMMA RequestTyped ==
    ASSUME Http!TypeOK, NEW q \in Queries, NEW thrown \in Http!Failures \cup {"none"}, Http!Request(q, thrown)
    PROVE  Http!TypeOK'
  <1> DEFINE failure == IF Http!Unfailing(q.route) THEN "none" ELSE thrown
             refusal == Http!Refusal(q, failure)
             status  == IF refusal # 0 THEN refusal ELSE Http!Served(q, failure)
             changed == Http!Changes(q.route) /\ refusal = 0 /\ status = Http!Success(q.route)
             details == refusal = 0 /\ failure # "none" /\ Http!Detailed(failure)
  <1>1. q \in Http!QueryForms
    BY PartsConstants DEF Http!ConstantsOK
  <1>2. /\ last' = [route |-> q.route, auth |-> q.auth, secret |-> q.secret, status |-> status,
                    changed |-> changed, failure |-> failure, details |-> details]
        /\ UNCHANGED <<server, now, node, Http!healthVars>>
    BY DEF Http!Request
  <1>3. q.route \in Http!Routes /\ q.auth \in {"none", "key", "approval"} /\ q.secret \in BOOLEAN
    BY <1>1 DEF Http!QueryForms
  <1>4. failure \in Http!Failures \cup {"none"}
    OBVIOUS
  <1>5. status \in {0, 200, 202, 400, 401, 403, 404, 413, 415, 429, 500, 502, 504}
    BY <1>1, <1>4, StatusTyped
  <1>6. changed \in BOOLEAN /\ details \in BOOLEAN
    BY DEF Http!Changes, Http!Detailed
  <1> HIDE DEF failure, refusal, status, changed, details
  <1>7. last' \in [route : Http!Routes, auth : {"none", "key", "approval"}, secret : BOOLEAN,
                   status : {0, 200, 202, 400, 401, 403, 404, 413, 415, 429, 500, 502, 504},
                   changed : BOOLEAN, failure : Http!Failures \cup {"none"}, details : BOOLEAN]
    BY <1>2, <1>3, <1>4, <1>5, <1>6
  <1> QED
    BY <1>2, <1>7 DEF Http!TypeOK, Http!healthVars

LEMMA ProbingTyped ==
    ASSUME Times, HealthInv, HealthInv', Http!TypeOK, Http!Probing
    PROVE  Http!TypeOK'
  <1>1. UNCHANGED <<server, last>>
    BY DEF Http!Probing, Http!Health, Http!ProbeEnds, Http!NodeTurns, Http!Tick
  <1>2. now \in 0 .. LastTime /\ now' \in 0 .. LastTime
    BY DEF Times, Http!TypeOK, Http!Probing, Http!Health, Http!ProbeEnds, Http!NodeTurns, Http!Tick
  <1>3. node' \in States /\ lastTrue' \in [States -> 0 .. LastTime]
    <2>1. lastTrue' \in [States -> Nat] /\ \A value \in States : lastTrue'[value] <= now'
      BY DEF HealthInv, History
    <2> QED
      BY <1>2, <2>1 DEF Times, HealthInv, History
  <1>4. healthStatusRequest' \in [started : -1 .. LastTime, met : SUBSET States]
    <2>1. CASE healthStatusRequest' = Http!NoProbe
      BY <2>1 DEF Times, Http!NoProbe
    <2>2. CASE healthStatusRequest' # Http!NoProbe
      <3>1. healthStatusRequest' \in [started : Nat, met : SUBSET States] /\ healthStatusRequest'.started <= now'
        BY <2>2 DEF HealthInv, ProbeIsFresh, Http!NoProbe
      <3> QED
        BY <1>2, <3>1 DEF Times
    <2> QED
      BY <2>1, <2>2
  <1>5. \A value \in States : now - lastTrue[value] \in 0 .. LastTime
    <2>1. lastTrue \in [States -> Nat] /\ \A value \in States : lastTrue[value] <= now
      BY DEF HealthInv, History
    <2> QED
      BY <1>2, <2>1 DEF Times
  <1>6. \A value \in States : Http!Told(value) \in [value : {"none", "up", "down"}, age : 0 .. LastTime]
    BY <1>5 DEF Http!Told, States
  <1>7. /\ healthStatusCache' \in [expiresAt : -1 .. LastTime + Ttl, value : {"none", "up", "down"}]
        /\ answer' \in [value : {"none", "up", "down"}, age : 0 .. LastTime]
        /\ waiting' \in BOOLEAN
    <2>1. /\ healthStatusCache \in [expiresAt : -1 .. LastTime + Ttl, value : {"none", "up", "down"}]
          /\ answer \in [value : {"none", "up", "down"}, age : 0 .. LastTime]
          /\ waiting \in BOOLEAN
      BY DEF Http!TypeOK
    <2>2. CASE Http!Health
      <3>1. Http!Cached => healthStatusCache.value \in States
        BY <1>2 DEF Http!Cached, Http!NoCache, HealthInv, CacheIsFresh, Times
      <3> QED
        BY <1>6, <2>1, <2>2, <3>1 DEF Http!Health
    <2>3. ASSUME NEW value \in States, Http!ProbeEnds(value)
          PROVE  /\ healthStatusCache' \in [expiresAt : -1 .. LastTime + Ttl, value : {"none", "up", "down"}]
                 /\ answer' \in [value : {"none", "up", "down"}, age : 0 .. LastTime]
                 /\ waiting' \in BOOLEAN
      <3>1. now + Ttl \in -1 .. LastTime + Ttl
        BY <1>2 DEF Times
      <3>2. healthStatusCache' = [expiresAt |-> now + Ttl, value |-> value] /\ answer' = Http!Told(value)
            /\ waiting' = FALSE
        BY <2>3 DEF Http!ProbeEnds, Http!Filled
      <3> QED
        BY <1>6, <3>1, <3>2 DEF States
    <2>4. CASE Http!NodeTurns \/ Http!Tick
      BY <2>1, <2>4 DEF Http!NodeTurns, Http!Tick
    <2> QED
      BY <2>2, <2>3, <2>4 DEF Http!Probing, States
  <1> QED
    BY <1>1, <1>2, <1>3, <1>4, <1>7 DEF Http!TypeOK, States

LEMMA HttpTyped ==
    ASSUME Times, HealthInv, HealthInv', Http!TypeOK, [Http!Next]_(Http!vars)
    PROVE  Http!TypeOK'
  <1>1. CASE Http!Serving
    BY <1>1, RequestTyped DEF Http!Serving
  <1>2. CASE Http!Probing
    BY <1>2, ProbingTyped
  <1>3. CASE UNCHANGED Http!vars
    BY <1>3 DEF Http!vars, Http!healthVars, Http!TypeOK
  <1> QED
    BY <1>1, <1>2, <1>3 DEF Http!Next

-----------------------------------------------------------------------------

LEMMA ContractsTypedInitially == ASSUME NamesInv, Contracts!Init PROVE Contracts!TypeOK
  <1>1. nameRequests = {} /\ Contracts!Range(negativeNameCache) = {} /\ magic = FALSE
    BY DEF Contracts!Init, Contracts!Range
  <1> QED
    BY <1>1 DEF NamesInv, Shape, Found, Invocation, Contracts!TypeOK

\* Only names are asked of the index.
LEMMA ContractsTyped ==
    ASSUME Tables, NamesInv, NamesInv', UnknownInv', Contracts!TypeOK, [Contracts!Next]_(Contracts!vars)
    PROVE  Contracts!TypeOK'
  <1>1. magic' \in BOOLEAN
    BY DEF Contracts!TypeOK, Contracts!Next, Contracts!vars, Contracts!chainVars, Contracts!Call, Contracts!Check,
           Contracts!RpcFails, Contracts!StateAnswers, Contracts!InvokeAnswers, Contracts!MagicAnswers,
           Contracts!NegativeExpires, Contracts!IndexAnswers, Contracts!ChainMoves
  <1>2. nameRequests' \subseteq Contracts!Names
    <2>1. nameRequests \subseteq Contracts!Names
      BY DEF Contracts!TypeOK
    <2>2. ASSUME NEW c \in Invocations, NEW kind \in Contracts!Kinds, NEW reference \in Contracts!References,
                 NEW wellFormed \in BOOLEAN, Contracts!Call(c, kind, reference, wellFormed)
          PROVE  nameRequests' \subseteq Contracts!Names
      <3>1. CASE invocation'[c].pc # "asking"
        BY <2>1, <2>2, <3>1 DEF Contracts!Call
      <3>2. CASE invocation'[c].pc = "asking"
        <4>1. invocation \in [Invocations -> Invocation]
          BY DEF NamesInv, Shape
        <4> DEFINE i == [Contracts!NotCalled EXCEPT !.kind = kind, !.reference = reference, !.live = deployed]
                   known == Contracts!ResolveCached(reference)
        <4>2. invocation'[c] = IF ~wellFormed \/ ~Contracts!Explicit(kind, reference) THEN Contracts!Over(i, "refused")
                               ELSE IF known # NoHash THEN Contracts!Continue(i, known)
                               ELSE Contracts!Asking(i)
          BY <2>2, <4>1 DEF Contracts!Call
        <4>3. known = NoHash
          <5>1. Contracts!Over(i, "refused").pc = "over"
            BY DEF Contracts!Over, Contracts!NotCalled
          <5>2. Contracts!Continue(i, known).pc = "resolved"
            BY DEF Contracts!Continue, Contracts!NotCalled
          <5> HIDE DEF i, known
          <5> QED
            BY <3>2, <4>2, <5>1, <5>2
        <4>4. reference \notin Hashes
          BY <4>3 DEF Tables, Contracts!ResolveCached, Contracts!Resolve
        <4>5. reference \in Contracts!Names
          BY <4>4 DEF Contracts!References
        <4> QED
          BY <2>1, <2>2, <4>5 DEF Contracts!Call
      <3> QED
        BY <3>1, <3>2
    <2>3. ASSUME NEW name \in Contracts!Names, NEW hash \in Hashes, NEW found \in {"one", "nothing", "trouble"},
                 Contracts!IndexAnswers(name, hash, found)
          PROVE  nameRequests' \subseteq Contracts!Names
      BY <2>1, <2>3 DEF Contracts!IndexAnswers
    <2>4. CASE UNCHANGED nameRequests
      BY <2>1, <2>4
    <2>5. \/ \E c \in Invocations, kind \in Contracts!Kinds, reference \in Contracts!References, wellFormed \in BOOLEAN :
                Contracts!Call(c, kind, reference, wellFormed)
          \/ \E name \in Contracts!Names, hash \in Hashes, found \in {"one", "nothing", "trouble"} :
                Contracts!IndexAnswers(name, hash, found)
          \/ UNCHANGED nameRequests
      BY DEF Contracts!Next, Contracts!vars, Contracts!indexVars, Contracts!Check, Contracts!RpcFails, Contracts!StateAnswers,
             Contracts!InvokeAnswers, Contracts!MagicAnswers, Contracts!NegativeExpires, Contracts!ChainMoves
    <2> QED
      BY <2>2, <2>3, <2>4, <2>5
  <1>3. Contracts!Range(negativeNameCache') \subseteq Contracts!Names
    <2>1. negativeNameCache' \in Seq(Contracts!Names)
      BY DEF UnknownInv, Distinct
    <2>2. \A i \in DOMAIN negativeNameCache' : negativeNameCache'[i] \in Contracts!Names
      BY <2>1
    <2> QED
      BY <2>2 DEF Contracts!Range
  <1>4. Shape'
    BY DEF NamesInv
  <1> QED
    BY <1>1, <1>2, <1>3, <1>4 DEF Shape, Found, Invocation, Contracts!TypeOK

-----------------------------------------------------------------------------

\* What the types say of a job and its shape does not.
JobTyped(i) == i.claim \in {"none", "worth", "counted"} /\ i.scaled \in 0 .. VmMax /\ i.seen \subseteq Wallets

LEMMA UnstartedTyped ==
    ASSUME NEW pc
    PROVE  JobTyped(Preparation!Unstarted) /\ JobTyped([Preparation!Unstarted EXCEPT !.pc = pc])
  <1>1. VmMax \in Nat
    BY PreparationTyped
  <1> QED
    BY <1>1 DEF Preparation!Unstarted, JobTyped

\* A record that differs from a typed one in other fields is typed.
LEMMA SameTyped ==
    ASSUME NEW i, NEW k, JobTyped(i), k.claim = i.claim, k.scaled = i.scaled, k.seen = i.seen
    PROVE  JobTyped(k)
  BY DEF JobTyped

LEMMA ScaledTyped ==
    ASSUME NEW amount, NEW decimals, Preparation!Scaled(amount, decimals) # Preparation!Rejected
    PROVE  Preparation!Scaled(amount, decimals) \in 1 .. VmMax
  BY DEF Preparation!Scaled

LEMMA JobStepTyped ==
    ASSUME SigningInv, \A k \in Jobs : JobTyped(job[k]), NEW j \in Jobs, Preparation!Step(j)
    PROVE  (\A k \in Jobs : JobTyped(job'[k])) /\ UNCHANGED <<height, wallet, networkMagic>>
  <1> DEFINE i == job[j]
  <1>1. JobTyped(i) /\ JobRecord(i) /\ wallet \in Wallets /\ VmMax \in Nat
    BY PreparationTyped DEF SigningInv, JobInv, JobShape
  <1>2. ASSUME NEW next, Preparation!Become(j, next), JobTyped(next)
        PROVE  \A k \in Jobs : JobTyped(job'[k])
    <2>1. \A k \in Jobs : job'[k] = IF k = j THEN next ELSE job[k]
      BY <1>2 DEF Preparation!Become, SigningInv
    <2> QED
      BY <1>2, <2>1
  <1>3. ASSUME Preparation!Fail(j)
        PROVE  \A k \in Jobs : JobTyped(job'[k])
    BY <1>2, <1>3, UnstartedTyped DEF Preparation!Fail
  <1>4. ASSUME NEW r \in Requests, Preparation!Start(j, r)
        PROVE  (\A k \in Jobs : JobTyped(job'[k])) /\ UNCHANGED <<height, wallet, networkMagic>>
    <2> DEFINE pc == IF networkMagic[Preparation!ServiceOf(r.kind)] THEN Preparation!AfterMagic(r.kind) ELSE "magic"
               asset == IF r.kind = "claimGas" THEN "NEO" ELSE r.asset
               next == [Preparation!Unstarted EXCEPT
                          !.pc = pc, !.kind = r.kind, !.asset = asset,
                          !.amount = r.amount, !.began = height, !.seen = {wallet}]
    <2>1. Preparation!Become(j, next) \/ Preparation!Fail(j)
      BY <1>4 DEF Preparation!Start
    <2>2. next.claim = "none" /\ next.scaled = 0 /\ next.seen = {wallet}
      BY DEF Preparation!Unstarted
    <2> HIDE DEF next
    <2>3. JobTyped(next)
      BY <1>1, <2>2 DEF JobTyped
    <2> QED
      BY <1>2, <1>3, <1>4, <2>1, <2>3 DEF Preparation!Start
  <1>5. ASSUME NEW decimals, Preparation!DecimalsAnswer(j, decimals)
        PROVE  (\A k \in Jobs : JobTyped(job'[k])) /\ UNCHANGED <<height, wallet, networkMagic>>
    <2> DEFINE scaled == Preparation!Scaled(i.amount, decimals)
               pc == IF i.kind = "estimate" THEN "system" ELSE "count"
               next == [i EXCEPT !.decimals = decimals, !.scaled = scaled, !.pc = pc]
    <2>1. (scaled # Preparation!Rejected /\ Preparation!Become(j, next)) \/ Preparation!Fail(j)
      BY <1>5 DEF Preparation!DecimalsAnswer, Preparation!ScaleBy
    <2>2. scaled # Preparation!Rejected => scaled \in 0 .. VmMax
      BY <1>1, ScaledTyped
    <2> HIDE DEF i, scaled, pc
    <2>3. next.claim = i.claim /\ next.scaled = scaled /\ next.seen = i.seen
      BY <1>1 DEF JobRecord, JobFields
    <2> HIDE DEF next
    <2>4. scaled # Preparation!Rejected => JobTyped(next)
      BY <1>1, <2>2, <2>3 DEF JobTyped
    <2> QED
      BY <1>2, <1>3, <1>5, <2>1, <2>4 DEF Preparation!DecimalsAnswer
  <1>6. ASSUME Preparation!UnclaimedAnswers(j)
        PROVE  (\A k \in Jobs : JobTyped(job'[k])) /\ UNCHANGED <<height, wallet, networkMagic>>
    <2> DEFINE counted == [i EXCEPT !.pc = "count"]
               worth == [i EXCEPT !.claim = "worth"]
    <2>1. Preparation!Become(j, counted) \/ Preparation!Become(j, worth) \/ Preparation!Fail(j)
      BY <1>6 DEF Preparation!UnclaimedAnswers
    <2> HIDE DEF i
    <2>2. /\ counted.claim = i.claim /\ counted.scaled = i.scaled /\ counted.seen = i.seen
          /\ worth.claim = "worth" /\ worth.scaled = i.scaled /\ worth.seen = i.seen
      BY <1>1 DEF JobRecord, JobFields
    <2> HIDE DEF counted, worth
    <2>3. JobTyped(counted) /\ JobTyped(worth)
      BY <1>1, <2>2 DEF JobTyped
    <2> QED
      BY <1>2, <1>3, <1>6, <2>1, <2>3 DEF Preparation!UnclaimedAnswers
  <1>7. ASSUME Preparation!NeoBalanceAnswers(j)
        PROVE  (\A k \in Jobs : JobTyped(job'[k])) /\ UNCHANGED <<height, wallet, networkMagic>>
    <2> DEFINE pc == IF i.claim = "worth" THEN "count" ELSE "claim"
               next == [i EXCEPT !.scaled = wallet.neo, !.pc = pc, !.claim = "counted"]
    <2>1. Preparation!Become(j, next) \/ Preparation!Fail(j)
      BY <1>7 DEF Preparation!NeoBalanceAnswers
    <2>2. wallet.neo \in 0 .. VmMax
      BY <1>1, PartsConstants DEF Preparation!ConstantsOK
    <2> HIDE DEF i, pc
    <2>3. next.claim = "counted" /\ next.scaled = wallet.neo /\ next.seen = i.seen
      BY <1>1 DEF JobRecord, JobFields
    <2> HIDE DEF next
    <2>4. JobTyped(next)
      BY <1>1, <2>2, <2>3 DEF JobTyped
    <2> QED
      BY <1>2, <1>3, <1>7, <2>1, <2>4 DEF Preparation!NeoBalanceAnswers
  <1>8. ASSUME NEW behind, Preparation!CountAnswers(j, behind)
        PROVE  (\A k \in Jobs : JobTyped(job'[k])) /\ UNCHANGED <<height, wallet, networkMagic>>
    <2> DEFINE until == Preparation!ValidUntil(height + 1 - behind)
               next == [i EXCEPT !.validUntilBlock = until, !.pc = "system"]
    <2>1. Preparation!Become(j, next)
      BY <1>8 DEF Preparation!CountAnswers
    <2> HIDE DEF i, until
    <2>2. next.claim = i.claim /\ next.scaled = i.scaled /\ next.seen = i.seen
      BY <1>1 DEF JobRecord, JobFields
    <2> HIDE DEF next
    <2> QED
      BY <1>1, <1>2, <1>8, <2>1, <2>2, SameTyped DEF Preparation!CountAnswers
  <1>9. ASSUME NEW fee, NEW halting, Preparation!SystemFeeAnswers(j, fee, halting)
        PROVE  (\A k \in Jobs : JobTyped(job'[k])) /\ UNCHANGED <<height, wallet, networkMagic>>
    <2> DEFINE next == [i EXCEPT !.systemFee = fee, !.pc = "network"]
    <2>1. Preparation!Become(j, next) \/ Preparation!Fail(j)
      BY <1>9 DEF Preparation!SystemFeeAnswers
    <2> HIDE DEF i
    <2>2. next.claim = i.claim /\ next.scaled = i.scaled /\ next.seen = i.seen
      BY <1>1 DEF JobRecord, JobFields
    <2> HIDE DEF next
    <2>3. JobTyped(next)
      BY <1>1, <2>2, SameTyped
    <2> QED
      BY <1>2, <1>3, <1>9, <2>1, <2>3 DEF Preparation!SystemFeeAnswers
  <1>10. ASSUME NEW fee, Preparation!NetworkFeeAnswers(j, fee)
         PROVE  (\A k \in Jobs : JobTyped(job'[k])) /\ UNCHANGED <<height, wallet, networkMagic>>
    <2> DEFINE gas == Preparation!FormatDatosAsGas(i.systemFee)
               estimated == [i EXCEPT !.networkFee = fee, !.pc = "told", !.told = gas]
               next == [i EXCEPT !.networkFee = fee, !.pc = "gas"]
    <2>1. Preparation!Become(j, estimated) \/ Preparation!Become(j, next) \/ Preparation!Fail(j)
      BY <1>10 DEF Preparation!NetworkFeeAnswers, Preparation!Estimated
    <2> HIDE DEF i, gas
    <2>2. /\ estimated.claim = i.claim /\ estimated.scaled = i.scaled /\ estimated.seen = i.seen
          /\ next.claim = i.claim /\ next.scaled = i.scaled /\ next.seen = i.seen
      BY <1>1 DEF JobRecord, JobFields
    <2> HIDE DEF estimated, next
    <2>3. JobTyped(estimated) /\ JobTyped(next)
      BY <1>1, <2>2, SameTyped
    <2> QED
      BY <1>2, <1>3, <1>10, <2>1, <2>3 DEF Preparation!NetworkFeeAnswers
  <1>11. ASSUME Preparation!GasBalanceAnswers(j)
         PROVE  (\A k \in Jobs : JobTyped(job'[k])) /\ UNCHANGED <<height, wallet, networkMagic>>
    <2> DEFINE next == Preparation!Signed(i)
    <2>1. Preparation!Become(j, next) \/ Preparation!Fail(j)
      BY <1>11 DEF Preparation!GasBalanceAnswers
    <2> HIDE DEF i
    <2>2. next.claim = i.claim /\ next.scaled = i.scaled /\ next.seen = i.seen
      BY <1>1 DEF JobRecord, JobFields, Preparation!Signed
    <2> HIDE DEF next
    <2>3. JobTyped(next)
      BY <1>1, <2>2, SameTyped
    <2> QED
      BY <1>2, <1>3, <1>11, <2>1, <2>3 DEF Preparation!GasBalanceAnswers
  <1>12. ASSUME Preparation!RpcFails(j)
         PROVE  (\A k \in Jobs : JobTyped(job'[k])) /\ UNCHANGED <<height, wallet, networkMagic>>
    BY <1>3, <1>12 DEF Preparation!RpcFails
  <1> QED
    BY <1>4, <1>5, <1>6, <1>7, <1>8, <1>9, <1>10, <1>11, <1>12 DEF Preparation!Step

LEMMA TopTyped == Top \in Nat \ {0}
  BY PartsConstants DEF Chain!ConstantsOK

LEMMA PreparationTypedInitially == ASSUME SigningInv, Preparation!Init PROVE Preparation!TypeOK
  <1>1. \A j \in Jobs : job[j] = Preparation!Unstarted
    BY DEF Preparation!Init
  <1>2. \A j \in Jobs : JobTyped(job[j])
    BY <1>1, UnstartedTyped
  <1> QED
    BY <1>2, TopTyped DEF Preparation!Init, SigningInv, JobInv, JobShape, JobTyped, Past, Late, Preparation!TypeOK

LEMMA PreparationStaysTyped ==
    ASSUME SigningInv, SigningInv', Preparation!TypeOK, [Preparation!Next]_(Preparation!vars)
    PROVE  Preparation!TypeOK'
  <1>1. height \in 0 .. Top /\ \A j \in Jobs : JobTyped(job[j])
    BY DEF Preparation!TypeOK, JobTyped
  <1>2. height' \in 0 .. Top /\ \A j \in Jobs : JobTyped(job'[j])
    <2>1. CASE \E j \in Jobs : Preparation!Step(j)
      BY <1>1, <2>1, JobStepTyped
    <2>2. ASSUME NEW service, NEW right, Preparation!MagicAnswers(service, right)
          PROVE  height' \in 0 .. Top /\ \A j \in Jobs : JobTyped(job'[j])
      <3>1. height' = height
        BY <2>2 DEF Preparation!MagicAnswers
      <3>2. ASSUME NEW j \in Jobs
            PROVE  JobTyped(job'[j])
        <4> DEFINE next == [job[j] EXCEPT !.pc = Preparation!AfterMagic(job[j].kind)]
        <4>1. job'[j] = job[j] \/ job'[j] = next \/ job'[j] = [Preparation!Unstarted EXCEPT !.pc = "failed"]
          BY <2>2 DEF Preparation!MagicAnswers
        <4>2. JobRecord(job[j])
          BY DEF SigningInv, JobInv, JobShape
        <4>3. next.claim = job[j].claim /\ next.scaled = job[j].scaled /\ next.seen = job[j].seen
          BY <4>2 DEF JobRecord, JobFields
        <4> HIDE DEF next
        <4>4. JobTyped(next)
          BY <1>1, <4>3, SameTyped
        <4> QED
          BY <1>1, <4>1, <4>4, UnstartedTyped
      <3> QED
        BY <1>1, <3>1, <3>2
    <2>3. ASSUME NEW after \in Wallets, Preparation!Block(after)
          PROVE  height' \in 0 .. Top /\ \A j \in Jobs : JobTyped(job'[j])
      <3>1. height' \in 0 .. Top
        BY <1>1, <2>3, TopTyped DEF Preparation!Block
      <3>2. ASSUME NEW j \in Jobs
            PROVE  JobTyped(job'[j])
        <4> DEFINE next == [job[j] EXCEPT !.seen = @ \cup {after}]
        <4>1. job'[j] = job[j] \/ job'[j] = next
          BY <2>3 DEF Preparation!Block
        <4>2. JobRecord(job[j]) /\ JobTyped(job[j])
          BY <1>1 DEF SigningInv, JobInv, JobShape
        <4>3. next.claim = job[j].claim /\ next.scaled = job[j].scaled /\ next.seen = job[j].seen \cup {after}
          BY <4>2 DEF JobRecord, JobFields
        <4> HIDE DEF next
        <4>4. JobTyped(next)
          BY <4>2, <4>3 DEF JobTyped
        <4> QED
          BY <4>1, <4>2, <4>4
      <3> QED
        BY <3>1, <3>2
    <2>4. CASE UNCHANGED Preparation!vars
      BY <1>1, <2>4 DEF Preparation!vars
    <2> QED
      BY <2>1, <2>2, <2>3, <2>4 DEF Preparation!Next
  <1> QED
    BY <1>2 DEF SigningInv, JobInv, JobShape, JobTyped, Past, Late, Preparation!TypeOK

-----------------------------------------------------------------------------

\* The ends a call of a tool comes to.
Outcomes == {"asked", "answered", "refused", "disabled", "unavailable", "unhandled"}

LEMMA OutcomeTyped ==
    /\ \A outcome, why : Dispatch!Outcome(outcome, why).outcome = outcome
    /\ \A chain, network, sent : Dispatch!Asked(chain, network, sent).outcome = "asked"
  BY DEF Dispatch!Outcome, Dispatch!Asked, Dispatch!Nobody

LEMMA AskedSomebody ==
    /\ \A network, sent : Dispatch!AskNeox(network, sent).outcome \in Outcomes
    /\ \A chain, network, endpoint, source :
          Dispatch!AskExplorer(chain, network, endpoint, source).outcome \in Outcomes
    /\ \A tool, network, args :
          /\ Dispatch!AskNode(tool, network, args).outcome \in Outcomes
          /\ Dispatch!AskX(tool, network, args).outcome \in Outcomes
  <1>1. \A n, s : Dispatch!AskNeox(n, s).outcome \in Outcomes
    BY OutcomeTyped DEF Dispatch!AskNeox, Outcomes
  <1>2. \A chain, network, endpoint, source :
           Dispatch!AskExplorer(chain, network, endpoint, source).outcome \in Outcomes
    BY <1>1, OutcomeTyped DEF Dispatch!AskExplorer, Outcomes
  <1>3. \A tool, network, args : Dispatch!AskNode(tool, network, args).outcome \in Outcomes
    BY OutcomeTyped DEF Dispatch!AskNode, Outcomes
  <1>4. \A tool, network, args : Dispatch!AskX(tool, network, args).outcome \in Outcomes
    BY <1>1, OutcomeTyped DEF Dispatch!AskX, Outcomes
  <1> QED
    BY <1>1, <1>2, <1>3, <1>4

LEMMA CallToolTyped ==
    ASSUME NEW tool, NEW network, NEW args, NEW endpoint, NEW source
    PROVE  Dispatch!CallTool(tool, network, args, endpoint, source).outcome \in Outcomes
  <1> DEFINE handled   == Dispatch!Outcome(IF Dispatch!Supplied(Dispatch!Handlers[tool], args) THEN "answered"
                                           ELSE "refused", "missing")
             neofs     == Dispatch!Asked("n3", network, <<>>)
             wrapped   == Dispatch!AskExplorer("n3", network, Dispatch!N3_INDEXER_TOOLS[tool].endpoint,
                                               Dispatch!Wrapped(tool, args))
             explorer  == Dispatch!AskExplorer("n3", network, endpoint, source)
             find      == IF Dispatch!Gated("find") THEN Dispatch!Outcome("disabled", "find")
                          ELSE Dispatch!Asked("n3", "mainnet", <<>>)
             xExplorer == Dispatch!AskExplorer("neox", network, endpoint, source)
             graphql   == IF Dispatch!Gated("graphql") THEN Dispatch!Outcome("disabled", "graphql")
                          ELSE Dispatch!AskNeox(network, <<>>)
             xNode     == Dispatch!AskX(tool, network, args)
             n3Node    == Dispatch!AskNode(tool, network, args)
             unknown   == Dispatch!Outcome("unhandled", tool)
  <1>1. handled.outcome \in Outcomes /\ unknown.outcome \in Outcomes /\ neofs.outcome \in Outcomes
    BY OutcomeTyped DEF Outcomes
  <1>2. find.outcome \in Outcomes /\ graphql.outcome \in Outcomes
    BY OutcomeTyped, AskedSomebody DEF Outcomes
  <1>3. wrapped.outcome \in Outcomes /\ explorer.outcome \in Outcomes /\ xExplorer.outcome \in Outcomes
    BY AskedSomebody
  <1>4. xNode.outcome \in Outcomes /\ n3Node.outcome \in Outcomes
    BY AskedSomebody
  <1> HIDE DEF handled, neofs, wrapped, explorer, find, xExplorer, graphql, xNode, n3Node, unknown
  <1>5. Dispatch!CallTool(tool, network, args, endpoint, source) \in
            {handled, neofs, wrapped, explorer, find, xExplorer, graphql, xNode, n3Node, unknown}
    BY DEF Dispatch!CallTool, handled, neofs, wrapped, explorer, find, xExplorer, graphql, xNode, n3Node, unknown
  <1> QED
    BY <1>1, <1>2, <1>3, <1>4, <1>5

LEMMA ChainResolved ==
    ASSUME NEW tool, NEW requested
    PROVE  Dispatch!ResolveChain(tool, requested) \in Dispatch!Chains \cup {"meta", "refused"}
  BY DEF Dispatch!ResolveChain, Dispatch!ChainsOf

LEMMA CallTypes ==
    ASSUME Dispatch!TypeOK, NEW c \in ToolCalls, Dispatch!Call(c)
    PROVE  Dispatch!TypeOK'
  <1> DEFINE chain == Dispatch!ResolveChain(c.tool, c.chain)
             route == Dispatch!PUBLIC_TOOLS[c.tool].routes[chain]
             args  == Dispatch!MappedArgs(c.tool, chain, c.args)
             fixed == route.endpoint # "none"
             network == Dispatch!MappedNetwork(route, c.network)
             endpoint == IF fixed THEN route.endpoint ELSE c.endpoint
             source == IF fixed THEN args ELSE c.params
             called == Dispatch!CallTool(route.internal, network, args, endpoint, source)
             refused == Dispatch!Outcome("refused", "registry")
  <1>1. /\ \/ lastCall' = [call |-> c, chain |-> chain, result |-> refused] /\ UNCHANGED neoServices
           \/ lastCall' = [call |-> c, chain |-> chain, result |-> called] /\ Dispatch!ServicesFor(route)
        /\ UNCHANGED <<mode, switches>>
    BY DEF Dispatch!Call
  <1>2. called.outcome \in Outcomes
    BY CallToolTyped
  <1>3. refused.outcome \in Outcomes
    BY OutcomeTyped DEF Outcomes
  <1>4. chain \in Dispatch!Chains \cup {"meta", "refused"}
    BY ChainResolved
  <1>5. Dispatch!ServicesFor(route) => neoServices' \in {neoServices, mode}
    BY DEF Dispatch!ServicesFor, Dispatch!EnsureServices
  <1> HIDE DEF chain, route, called, refused
  <1>6. Dispatch!CallForm(c)
    BY PartsConstants DEF Dispatch!ConstantsOK
  <1>7. /\ lastCall'.call = c /\ lastCall'.chain = chain /\ lastCall'.result.outcome \in Outcomes
        /\ neoServices' \in {neoServices, mode}
    BY <1>1, <1>2, <1>3, <1>5
  <1>8. Dispatch!CallForm(lastCall'.call) /\ lastCall'.chain \in Dispatch!Chains \cup {"meta", "refused"}
    BY <1>4, <1>6, <1>7
  <1> QED
    BY <1>1, <1>7, <1>8 DEF Dispatch!TypeOK, Outcomes

LEMMA DispatchTypedInitially == ASSUME Dispatch!Init PROVE Dispatch!TypeOK
  <1>1. lastCall.result.outcome = "none"
    BY DEF Dispatch!Init, Dispatch!NoCall, Dispatch!Nobody
  <1> QED
    BY <1>1 DEF Dispatch!Init, Dispatch!TypeOK

LEMMA DispatchTyped ==
    ASSUME Dispatch!TypeOK, [Dispatch!Next]_(Dispatch!vars)
    PROVE  Dispatch!TypeOK'
  <1>1. CASE \E c \in ToolCalls : Dispatch!Call(c)
    BY <1>1, CallTypes
  <1>2. CASE UNCHANGED <<mode, switches, lastCall>> /\ neoServices' \in {neoServices, mode}
    <2>1. \/ lastCall'.result.outcome = "none"
          \/ Dispatch!CallForm(lastCall'.call)
      BY <1>2 DEF Dispatch!TypeOK
    <2> QED
      BY <1>2, <2>1 DEF Dispatch!TypeOK
  <1>3. Dispatch!ReadResource \/ UNCHANGED Dispatch!vars => UNCHANGED <<mode, switches, lastCall>> /\ neoServices' \in {neoServices, mode}
    BY DEF Dispatch!ReadResource, Dispatch!EnsureServices, Dispatch!vars
  <1> QED
    BY <1>1, <1>2, <1>3 DEF Dispatch!Next

-----------------------------------------------------------------------------

\* What a read tells has one of the forms of an answer.
ResultTyped(told) ==
    /\ told.outcome \in {"error", "answer"} /\ told.status \in {"none", "confirmed", "pending", "unknown"}
    /\ told.succeeded \in {"yes", "no", "null"}

LEMMA ToldTyped ==
    /\ Chain!Error.outcome = "error" /\ Chain!Error.status = "none" /\ Chain!Error.succeeded = "null"
    /\ Chain!Told.outcome = "answer" /\ Chain!Told.status = "none" /\ Chain!Told.succeeded = "null"
    /\ DOMAIN Chain!Told = {"outcome", "status", "succeeded", "confirmations", "block", "height", "neo", "gas",
                            "validated", "listed", "parties"}
  BY DEF Chain!Told, Chain!Error

LEMMA AnswerTyped ==
    ASSUME NEW ask, Chain!AskForm(ask), NEW got
    PROVE  ResultTyped(Chain!Result(ask, got))
  <1> DEFINE told == Chain!Told
  <1> USE ToldTyped DEF ResultTyped
  <1>1. \A log : Chain!Succeeded(log) \in {"yes", "no", "null"}
    BY DEF Chain!Succeeded
  <1>2. ResultTyped(Chain!Status(got))
    BY <1>1 DEF Chain!Status
  <1>3. ResultTyped(Chain!EvmStatus(got))
    BY DEF Chain!EvmStatus
  <1>4. \A log : ResultTyped(Chain!EnrichedLog(log))
    BY <1>1 DEF Chain!EnrichedLog
  <1>5. ResultTyped(Chain!Balance(got)) /\ ResultTyped(Chain!Block(ask, got))
    BY DEF Chain!Balance, Chain!Block
  <1>6. ask.kind \in {"n3Info", "n3Block", "n3Balance", "n3Transaction", "n3Status", "n3Transfers", "n3Log",
                      "n3Invoke", "xInfo", "xBlock", "xTransaction", "xBalance", "xStatus", "xCall"}
    BY DEF Chain!AskForm
  <1>7. CASE ask.kind \in {"n3Block", "n3Balance", "n3Status", "n3Log", "xStatus"}
    <2> HIDE DEF ResultTyped
    <2> QED
      BY <1>2, <1>3, <1>4, <1>5, <1>7 DEF Chain!Result
  <1>8. CASE ask.kind \in {"n3Info", "n3Transaction", "n3Transfers", "xInfo"}
    BY <1>8 DEF Chain!Result
  <1>9. CASE ask.kind \in {"xBlock", "xTransaction", "xBalance"}
    BY <1>9 DEF Chain!Result
  <1>10. CASE ask.kind \in {"n3Invoke", "xCall"}
    BY <1>10 DEF Chain!Result
  <1> QED
    BY <1>6, <1>7, <1>8, <1>9, <1>10

LEMMA ReadsTypedInitially == ASSUME Chain!Init PROVE Chain!TypeOK
  BY TopTyped, ToldTyped DEF Chain!Init, Chain!Idle, Chain!TypeOK

LEMMA ReadsTyped ==
    ASSUME ReadsInv, ReadsInv', Chain!TypeOK, [Chain!Next]_(Chain!vars)
    PROVE  Chain!TypeOK'
  <1>1. tip' \in 1 .. Top /\ validated' \in 0 .. tip'
    <2>1. tip \in 1 .. Top /\ validated \in 0 .. tip
      BY SMTT(40) DEF Chain!TypeOK
    <2>2. Chain!Next => UNCHANGED <<tip, validated>> \/ Chain!ChainGoesOn
      BY DEF Chain!Next, Chain!Begin, Chain!Receive
    <2>3. CASE UNCHANGED <<tip, validated>>
      BY <2>1, <2>3
    <2>4. CASE Chain!ChainGoesOn
      BY <2>1, <2>4, TopTyped DEF Chain!ChainGoesOn
    <2> QED
      BY <2>2, <2>3, <2>4 DEF Chain!vars
  <1>2. ResultTyped(read'.result)
    <2>1. ResultTyped(read.result)
      BY DEF Chain!TypeOK, ResultTyped
    <2>2. ASSUME NEW ask \in ReadAsks, Chain!Begin(ask)
          PROVE  ResultTyped(read'.result)
      BY <2>2, ToldTyped DEF Chain!Begin, Chain!Idle, ResultTyped
    <2>3. ASSUME NEW rpc, Chain!Receive(rpc), read.pc = "asking"
          PROVE  read'.result = read.result \/ read'.result = Chain!Result(read.ask, read'.got)
      <3>1. PICK reply \in Chain!Answers(rpc, read.ask) :
               LET got == Chain!With(read.got, rpc, reply)
                   done == [read EXCEPT !.pc = "done", !.got = got]
                   answered == [read EXCEPT !.pc = "done", !.got = got, !.result = Chain!Result(read.ask, got)]
               IN  read' = done \/ read' = answered \/ read' = [read EXCEPT !.got = got]
        BY <2>3 DEF Chain!Receive
      <3>2. DOMAIN read = {"pc", "ask", "began", "got", "result"}
        BY DEF ReadsInv, ReadShape
      <3> QED
        BY <3>1, <3>2
    <2>4. ASSUME NEW rpc, Chain!Receive(rpc), read.pc = "asking"
          PROVE  ResultTyped(read'.result)
      <3>1. Chain!AskForm(read.ask)
        BY <2>4 DEF ReadsInv, ReadShape
      <3> QED
        BY <2>1, <2>3, <2>4, <3>1, AnswerTyped
    <2>5. CASE UNCHANGED read
      BY <2>1, <2>5
    <2> QED
      BY <2>2, <2>5, <2>4 DEF Chain!Next, Chain!ChainGoesOn, Chain!vars
  <1>3. ChainShape' /\ ReadShape'
    BY DEF ReadsInv
  <1> QED
    BY <1>1, <1>2, <1>3 DEF ChainShape, ReadShape, ResultTyped, Chain!TypeOK

-----------------------------------------------------------------------------

\* What the types say of an outcome and the invariant does not.
ProposalTyped(p) ==
    p.outcome \in {"none", "error", "told", "proposed"} /\ DOMAIN p.got \subseteq Proposed!Priced

LEMMA ProposalsTypedInitially == ASSUME Proposed!Init PROVE Proposed!TypeOK
  BY DEF Proposed!Init, Proposed!Idle, Proposed!TypeOK

LEMMA ProposalsTyped ==
    ASSUME ProposalInv, ProposalInv', Proposed!TypeOK, [Proposed!Next]_(Proposed!vars)
    PROVE  Proposed!TypeOK'
  <1>1. enabled' \in (SUBSET Proposed!Networks) \ {{}}
    BY DEF Proposed!TypeOK, Proposed!Next, Proposed!vars, Proposed!Begin, Proposed!DecimalsAnswer,
           Proposed!PreviewAnswers, Proposed!EvmAnswers
  <1>2. ProposalTyped(proposal) /\ DOMAIN proposal = ProposalFields
    BY DEF Proposed!TypeOK, ProposalInv, ProposalTyped
  <1>3. ASSUME NEW p, DOMAIN p = ProposalFields, ProposalTyped(p)
        PROVE  /\ \A run : ProposalTyped([p EXCEPT !.run = run])
               /\ \A got : DOMAIN got \subseteq Proposed!Priced => ProposalTyped([p EXCEPT !.got = got])
    BY <1>3 DEF ProposalFields, ProposalTyped
  <1>4. /\ \A outcome \in {"error", "told"} :
              ProposalTyped(Proposed!End(outcome)) /\ DOMAIN Proposed!End(outcome) = ProposalFields
        /\ \A what, network :
              ProposalTyped(Proposed!Propose(what, network)) /\ DOMAIN Proposed!Propose(what, network) = ProposalFields
    BY <1>2 DEF ProposalFields, ProposalTyped, Proposed!End, Proposed!Propose
  <1>5. ASSUME NEW ask \in ProposalAsks, Proposed!Begin(ask)
        PROVE  ProposalTyped(proposal')
    BY <1>5 DEF Proposed!Begin, Proposed!Idle, ProposalTyped
  <1>6. ASSUME Proposed!DecimalsAnswer
        PROVE  ProposalTyped(proposal')
    <2>1. \/ proposal' = Proposed!End("error")
          \/ \E decimals : proposal' = [proposal EXCEPT !.pc = "previewing", !.decimals = decimals]
      BY <1>6 DEF Proposed!DecimalsAnswer
    <2>2. CASE proposal' = Proposed!End("error")
      BY <1>4, <2>2 DEF ProposalTyped
    <2>3. ASSUME NEW decimals, proposal' = [proposal EXCEPT !.pc = "previewing", !.decimals = decimals]
          PROVE  ProposalTyped(proposal')
      BY <1>2, <2>3 DEF ProposalTyped, ProposalFields
    <2> QED
      BY <2>1, <2>2, <2>3
  <1>7. ASSUME Proposed!PreviewAnswers
        PROVE  ProposalTyped(proposal')
    <2> DEFINE built == Proposed!Built(proposal.ask, proposal.decimals)
               next == Proposed!Propose(built, Proposed!Network(proposal.ask))
    <2>1. \E run : \/ proposal' = [Proposed!End("error") EXCEPT !.run = run]
                   \/ proposal' = [Proposed!End("told") EXCEPT !.run = run]
                   \/ proposal' = [next EXCEPT !.run = run]
      <3> HIDE DEF built
      <3> QED
        BY <1>7 DEF Proposed!PreviewAnswers, built
    <2>2. /\ ProposalTyped(Proposed!End("error")) /\ DOMAIN Proposed!End("error") = ProposalFields
          /\ ProposalTyped(Proposed!End("told")) /\ DOMAIN Proposed!End("told") = ProposalFields
          /\ ProposalTyped(next) /\ DOMAIN next = ProposalFields
      BY <1>4
    <2> HIDE DEF next
    <2>3. ASSUME NEW p, DOMAIN p = ProposalFields, ProposalTyped(p), \E run : proposal' = [p EXCEPT !.run = run]
          PROVE  ProposalTyped(proposal')
      BY <2>3 DEF ProposalTyped, ProposalFields
    <2> QED
      BY <2>1, <2>2, <2>3
  <1>8. ASSUME NEW rpc \in Proposed!Priced, Proposed!EvmAnswers(rpc)
        PROVE  ProposalTyped(proposal')
    <2>1. \E got : /\ DOMAIN got = DOMAIN proposal.got \cup {rpc}
                   /\ \/ \E outcome \in {"error", "told"} : proposal' = [Proposed!End(outcome) EXCEPT !.got = got]
                      \/ \E what, network : proposal' = [Proposed!Propose(what, network) EXCEPT !.got = got]
                      \/ proposal' = [proposal EXCEPT !.got = got]
      BY <1>8 DEF Proposed!EvmAnswers, Proposed!With
    <2>2. DOMAIN proposal.got \cup {rpc} \subseteq Proposed!Priced
      BY <1>2 DEF ProposalTyped
    <2> QED
      BY SMTT(40), <1>2, <1>3, <1>4, <2>1, <2>2
  <1>9. ASSUME UNCHANGED Proposed!vars
        PROVE  ProposalTyped(proposal')
    BY <1>2, <1>9 DEF ProposalTyped, Proposed!vars
  <1>10. ProposalTyped(proposal')
    BY <1>5, <1>6, <1>7, <1>8, <1>9 DEF Proposed!Next
  <1> QED
    BY SMTT(40), <1>1, <1>10 DEF ProposalInv, ProposalTyped, Proposed!TypeOK

-----------------------------------------------------------------------------
(* The parameters of a contract call.  The recursive definitions of        *)
(* ContractParams are functions over the levels of nesting, so that what   *)
(* they hold and give is proved by induction over those.                   *)

\* Nodes over some arguments, and what an argument or a parameter of one more level is.
Over(S) == [kind : Params!Kinds, value : Params!Values, kids : Seq(S)]
Below(levels, f) == IF levels = 0 THEN {} ELSE f[levels - 1]
Parameters(S) ==
    Params!CanonicalLeaves \cup [kind : {"Array"}, value : {""}, kids : Seq(S)]
        \cup [kind : {"Map"}, value : {""}, kids : {kids \in Seq(S) : Params!KeysAccepted(kids)}]

LEMMA DepthTyped == MaxParameterDepth \in Nat
  BY PartsConstants DEF Params!ConstantsOK

\* The recursive definition of the arguments is one: its function exists.
LEMMA ArgumentIs ==
    Params!Argument = [l \in 0 .. MaxParameterDepth |-> Over(Below(l, Params!Argument))]
  <1> DEFINE N == MaxParameterDepth
             Built(f, k) == f = [l \in 0 .. k |-> Over(Below(l, f))]
             T == {k \in Nat : \E f : Built(f, k)}
  <1>1. 0 \in T
    <2> DEFINE f == [l \in 0 .. 0 |-> Over({})]
    <2>1. \A l \in 0 .. 0 : Over(Below(l, f)) = Over({})
      BY DEF Below
    <2>2. Built(f, 0)
      BY <2>1
    <2> QED
      BY <2>2
  <1>2. ASSUME NEW k \in Nat, k \in T
        PROVE  k + 1 \in T
    <2>1. PICK f : Built(f, k)
      BY <1>2
    <2> DEFINE g == [l \in 0 .. k + 1 |-> IF l = k + 1 THEN Over(f[k]) ELSE f[l]]
    <2>2. ASSUME NEW l \in 0 .. k + 1
          PROVE  g[l] = Over(Below(l, g))
      <3>1. CASE l = k + 1
        BY <3>1 DEF Below
      <3>2. CASE l # k + 1
        <4>1. l \in 0 .. k /\ g[l] = f[l] /\ f[l] = Over(Below(l, f))
          BY <2>1, <3>2
        <4>2. l # 0 => l - 1 \in 0 .. k + 1 /\ l - 1 # k + 1
          BY <3>2
        <4>3. Below(l, g) = Below(l, f)
          BY <4>1, <4>2 DEF Below
        <4> QED
          BY <4>1, <4>3
      <3> QED
        BY <3>1, <3>2
    <2>3. g = [l \in 0 .. k + 1 |-> g[l]]
      OBVIOUS
    <2> HIDE DEF g
    <2>4. Built(g, k + 1)
      BY <2>2, <2>3
    <2> QED
      BY <2>4
  <1> HIDE DEF T
  <1>3. N \in T
    BY <1>1, <1>2, DepthTyped, Induction
  <1>4. PICK f : Built(f, N)
    BY <1>3 DEF T
  <1>5. f = [levels \in 0 .. N |->
                [kind : Params!Kinds, value : Params!Values, kids : Seq(IF levels = 0 THEN {} ELSE f[levels - 1])]]
    BY <1>4 DEF Over, Below
  <1>6. Params!Argument = [levels \in 0 .. N |->
            [kind : Params!Kinds, value : Params!Values, kids : Seq(IF levels = 0 THEN {} ELSE Params!Argument[levels - 1])]]
    BY <1>5 DEF Params!Argument
  <1> QED
    BY <1>6 DEF Over, Below

LEMMA OverGrows ==
    ASSUME NEW S, NEW R, S \subseteq R
    PROVE  Over(S) \subseteq Over(R) /\ Parameters(S) \subseteq Parameters(R) /\ Seq(S) \subseteq Seq(R)
  <1>1. Seq(S) \subseteq Seq(R)
    OBVIOUS
  <1>2. [kind : {"Map"}, value : {""}, kids : {kids \in Seq(S) : Params!KeysAccepted(kids)}]
          \subseteq [kind : {"Map"}, value : {""}, kids : {kids \in Seq(R) : Params!KeysAccepted(kids)}]
    BY <1>1
  <1>3. [kind : {"Array"}, value : {""}, kids : Seq(S)] \subseteq [kind : {"Array"}, value : {""}, kids : Seq(R)]
    BY <1>1
  <1>4. Over(S) \subseteq Over(R)
    BY <1>1 DEF Over
  <1> QED
    BY <1>1, <1>2, <1>3, <1>4 DEF Parameters

LEMMA RecordsGrow ==
    ASSUME NEW K, NEW U, NEW C, NEW L, NEW W, NEW D, K \subseteq L, U \subseteq W, C \subseteq D
    PROVE  [kind : K, value : U, kids : C] \subseteq [kind : L, value : W, kids : D]
  OBVIOUS

LEMMA ParametersAre ==
    ASSUME NEW S
    PROVE  Parameters(S) \subseteq Over(S)
  <1>1. <<>> \in Seq(S)
    OBVIOUS
  <1>2. Params!CanonicalLeaves \subseteq Over(S)
    <2> USE DEF Params!Kinds, Params!Values, Params!MapKeyTypes, Params!Decimals, Params!Strings, Params!HashTexts,
                Params!Keys256, Params!Booleans
    <2>1. /\ Params!Decimals \subseteq Params!Values /\ Params!Strings \subseteq Params!Values
          /\ Params!Booleans \subseteq Params!Values /\ {"null"} \subseteq Params!Values
          /\ {"hash"} \subseteq Params!Values /\ {"key"} \subseteq Params!Values /\ {"base64"} \subseteq Params!Values
      OBVIOUS
    <2>2. /\ {"Any"} \subseteq Params!Kinds /\ {"Integer"} \subseteq Params!Kinds /\ {"Hash160"} \subseteq Params!Kinds
          /\ {"String"} \subseteq Params!Kinds /\ {"Boolean"} \subseteq Params!Kinds
          /\ {"ByteArray"} \subseteq Params!Kinds /\ {"Hash256", "PublicKey"} \subseteq Params!Kinds
      OBVIOUS
    <2>3. \A K, U : K \subseteq Params!Kinds /\ U \subseteq Params!Values =>
             [kind : K, value : U, kids : {<<>>}] \subseteq Over(S)
      BY <1>1, RecordsGrow DEF Over
    <2> HIDE DEF Params!Kinds, Params!Values, Params!MapKeyTypes, Params!Decimals, Params!Strings, Params!HashTexts,
                 Params!Keys256, Params!Booleans
    <2> QED
      BY <2>1, <2>2, <2>3 DEF Params!CanonicalLeaves
  <1>3. {"Array"} \subseteq Params!Kinds /\ {"Map"} \subseteq Params!Kinds /\ {""} \subseteq Params!Values
    BY DEF Params!Kinds, Params!Values
  <1>4. [kind : {"Array"}, value : {""}, kids : Seq(S)] \subseteq Over(S)
    BY <1>3, RecordsGrow DEF Over
  <1>5. [kind : {"Map"}, value : {""}, kids : {kids \in Seq(S) : Params!KeysAccepted(kids)}] \subseteq Over(S)
    BY <1>3, RecordsGrow DEF Over
  <1> QED
    BY <1>2, <1>4, <1>5 DEF Parameters

\* So is that of the parameters, which are arguments of their level.
LEMMA ParameterIs ==
    Params!FormattedContractParameter
        = [l \in 0 .. MaxParameterDepth |-> Parameters(Below(l, Params!FormattedContractParameter))]
  <1> DEFINE N == MaxParameterDepth
             Built(f, k) == f = [l \in 0 .. k |-> Parameters(Below(l, f))]
             T == {k \in Nat : \E f : Built(f, k)}
  <1>1. 0 \in T
    <2> DEFINE f == [l \in 0 .. 0 |-> Parameters({})]
    <2>1. \A l \in 0 .. 0 : Parameters(Below(l, f)) = Parameters({})
      BY DEF Below
    <2>2. Built(f, 0)
      BY <2>1
    <2> QED
      BY <2>2
  <1>2. ASSUME NEW k \in Nat, k \in T
        PROVE  k + 1 \in T
    <2>1. PICK f : Built(f, k)
      BY <1>2
    <2> DEFINE g == [l \in 0 .. k + 1 |-> IF l = k + 1 THEN Parameters(f[k]) ELSE f[l]]
    <2>2. ASSUME NEW l \in 0 .. k + 1
          PROVE  g[l] = Parameters(Below(l, g))
      <3>1. CASE l = k + 1
        BY <3>1 DEF Below
      <3>2. CASE l # k + 1
        <4>1. l \in 0 .. k /\ g[l] = f[l] /\ f[l] = Parameters(Below(l, f))
          BY <2>1, <3>2
        <4>2. l # 0 => l - 1 \in 0 .. k + 1 /\ l - 1 # k + 1
          BY <3>2
        <4>3. Below(l, g) = Below(l, f)
          BY <4>1, <4>2 DEF Below
        <4> QED
          BY <4>1, <4>3
      <3> QED
        BY <3>1, <3>2
    <2>3. g = [l \in 0 .. k + 1 |-> g[l]]
      OBVIOUS
    <2> HIDE DEF g
    <2>4. Built(g, k + 1)
      BY <2>2, <2>3
    <2> QED
      BY <2>4
  <1> HIDE DEF T
  <1>3. N \in T
    BY <1>1, <1>2, DepthTyped, Induction
  <1>4. PICK f : Built(f, N)
    BY <1>3 DEF T
  <1>5. Params!FormattedContractParameter = CHOOSE g : Built(g, N)
    BY DEF Params!FormattedContractParameter, Parameters, Below
  <1> QED
    BY <1>4, <1>5

LEMMA ParametersAmong ==
    ASSUME NEW l \in 0 .. MaxParameterDepth
    PROVE  Params!FormattedContractParameter[l] \subseteq Params!Argument[l]
  <1> DEFINE A == Params!Argument
             P == Params!FormattedContractParameter
             T == {k \in Nat : k <= MaxParameterDepth => P[k] \subseteq A[k]}
  <1>1. \A k \in 0 .. MaxParameterDepth : A[k] = Over(Below(k, A)) /\ P[k] = Parameters(Below(k, P))
    BY ArgumentIs, ParameterIs
  <1> HIDE DEF A, P
  <1>2. 0 \in T
    BY <1>1, ParametersAre, DepthTyped DEF Below
  <1>3. ASSUME NEW k \in Nat, k \in T
        PROVE  k + 1 \in T
    <2>1. SUFFICES ASSUME k + 1 <= MaxParameterDepth
                   PROVE  P[k + 1] \subseteq A[k + 1]
      OBVIOUS
    <2>2. P[k] \subseteq A[k]
      BY <1>3, <2>1, DepthTyped
    <2>3. P[k + 1] = Parameters(P[k]) /\ A[k + 1] = Over(A[k])
      BY <1>1, <2>1, DepthTyped DEF Below
    <2> QED
      BY <2>2, <2>3, ParametersAre, OverGrows
  <1> HIDE DEF T
  <1>4. l \in T
    BY <1>2, <1>3, DepthTyped, Induction
  <1> QED
    BY <1>4, DepthTyped DEF T, A, P

LEMMA ParametersGrow ==
    ASSUME NEW l \in 1 .. MaxParameterDepth
    PROVE  Params!FormattedContractParameter[l - 1] \subseteq Params!FormattedContractParameter[l]
  <1> DEFINE P == Params!FormattedContractParameter
             T == {k \in Nat : k + 1 <= MaxParameterDepth => P[k] \subseteq P[k + 1]}
  <1>1. \A k \in 0 .. MaxParameterDepth : P[k] = Parameters(Below(k, P))
    BY ParameterIs
  <1> HIDE DEF P
  <1>2. 0 \in T
    <2>1. SUFFICES ASSUME 1 <= MaxParameterDepth
                   PROVE  P[0] \subseteq P[1]
      OBVIOUS
    <2>2. P[0] = Parameters({}) /\ P[1] = Parameters(P[0])
      BY <1>1, <2>1, DepthTyped DEF Below
    <2> QED
      BY <2>2, OverGrows
  <1>3. ASSUME NEW k \in Nat, k \in T
        PROVE  k + 1 \in T
    <2>1. SUFFICES ASSUME k + 2 <= MaxParameterDepth
                   PROVE  P[k + 1] \subseteq P[k + 2]
      BY DepthTyped
    <2>2. k + 1 <= MaxParameterDepth
      BY <2>1, DepthTyped
    <2>3. P[k] \subseteq P[k + 1]
      BY <1>3, <2>2
    <2>4. P[k + 1] = Parameters(P[k]) /\ P[k + 2] = Parameters(P[k + 1])
      BY <1>1, <2>1, DepthTyped DEF Below
    <2> QED
      <3>1. Parameters(P[k]) \subseteq Parameters(P[k + 1])
        BY <2>3, OverGrows
      <3> QED
        BY <2>4, <3>1
  <1> HIDE DEF T
  <1>4. l - 1 \in T
    BY <1>2, <1>3, DepthTyped, Induction
  <1> QED
    BY <1>4, DepthTyped DEF T, P

LEMMA ArgumentParts ==
    ASSUME NEW l \in 0 .. MaxParameterDepth, NEW argument \in Params!Argument[l]
    PROVE  /\ argument.kind \in Params!Kinds /\ argument.value \in Params!Values
           /\ argument = Params!Node(argument.kind, argument.value, argument.kids)
           /\ argument.kids \in Seq(Below(l, Params!Argument))
           /\ l = 0 => argument.kids = <<>>
  <1>1. argument \in Over(Below(l, Params!Argument))
    BY ArgumentIs
  <1>2. argument.kids \in Seq(Below(l, Params!Argument))
    BY <1>1 DEF Over
  <1>3. l = 0 => argument.kids = <<>>
    BY <1>2 DEF Below
  <1> QED
    BY <1>1, <1>2, <1>3 DEF Over, Params!Node

\* What becomes of the kids of an argument, and of the argument.
FormattedKids(levels, f, argument) ==
    [i \in DOMAIN argument.kids |->
        IF argument.kind = "object" /\ i % 2 = 1
        THEN Params!Leaf("String", Params!Only(Params!Strings, argument.kids[i].value))
        ELSE f[levels - 1][argument.kids[i]]]
FormattedNode(levels, f, argument) ==
    Params!FormatNode(argument.kind, argument.value, FormattedKids(levels, f, argument))

LEMMA FormatIs ==
    Params!FormatContractParameter
        = [l \in 0 .. MaxParameterDepth |->
              [argument \in Params!Argument[l] |-> FormattedNode(l, Params!FormatContractParameter, argument)]]
  <1> DEFINE N == MaxParameterDepth
             A == Params!Argument
             Level(l, f) == [argument \in A[l] |-> FormattedNode(l, f, argument)]
             Built(f, k) == f = [l \in 0 .. k |-> Level(l, f)]
             T == {k \in Nat : k <= N => \E f : Built(f, k)}
  <1>1. ASSUME NEW f, NEW g, NEW l \in 0 .. N, l # 0 => f[l - 1] = g[l - 1]
        PROVE  Level(l, f) = Level(l, g)
    <2>1. ASSUME NEW argument \in A[l]
          PROVE  FormattedKids(l, f, argument) = FormattedKids(l, g, argument)
      <3>1. CASE l = 0
        <4>1. argument.kids = <<>>
          BY <3>1, ArgumentParts
        <4> QED
          BY <4>1 DEF FormattedKids
      <3>2. CASE l # 0
        BY <1>1, <3>2 DEF FormattedKids
      <3> QED
        BY <3>1, <3>2
    <2> QED
      BY <2>1 DEF FormattedNode
  <1> HIDE DEF Level, A
  <1>2. 0 \in T
    <2> DEFINE f == [l \in 0 .. 0 |-> Level(0, <<>>)]
    <2>1. \A l \in 0 .. 0 : Level(l, f) = Level(0, <<>>)
      BY <1>1, DepthTyped
    <2>2. Built(f, 0)
      BY <2>1
    <2> QED
      BY <2>2
  <1>3. ASSUME NEW k \in Nat, k \in T
        PROVE  k + 1 \in T
    <2>0. SUFFICES ASSUME k + 1 <= N
                   PROVE  \E f : Built(f, k + 1)
      OBVIOUS
    <2>1. PICK f : Built(f, k)
      BY <1>3, <2>0, DepthTyped
    <2> DEFINE g == [l \in 0 .. k + 1 |-> IF l = k + 1 THEN Level(k + 1, f) ELSE f[l]]
    <2>2. ASSUME NEW l \in 0 .. k + 1
          PROVE  g[l] = Level(l, g)
      <3>1. l \in 0 .. N /\ (l # 0 => l - 1 \in 0 .. k + 1 /\ l - 1 # k + 1)
        BY <2>0, DepthTyped
      <3>2. l # 0 => g[l - 1] = f[l - 1]
        BY <3>1
      <3>3. Level(l, g) = Level(l, f)
        BY <1>1, <3>1, <3>2
      <3>4. CASE l = k + 1
        BY <3>3, <3>4
      <3>5. CASE l # k + 1
        <4>1. l \in 0 .. k /\ g[l] = f[l] /\ f[l] = Level(l, f)
          BY <2>1, <3>5
        <4> QED
          BY <3>3, <4>1
      <3> QED
        BY <3>4, <3>5
    <2>3. g = [l \in 0 .. k + 1 |-> g[l]]
      OBVIOUS
    <2> HIDE DEF g
    <2>4. Built(g, k + 1)
      BY <2>2, <2>3
    <2> QED
      BY <2>4
  <1> HIDE DEF T
  <1>4. N \in T
    BY <1>2, <1>3, DepthTyped, Induction
  <1>5. PICK f : Built(f, N)
    BY <1>4, DepthTyped DEF T
  <1>6. Params!FormatContractParameter = CHOOSE g : Built(g, N)
    BY DEF Params!FormatContractParameter, Level, A, FormattedNode, FormattedKids
  <1> QED
    BY <1>5, <1>6 DEF Level, A

LEMMA FormatsTo ==
    ASSUME NEW l \in 0 .. MaxParameterDepth, NEW argument \in Params!Argument[l]
    PROVE  Params!FormatContractParameter[l][argument]
              = Params!FormatNode(argument.kind, argument.value,
                                  FormattedKids(l, Params!FormatContractParameter, argument))
  <1> DEFINE A == Params!Argument
             F == Params!FormatContractParameter
  <1>1. F = [k \in 0 .. MaxParameterDepth |-> [a \in A[k] |-> FormattedNode(k, F, a)]]
    BY FormatIs
  <1> HIDE DEF A, F
  <1>2. F[l] = [a \in A[l] |-> FormattedNode(l, F, a)]
    BY <1>1
  <1>3. argument \in A[l]
    BY DEF A
  <1>4. F[l][argument] = FormattedNode(l, F, argument)
    BY <1>2, <1>3
  <1> QED
    BY <1>4 DEF FormattedNode, F

\* A leaf that was formatted is a canonical one, or refused.
LEMMA LeavesFormatted ==
    ASSUME NEW kind, NEW value, NEW kids
    PROVE  /\ Params!Leaf("String", Params!Only(Params!Strings, value)) \in Params!CanonicalLeaves \cup {Params!Refused}
           /\ kind \notin {"array", "Array", "object", "Map", "toJson"} =>
                 Params!FormatNode(kind, value, kids) \in Params!CanonicalLeaves \cup {Params!Refused}
  <1> DEFINE C == Params!CanonicalLeaves \cup {Params!Refused}
  <1> USE DEF Params!Leaf, Params!Node, Params!Invalid
  <1>1. Params!Invalid \notin Params!Strings \cup Params!Booleans
    BY DEF Params!Strings, Params!Booleans, Params!HashTexts, Params!Decimals, Params!Keys256
  <1>2. Params!Leaf("Any", "null") \in C /\ \A v : Params!Leaf("Any", Params!Only({"null"}, v)) \in C
    BY DEF Params!CanonicalLeaves, Params!Only
  <1>3. \A v : Params!Leaf("Integer", Params!NormalizeInteger(v)) \in C
    BY DEF Params!CanonicalLeaves, Params!NormalizeInteger, Params!Decimals
  <1>4. \A v : Params!Leaf("Hash160", Params!NormalizeHash160(v)) \in C
    BY DEF Params!CanonicalLeaves, Params!NormalizeHash160
  <1>5. \A v : Params!Leaf("String", Params!Only(Params!Strings, v)) \in C
    BY DEF Params!CanonicalLeaves, Params!Only
  <1>6. \A v : Params!Leaf("Hash256", Params!NormalizeHex(v)) \in C /\ Params!Leaf("PublicKey", Params!NormalizeHex(v)) \in C
    BY DEF Params!CanonicalLeaves, Params!NormalizeHex
  <1>7. \A v : Params!Leaf("Boolean", Params!Only(Params!Booleans, v)) \in C
    BY DEF Params!CanonicalLeaves, Params!Only
  <1>8. Params!Leaf("ByteArray", "base64") \in C /\ \A v : Params!Leaf("ByteArray", Params!Only({"base64"}, v)) \in C
    BY DEF Params!CanonicalLeaves, Params!Only
  <1>9. Params!FormatString(value) \in C
    BY <1>4, <1>5 DEF Params!FormatString
  <1> HIDE DEF C, Params!Leaf, Params!Node
  <1>10. Params!Refused \in C
    BY DEF C
  <1> QED
    <2>1. kind \notin {"array", "Array", "object", "Map", "toJson"} => Params!FormatNode(kind, value, kids) \in C
      BY <1>2, <1>3, <1>4, <1>5, <1>6, <1>7, <1>8, <1>9, <1>10 DEF Params!FormatNode
    <2> QED
      BY <1>5, <2>1 DEF C

\* A node over formatted kids is a parameter, or one of them, or refused.
LEMMA NodeFormatted ==
    ASSUME NEW kind, NEW value, NEW S, NEW kids \in Seq(S \cup {Params!Refused})
    PROVE  Params!FormatNode(kind, value, kids) \in Parameters(S) \cup S \cup {Params!Refused}
  <1> DEFINE whole == \A i \in DOMAIN kids : kids[i] # Params!Refused
  <1>1. whole => kids \in Seq(S)
    OBVIOUS
  <1>2. whole => Params!Node("Array", "", kids) \in Parameters(S)
    BY <1>1 DEF Params!Node, Parameters
  <1>3. whole /\ Params!KeysAccepted(kids) => Params!Node("Map", "", kids) \in Parameters(S)
    BY <1>1 DEF Params!Node, Parameters
  <1>4. Len(kids) = 1 => kids[1] \in S \cup {Params!Refused}
    OBVIOUS
  <1>5. CASE kind \notin {"array", "Array", "object", "Map", "toJson"}
    BY <1>5, LeavesFormatted DEF Parameters
  <1>6. CASE kind \in {"array", "Array"}
    <2>1. Params!FormatNode(kind, value, kids) \in {Params!Node("Array", "", kids), Params!Refused}
          /\ (~whole => Params!FormatNode(kind, value, kids) = Params!Refused)
      BY <1>6 DEF Params!FormatNode
    <2> QED
      BY <1>2, <2>1
  <1>7. CASE kind \in {"object", "Map"}
    <2>1. Params!FormatNode(kind, value, kids) \in {Params!Node("Map", "", kids), Params!Refused}
          /\ (~(whole /\ Params!KeysAccepted(kids)) => Params!FormatNode(kind, value, kids) = Params!Refused)
      BY <1>7 DEF Params!FormatNode
    <2> QED
      BY <1>3, <2>1
  <1>8. CASE kind = "toJson"
    <2>1. \/ Len(kids) = 1 /\ Params!FormatNode(kind, value, kids) = kids[1]
          \/ Params!FormatNode(kind, value, kids) = Params!Refused
      BY <1>8 DEF Params!FormatNode
    <2> QED
      BY <1>4, <2>1
  <1> QED
    BY <1>5, <1>6, <1>7, <1>8

\* Formatting makes parameters of arguments of whatever depth it admits.
LEMMA FormattedCanonical ==
    ASSUME NEW l \in 0 .. MaxParameterDepth, NEW argument \in Params!Argument[l]
    PROVE  Params!FormatContractParameter[l][argument]
              \in Params!FormattedContractParameter[l] \cup {Params!Refused}
  <1> DEFINE N == MaxParameterDepth
             A == Params!Argument
             P == Params!FormattedContractParameter
             F == Params!FormatContractParameter
             Done(k) == \A a \in A[k] : F[k][a] \in P[k] \cup {Params!Refused}
             T == {k \in Nat : k <= N => Done(k)}
  <1>1. ASSUME NEW k \in 0 .. N, NEW a \in A[k]
        PROVE  F[k][a] = Params!FormatNode(a.kind, a.value, FormattedKids(k, F, a))
    BY FormatsTo
  <1>2. \A k \in 0 .. N : P[k] = Parameters(Below(k, P))
    BY ParameterIs
  <1>3. ASSUME NEW k \in 0 .. N, k # 0 => Done(k - 1)
        PROVE  Done(k)
    <2> SUFFICES ASSUME NEW a \in A[k]
                 PROVE  F[k][a] \in P[k] \cup {Params!Refused}
      OBVIOUS
    <2> DEFINE S == Below(k, P)
    <2>1. a.kids \in Seq(Below(k, A)) /\ (k = 0 => a.kids = <<>>)
      BY ArgumentParts
    <2>2. ASSUME NEW i \in DOMAIN a.kids
          PROVE  FormattedKids(k, F, a)[i] \in S \cup {Params!Refused}
      <3>1. k # 0 /\ k - 1 \in 0 .. N /\ a.kids[i] \in A[k - 1] /\ S = P[k - 1]
        BY <2>1, DepthTyped DEF Below
      <3>2. Params!CanonicalLeaves \subseteq P[k - 1]
        BY <1>2, <3>1 DEF Parameters
      <3>3. F[k - 1][a.kids[i]] \in P[k - 1] \cup {Params!Refused}
        BY <1>3, <3>1
      <3> QED
        BY <3>1, <3>2, <3>3, LeavesFormatted DEF FormattedKids
    <2>3. FormattedKids(k, F, a) \in Seq(S \cup {Params!Refused})
      <3> DEFINE kids == FormattedKids(k, F, a)
                 n == Len(a.kids)
      <3>1. n \in Nat /\ DOMAIN a.kids = 1 .. n /\ kids = [i \in 1 .. n |-> kids[i]]
        BY <2>1 DEF FormattedKids
      <3>2. \A i \in 1 .. n : kids[i] \in S \cup {Params!Refused}
        BY <2>2, <3>1
      <3> HIDE DEF kids, n, S
      <3>3. kids \in Seq(S \cup {Params!Refused})
        BY <3>1, <3>2
      <3> QED
        BY <3>3 DEF kids
    <2>4. F[k][a] \in Parameters(S) \cup S \cup {Params!Refused}
      BY <1>1, <2>3, NodeFormatted
    <2>5. S \subseteq P[k]
      BY ParametersGrow, DepthTyped DEF Below
    <2> QED
      BY <1>2, <2>4, <2>5
  <1> HIDE DEF Done
  <1>4. 0 \in T
    BY <1>3, DepthTyped
  <1>5. ASSUME NEW k \in Nat, k \in T
        PROVE  k + 1 \in T
    BY <1>3, <1>5, DepthTyped
  <1> HIDE DEF T
  <1>6. l \in T
    BY <1>4, <1>5, DepthTyped, Induction
  <1> QED
    BY <1>6, DepthTyped DEF T, Done

LEMMA SeqParts ==
    ASSUME NEW S, NEW s \in Seq(S)
    PROVE  s = [i \in DOMAIN s |-> s[i]] /\ \A i \in DOMAIN s : s[i] \in S
  OBVIOUS

\* What is canonical stays as it is.
LEMMA LeavesKept ==
    ASSUME NEW p \in Params!CanonicalLeaves
    PROVE  /\ p # Params!Refused /\ p.kids = <<>> /\ p.kind # "object"
           /\ Params!FormatNode(p.kind, p.value, <<>>) = p
  <1>1. \/ p.kind = "Any" /\ p.value = "null"
        \/ p.kind = "Integer" /\ p.value \in Params!Decimals
        \/ p.kind = "Hash160" /\ p.value = "hash"
        \/ p.kind = "String" /\ p.value \in Params!Strings
        \/ p.kind \in {"Hash256", "PublicKey"} /\ p.value = "key"
        \/ p.kind = "Boolean" /\ p.value \in Params!Booleans
        \/ p.kind = "ByteArray" /\ p.value = "base64"
    BY DEF Params!CanonicalLeaves
  <1>2. p.kids = <<>> /\ p = Params!Node(p.kind, p.value, <<>>)
    BY DEF Params!CanonicalLeaves, Params!Node
  <1>3. p.value # Params!Invalid
    BY <1>1 DEF Params!Invalid, Params!Decimals, Params!Strings, Params!Booleans, Params!HashTexts, Params!Keys256
  <1>4. p # Params!Refused
    BY <1>3 DEF Params!Refused, Params!Node
  <1>5. Params!Leaf(p.kind, p.value) = p
    BY <1>2, <1>3 DEF Params!Leaf
  <1>6. p.kind = "Integer" => Params!NormalizeInteger(p.value) = p.value
    <2>1. p.kind = "Integer" => p.value \in Params!Decimals
      BY <1>1
    <2> QED
      BY <2>1 DEF Params!NormalizeInteger, Params!Decimals
  <1>7. Params!FormatNode(p.kind, p.value, <<>>) = Params!Leaf(p.kind, p.value)
    BY <1>1, <1>6 DEF Params!FormatNode, Params!Only, Params!NormalizeHash160, Params!NormalizeHex, Params!HashTexts,
                      Params!Keys256
  <1> QED
    BY <1>1, <1>2, <1>4, <1>5, <1>7

LEMMA CanonicalKept ==
    ASSUME NEW l \in 0 .. MaxParameterDepth, NEW p \in Params!FormattedContractParameter[l]
    PROVE  p \in Params!Argument[l] /\ p # Params!Refused /\ Params!FormatContractParameter[l][p] = p
  <1> DEFINE N == MaxParameterDepth
             A == Params!Argument
             P == Params!FormattedContractParameter
             F == Params!FormatContractParameter
             Done(k) == \A q \in P[k] : F[k][q] = q /\ q # Params!Refused
             T == {k \in Nat : k <= N => Done(k)}
  <1>1. \A k \in 0 .. N : P[k] \subseteq A[k]
    BY ParametersAmong
  <1>2. ASSUME NEW k \in 0 .. N, k # 0 => Done(k - 1)
        PROVE  Done(k)
    <2> SUFFICES ASSUME NEW q \in P[k]
                 PROVE  F[k][q] = q /\ q # Params!Refused
      OBVIOUS
    <2> DEFINE S == Below(k, P)
    <2>1. q \in Parameters(S) /\ q \in A[k]
      BY <1>1, ParameterIs
    <2>2. F[k][q] = Params!FormatNode(q.kind, q.value, FormattedKids(k, F, q))
      BY <2>1, FormatsTo
    <2>3. CASE q \in Params!CanonicalLeaves
      <3>1. q # Params!Refused /\ q.kids = <<>> /\ Params!FormatNode(q.kind, q.value, <<>>) = q
        BY <2>3, LeavesKept
      <3>2. FormattedKids(k, F, q) = <<>>
        BY <3>1 DEF FormattedKids
      <3> QED
        BY <2>2, <3>1, <3>2
    <2>4. CASE q \notin Params!CanonicalLeaves
      <3>1. /\ q.kind \in {"Array", "Map"} /\ q.kids \in Seq(S) /\ q = Params!Node(q.kind, "", q.kids)
            /\ (q.kind = "Map" => Params!KeysAccepted(q.kids))
        BY <2>1, <2>4 DEF Parameters, Params!Node
      <3>2. \A i \in DOMAIN q.kids : k # 0 /\ q.kids[i] \in P[k - 1]
        <4>1. k = 0 => q.kids = <<>>
          <5>1. k = 0 => q.kids \in Seq({})
            BY <3>1 DEF Below
          <5> QED
            BY <5>1
        <4>2. k # 0 => S = P[k - 1]
          BY DEF Below
        <4>3. \A i \in DOMAIN q.kids : q.kids[i] \in S
          BY <3>1, SeqParts
        <4> QED
          BY <4>1, <4>2, <4>3
      <3>3. \A i \in DOMAIN q.kids : F[k - 1][q.kids[i]] = q.kids[i] /\ q.kids[i] # Params!Refused
        BY <1>2, <3>2
      <3>4. FormattedKids(k, F, q) = q.kids
        <4>1. FormattedKids(k, F, q) = [i \in DOMAIN q.kids |-> F[k - 1][q.kids[i]]]
          BY <3>1 DEF FormattedKids
        <4>2. q.kids = [i \in DOMAIN q.kids |-> q.kids[i]]
          <5>1. q.kids \in Seq(S)
            BY <3>1
          <5> HIDE DEF S
          <5> QED
            BY ONLY <5>1, SeqParts
        <4> QED
          BY <3>3, <4>1, <4>2
      <3>5. Params!FormatNode(q.kind, q.value, q.kids) = Params!Node(q.kind, "", q.kids)
        BY <3>1, <3>3 DEF Params!FormatNode
      <3>6. q # Params!Refused
        <4>1. Params!Refused.kind = "refused"
          BY DEF Params!Refused, Params!Node
        <4> QED
          BY <3>1, <4>1
      <3> QED
        BY <2>2, <3>1, <3>4, <3>5, <3>6
    <2> QED
      BY <2>3, <2>4
  <1> HIDE DEF Done
  <1>3. 0 \in T
    BY <1>2, DepthTyped
  <1>4. ASSUME NEW k \in Nat, k \in T
        PROVE  k + 1 \in T
    BY <1>2, <1>4, DepthTyped
  <1> HIDE DEF T
  <1>5. l \in T
    BY <1>3, <1>4, DepthTyped, Induction
  <1> QED
    BY <1>1, <1>5, DepthTyped DEF T, Done

\* The state: arguments, and what comes of them once they were formatted.
ParamsInv ==
    \/ callParameters = Params!Unformatted
    \/ callParameters = Params!FormatContractParameters(callArguments)

LEMMA ParamsInitially == ASSUME Params!Init PROVE ParamsInv
  BY DEF Params!Init, ParamsInv

LEMMA ParamsInductive ==
    ASSUME ParamsInv, [Params!Format]_(Params!vars)
    PROVE  ParamsInv'
  BY DEF ParamsInv, Params!Format, Params!vars

\* Parameters of a call are those of the interface, and formatting leaves them alone.
LEMMA ParamsImply ==
    ASSUME ParamsInv
    PROVE  Params!FormattedIsCanonical
  <1> DEFINE N == MaxParameterDepth
             F == Params!FormatContractParameter[N]
             list == callArguments
  <1> SUFFICES ASSUME callParameters.accepted, NEW i \in DOMAIN callParameters.values
               PROVE  /\ callParameters.values[i] \in Params!FormattedContractParameter[N]
                      /\ F[callParameters.values[i]] = callParameters.values[i]
    BY DEF Params!FormattedIsCanonical
  <1>1. callParameters = Params!FormatContractParameters(list) /\ callParameters # Params!Unformatted
    BY DEF ParamsInv, Params!Unformatted
  <1>2. /\ \A k \in DOMAIN list : list[k] \in Params!Argument[N] /\ F[list[k]] # Params!Refused
        /\ callParameters.values = [k \in DOMAIN list |-> F[list[k]]]
    BY <1>1 DEF Params!FormatContractParameters
  <1>3. callParameters.values[i] = F[list[i]] /\ list[i] \in Params!Argument[N] /\ F[list[i]] # Params!Refused
    BY <1>2
  <1>4. F[list[i]] \in Params!FormattedContractParameter[N]
    BY <1>3, FormattedCanonical, DepthTyped
  <1> QED
    BY <1>3, <1>4, CanonicalKept, DepthTyped

-----------------------------------------------------------------------------
(* The whole.                                                              *)

PartsInv ==
    /\ IInv /\ HealthInv /\ EffectsInv /\ NamesInv /\ UnknownInv
    /\ SigningInv /\ AmountsInv /\ ParamsInv /\ RoutesInv /\ ReadsInv /\ ProposalInv /\ EncodingInv /\ EvmInv

LEMMA PartsInitially == PartsInit => PartsInv
  <1> SUFFICES ASSUME PartsInit
               PROVE  PartsInv
    OBVIOUS
  <1> QED
    BY PartsStart, Initially, TimesHold, HealthInitially, EffectsInitially, NamesInitially, UnknownInitially,
       SigningInitially, AmountsInitially, ParamsInitially, RoutesInitially, ReadsInitially, ProposalsInitially,
       EncodingInitially, EvmInitially DEF PartsInv

LEMMA PartsInductive ==
    ASSUME PartsInv, [PartsNext]_partsVars
    PROVE  PartsInv'
  <1>1. /\ [Next]_vars /\ [Http!Next]_(Http!vars) /\ [Contracts!Next]_(Contracts!vars)
        /\ [Preparation!Next]_(Preparation!vars) /\ [Chain!Next]_(Chain!vars)
        /\ [Params!Format]_(Params!vars) /\ [Dispatch!Next]_(Dispatch!vars)
        /\ [Proposed!Next]_(Proposed!vars) /\ [Evm!Next]_(Evm!vars)
    BY PartsMove
  <1>2. IInv'
    BY <1>1, Inductive DEF PartsInv
  <1>3. HealthInv' /\ EffectsInv'
    BY <1>1, TimesHold, HealthInductive, EffectsInductive DEF PartsInv
  <1>4. NamesInv' /\ UnknownInv'
    BY <1>1, TablesHold, NamesInductive, UnknownInductive DEF PartsInv
  <1>5. SigningInv' /\ ReadsInv'
    BY <1>1, SigningInductive, ReadsInductive DEF PartsInv
  <1>6. ProposalInv' /\ EvmInv'
    BY <1>1, ProposalInductive, EvmInductive DEF PartsInv
  <1>7. AmountsInv' /\ ParamsInv' /\ EncodingInv'
    BY <1>1, AmountsInductive, ParamsInductive, EncodingInductive DEF PartsInv
  <1>8. RoutesInv'
    BY <1>1, RoutesInductive DEF PartsInv
  <1> QED
    BY <1>2, <1>3, <1>4, <1>5, <1>6, <1>7, <1>8 DEF PartsInv

\* All the parts of the server keep their invariants together, one at work and the others
\* at rest: for any values of the constants of all of them.
THEOREM PartsInvariant == PartsSpec => []PartsInv
  <1>1. PartsInv /\ [PartsNext]_partsVars => PartsInv'
    BY PartsInductive
  <1> QED
    BY <1>1, PartsInitially, PTL DEF PartsSpec

\* The effects of either endpoint stay with those its configuration and the key he showed
\* entitle, and to the nodes of Neo X only reads leave: mcp-http-server.ts,
\* http-server.ts and evm-rpc-client.ts.
THEOREM Entitled == PartsSpec => []OnlyTheEntitled
  <1>1. PartsInv => OnlyTheEntitled
    BY EvmImplies DEF PartsInv, OnlyTheEntitled, IInv, EffectsInv
  <1> QED
    BY <1>1, PartsInvariant, PTL

\* What the health endpoint, the reads of a chain and the walk over the endpoints of
\* Neo X tell their callers is so: http-server.ts, neo-service.ts, neox-node-tools.ts and
\* evm-rpc-client.ts.
THEOREM ToldTrue == PartsSpec => []ToldIsTrue
  <1>1. PartsInv => ToldIsTrue
    BY EvmImplies, ReadsImply DEF PartsInv, ToldIsTrue, HealthInv, AnswerIsFresh
  <1> QED
    BY <1>1, PartsInvariant, PTL

\* Names of contracts lead where they were meant to and checked, and the names that are
\* remembered as unknown stay within their bound: contract-service.ts.
THEOREM NamesSound == PartsSpec => []NamesAreSound
  <1>1. PartsInv => NamesAreSound
    BY NamesImply, UnknownImplies DEF PartsInv, NamesAreSound
  <1> QED
    BY <1>1, PartsInvariant, PTL

\* What is signed here, and what is proposed to another wallet for its signature, is what
\* was asked for, was verified, and was run or paid for as it stands; and every amount,
\* fee and argument in it is exact: neo-service.ts, contract-service.ts,
\* proposal-tools.ts, transaction-preparation.ts and evm-abi.ts.
THEOREM SignedSound == PartsSpec => []SignedIsSound
  <1>1. PartsInv => SignedIsSound
    BY SigningImplies, AmountsImply, ParamsImply DEF PartsInv, SignedIsSound, ProposalInv, EncodingInv
  <1> QED
    BY <1>1, PartsInvariant, PTL

\* A call of a public tool reaches a handler on every chain its tool offers, which reads
\* every argument it is handed; it goes to the chain and the network that were asked for,
\* with nothing in it that is switched off, invalid or over a cap, and is refused for want
\* of a service, an endpoint or an argument only where the caller could have known:
\* index.ts, tool-handler.ts, the handlers and the catalogs agree.
THEOREM AskedSound == PartsSpec => []AskedAsOffered
  <1>1. PartsInv => AskedAsOffered
    BY DEF PartsInv, RoutesInv, AskedAsOffered
  <1> QED
    BY <1>1, PartsInvariant, PTL

LEMMA PartsTypedInitially == PartsInit => PartsTypeOK
  <1> SUFFICES ASSUME PartsInit
               PROVE  PartsTypeOK
    OBVIOUS
  <1>1. PartsInv
    BY PartsInitially
  <1>2. part \in Parts
    BY DEF PartsInit
  <1>3. /\ Http!Init /\ Contracts!Init /\ Preparation!Init /\ Dispatch!Init
        /\ Chain!Init /\ Proposed!Init
    BY PartsStart
  <1> QED
    BY <1>1, <1>2, <1>3, TimesHold, HttpTypedInitially, ContractsTypedInitially, PreparationTypedInitially,
       DispatchTypedInitially, ReadsTypedInitially, ProposalsTypedInitially DEF PartsInv, IInv, PartsTypeOK

LEMMA PartsStayTyped ==
    ASSUME PartsInv, PartsInv', PartsTypeOK, [PartsNext]_partsVars
    PROVE  PartsTypeOK'
  <1>1. /\ [Http!Next]_(Http!vars) /\ [Contracts!Next]_(Contracts!vars)
        /\ [Preparation!Next]_(Preparation!vars) /\ [Dispatch!Next]_(Dispatch!vars)
        /\ [Chain!Next]_(Chain!vars) /\ [Proposed!Next]_(Proposed!vars)
    BY PartsMove
  <1>2. part' \in Parts /\ TypeOK'
    <2>1. part' = part
      BY DEF PartsNext, partsVars, McpStep, HttpStep, ContractsStep, PreparationStep, ParamsStep, DispatchStep,
             ReadsStep, ProposalsStep, EvmStep
    <2> QED
      BY <2>1 DEF PartsInv, IInv, PartsTypeOK
  <1>3. Http!TypeOK' /\ Contracts!TypeOK'
    BY <1>1, TimesHold, TablesHold, HttpTyped, ContractsTyped DEF PartsInv, PartsTypeOK
  <1>4. Preparation!TypeOK' /\ Dispatch!TypeOK'
    BY <1>1, PreparationStaysTyped, DispatchTyped DEF PartsInv, PartsTypeOK
  <1>5. Chain!TypeOK' /\ Proposed!TypeOK'
    BY <1>1, ReadsTyped, ProposalsTyped DEF PartsInv, PartsTypeOK
  <1> QED
    BY <1>2, <1>3, <1>4, <1>5 DEF PartsTypeOK

\* Every variable of every part keeps its type: the forms of jobs, caches, answers and
\* outcomes, the statuses an answer may have, the ends a call of a tool comes to.
THEOREM PartsTyped == PartsSpec => []PartsTypeOK
  <1>1. PartsInv /\ PartsInv' /\ PartsTypeOK /\ [PartsNext]_partsVars => PartsTypeOK'
    BY PartsStayTyped
  <1> QED
    BY <1>1, PartsInvariant, PartsTypedInitially, PTL DEF PartsSpec

=============================================================================
