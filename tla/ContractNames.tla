---------------------------- MODULE ContractNames ----------------------------
(***************************************************************************)
(* Which contract a reference means: the resolution, the name caches and   *)
(* the reads and checks of src/src/contracts/contract-service.ts, with the *)
(* index it asks for names, src/src/contracts/n3index-client.ts.  Nothing  *)
(* in the caches expires but the names the index did not know.             *)
(***************************************************************************)
EXTENDS Naturals, FiniteSets, SequencesExt

CONSTANTS
    Hashes, NoHash,     \* contracts; no contract
    Bundled,            \* names of FAMOUS_CONTRACTS
    Home,               \* [Bundled -> the hash on this network, or NoHash]
    OtherNames, NoName,
    Manifest,           \* [Hashes -> the name in the manifest, or NoName]
    Invocations,        \* the calls of a behaviour
    negativeCacheMaxEntries

VARIABLES
    deployed,           \* the chain: contracts that exist
    magic,              \* TRUE once getversion answered with the right network
    discoveredContractsByName,
    remotelyResolvedContractsByName,
    negativeNameCache,  \* names the index did not know, oldest first
    nameRequests,       \* names being asked of the index
    invocation          \* [Invocations -> record]

chainVars == <<deployed, magic>>
indexVars == <<negativeNameCache, nameRequests>>
vars == <<chainVars, discoveredContractsByName, remotelyResolvedContractsByName, indexVars, invocation>>

Names == Bundled \cup OtherNames
References == Hashes \cup Names     \* an address stands for its hash

\* The tables are well-formed, and the constructor of the index client wants a limit of
\* at least one.
ConstantsOK ==
    /\ NoHash \notin Hashes
    /\ Home \in [Bundled -> Hashes \cup {NoHash}]
    /\ Manifest \in [Hashes -> Names \cup {NoName}]
    /\ negativeCacheMaxEntries \in Nat \ {0}

Kinds == {"query", "write", "status"}
NotCalled == [pc |-> "idle", kind |-> "query", reference |-> NoName, target |-> NoHash,
              checked |-> NoHash, live |-> {}, result |-> "none"]

-----------------------------------------------------------------------------
(* Resolution.                                                             *)

\* Deviation: a name seen in a manifest comes before the bundled ones.
ResolveDiscoveredFirst(reference) ==
    IF reference \in Hashes THEN reference
    ELSE IF discoveredContractsByName[reference] # NoHash THEN discoveredContractsByName[reference]
    ELSE IF reference \in Bundled THEN Home[reference]
    ELSE NoHash

\* resolveContractTarget(): hash or address, bundled name, discovered name.  A bundled
\* name without a hash on this network is not looked up among the discovered.
Resolve(reference) ==
    IF reference \in Hashes THEN reference
    ELSE IF reference \in Bundled THEN Home[reference]
    ELSE discoveredContractsByName[reference]

\* resolveContractTargetAsync() as far as it needs no request.
ResolveCached(reference) ==
    IF Resolve(reference) # NoHash \/ reference \in Hashes THEN Resolve(reference)
    ELSE remotelyResolvedContractsByName[reference]

\* Signed writes take no names.
Explicit(kind, reference) == kind = "write" => reference \in Hashes

\* buildOperationSummary() and validateContractOperation(): a bundled contract allows
\* its own operations, any other contract every operation.
OperationAllowed(target, bundledOperation) ==
    (\E name \in Bundled : Home[name] = target) => bundledOperation

\* rememberDiscoveredContract().
Remember(name, hash) ==
    discoveredContractsByName' =
        IF name = NoName THEN discoveredContractsByName
        ELSE [discoveredContractsByName EXCEPT ![name] = hash]

-----------------------------------------------------------------------------
(* Calls.                                                                  *)

Over(i, result) == [NotCalled EXCEPT !.pc = "over", !.kind = i.kind, !.result = result]
Continue(i, target) == [i EXCEPT !.pc = "resolved", !.target = target]

\* resolveByName(): a name that was unknown lately is not asked for again.
Asking(i) ==
    IF i.reference \in Range(negativeNameCache) THEN Over(i, "refused") ELSE [i EXCEPT !.pc = "asking"]

\* A call up to its first request: arguments and operation are validated, then the
\* reference is resolved from what is known, or the index is asked, once for all.
Call(c, kind, reference, wellFormed) ==
    LET i == [NotCalled EXCEPT !.kind = kind, !.reference = reference, !.live = deployed]
        known == ResolveCached(reference)
    IN  /\ invocation[c].pc = "idle"
        /\ invocation' = [invocation EXCEPT ![c] =
              IF ~wellFormed \/ ~Explicit(kind, reference) THEN Over(i, "refused")
              ELSE IF known # NoHash THEN Continue(i, known)
              ELSE Asking(i)]
        /\ nameRequests' = IF invocation'[c].pc = "asking" THEN nameRequests \cup {reference}
                           ELSE nameRequests
        /\ UNCHANGED <<chainVars, discoveredContractsByName, remotelyResolvedContractsByName,
                       negativeNameCache>>

\* assertContractDeployed() resolves the reference again; getContractStatus() does not.
Check(c) ==
    LET i == invocation[c]
    IN  /\ i.pc = "resolved"
        /\ invocation' = [invocation EXCEPT ![c].pc = "checking",
              ![c].checked = IF i.kind = "status" THEN i.target ELSE ResolveCached(i.reference)]
        /\ UNCHANGED <<chainVars, discoveredContractsByName, remotelyResolvedContractsByName, indexVars>>

\* getcontractstate: the state, or one of the errors that mean there is none.
StateOf(hash) == IF hash \in deployed THEN "deployed" ELSE "missing"

\* getContractState() answers: isContractDeployed() goes on, getContractStatus() ends
\* and remembers the name in the manifest for everybody.
StateAnswers(c, allowed) ==
    LET i == invocation[c]
        state == StateOf(i.checked)
    IN  /\ i.pc = "checking" /\ magic
        /\ invocation' = [invocation EXCEPT ![c] =
              IF i.kind = "status" THEN Over(i, state)
              ELSE IF state = "missing" \/ ~OperationAllowed(i.target, allowed) THEN Over(i, "refused")
              ELSE [i EXCEPT !.pc = "invoking"]]
        /\ IF i.kind = "status" /\ state = "deployed"
           THEN Remember(Manifest[i.target], i.target)
           ELSE UNCHANGED discoveredContractsByName
        /\ UNCHANGED <<chainVars, remotelyResolvedContractsByName, indexVars>>

\* invokefunction, or invokescript where it is not supported: HALT, FAULT, no answer.
InvokeAnswers(c, result) ==
    /\ invocation[c].pc = "invoking"
    /\ invocation' = [invocation EXCEPT ![c] = Over(@, result)]
    /\ UNCHANGED <<chainVars, discoveredContractsByName, remotelyResolvedContractsByName, indexVars>>

\* A request to the node fails.
RpcFails(c) ==
    /\ invocation[c].pc \in {"checking", "invoking"}
    /\ invocation' = [invocation EXCEPT ![c] = Over(@, "failed")]
    /\ UNCHANGED <<chainVars, discoveredContractsByName, remotelyResolvedContractsByName, indexVars>>

-----------------------------------------------------------------------------
(* The network magic, asked for once before the first request.             *)

MagicAnswers(right) ==
    /\ ~magic /\ \E c \in Invocations : invocation[c].pc = "checking"
    /\ magic' = right
    /\ invocation' = [c \in Invocations |->
          IF invocation[c].pc = "checking" /\ ~right THEN Over(invocation[c], "failed")
          ELSE invocation[c]]
    /\ UNCHANGED <<deployed, discoveredContractsByName, remotelyResolvedContractsByName, indexVars>>

-----------------------------------------------------------------------------
(* The index.                                                              *)

\* Map.delete(): a name is there once at most.
Deleted(name) ==
    IF name \in Range(negativeNameCache)
    THEN RemoveAt(negativeNameCache, CHOOSE i \in DOMAIN negativeNameCache : negativeNameCache[i] = name)
    ELSE negativeNameCache

\* cacheNegativeResult(): expired entries are gone already, the oldest make room.
Negative(name) ==
    LET others == Deleted(name)
        excess == Len(others) - (negativeCacheMaxEntries - 1)
    IN  Append(SubSeq(others, IF excess > 0 THEN excess + 1 ELSE 1, Len(others)), name)

\* One hash has the name; or none; or several, or no answer within the deadline.
IndexAnswers(name, hash, found) ==
    /\ name \in nameRequests
    /\ nameRequests' = nameRequests \ {name}
    /\ negativeNameCache' = IF found = "nothing" THEN Negative(name) ELSE negativeNameCache
    /\ invocation' = [c \in Invocations |->
          IF invocation[c].pc # "asking" \/ invocation[c].reference # name THEN invocation[c]
          ELSE IF found = "one" THEN Continue(invocation[c], hash)
          ELSE Over(invocation[c], IF found = "nothing" THEN "refused" ELSE "failed")]
    /\ IF found = "one"
       THEN /\ remotelyResolvedContractsByName' = [remotelyResolvedContractsByName EXCEPT ![name] = hash]
            /\ Remember(name, hash)
       ELSE UNCHANGED <<discoveredContractsByName, remotelyResolvedContractsByName>>
    /\ UNCHANGED chainVars

\* An entry expires; the next lookup or insertion drops it.
NegativeExpires(name) ==
    /\ name \in Range(negativeNameCache)
    /\ negativeNameCache' = Deleted(name)
    /\ UNCHANGED <<chainVars, discoveredContractsByName, remotelyResolvedContractsByName,
                   nameRequests, invocation>>

\* A contract is deployed, or destroyed.
ChainMoves(hash) ==
    /\ deployed' = IF hash \in deployed THEN deployed \ {hash} ELSE deployed \cup {hash}
    /\ invocation' = [c \in Invocations |-> [invocation[c] EXCEPT !.live =
          IF invocation[c].pc \in {"idle", "over"} THEN @ ELSE @ \cup deployed']]
    /\ UNCHANGED <<magic, discoveredContractsByName, remotelyResolvedContractsByName, indexVars>>

-----------------------------------------------------------------------------

Init ==
    /\ deployed \in SUBSET Hashes /\ magic = FALSE
    /\ discoveredContractsByName = [name \in Names |-> NoHash]
    /\ remotelyResolvedContractsByName = [name \in Names |-> NoHash]
    /\ negativeNameCache = <<>> /\ nameRequests = {}
    /\ invocation = [c \in Invocations |-> NotCalled]

Next ==
    \/ \E c \in Invocations :
          \/ \E kind \in Kinds, reference \in References, wellFormed \in BOOLEAN :
                Call(c, kind, reference, wellFormed)
          \/ Check(c) \/ RpcFails(c)
          \/ \E allowed \in BOOLEAN : StateAnswers(c, allowed)
          \/ \E result \in {"halt", "fault"} : InvokeAnswers(c, result)
    \/ \E right \in BOOLEAN : MagicAnswers(right)
    \/ \E name \in Names :
          \/ NegativeExpires(name)
          \/ \E hash \in Hashes, found \in {"one", "nothing", "trouble"} : IndexAnswers(name, hash, found)
    \/ \E hash \in Hashes : ChainMoves(hash)

Spec == Init /\ [][Next]_vars

-----------------------------------------------------------------------------
(* Properties.                                                             *)

TypeOK ==
    /\ deployed \subseteq Hashes /\ magic \in BOOLEAN
    /\ discoveredContractsByName \in [Names -> Hashes \cup {NoHash}]
    /\ remotelyResolvedContractsByName \in [Names -> Hashes \cup {NoHash}]
    /\ nameRequests \subseteq Names
    /\ Range(negativeNameCache) \subseteq Names
    /\ invocation \in [Invocations ->
          [pc : {"idle", "asking", "resolved", "checking", "invoking", "over"}, kind : Kinds,
           reference : References \cup {NoName}, target : Hashes \cup {NoHash},
           checked : Hashes \cup {NoHash}, live : SUBSET Hashes,
           result : {"none", "refused", "failed", "halt", "fault", "deployed", "missing"}]]

\* The references nobody's manifest and no index can redirect.
Fixed(reference) == reference \in Hashes \/ (reference \in Bundled /\ Home[reference] # NoHash)
Own(reference) == IF reference \in Hashes THEN reference ELSE Home[reference]

\* What is invoked under a hash or a bundled name is that contract and the one the
\* deployment check was about, whatever names the caches have learned meanwhile; and no
\* cached name outlives its contract: the checked one existed during this very call.
InvokedIsMeantAndLive ==
    \A c \in Invocations : invocation[c].pc = "invoking" =>
        LET i == invocation[c]
        IN  /\ Fixed(i.reference) => i.target = Own(i.reference) /\ i.checked = i.target
            /\ i.checked \in i.live
            /\ i.kind = "write" => i.target = i.reference

\* The unknown names are kept to their limit, each once, and none is being asked for.
NegativeCacheIsBounded ==
    /\ Len(negativeNameCache) <= negativeCacheMaxEntries
    /\ Cardinality(Range(negativeNameCache)) = Len(negativeNameCache)
    /\ Range(negativeNameCache) \cap nameRequests = {}
=============================================================================
