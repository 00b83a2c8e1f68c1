--------------------------- MODULE WriteOperations ---------------------------
(***************************************************************************)
(* The durable write journal of src/src/services/write-operation-service.ts*)
(* driven by src/src/services/write-coordinator.ts: callers reserve an     *)
(* intent under an idempotency key, an approver approves or declines it,   *)
(* and execute() prepares, persists, relays, reconciles and completes one  *)
(* transaction for it.  Executions of one intent are serialised by         *)
(* runExclusive.  The process may crash and be restarted, every journal    *)
(* write may fail, and the answer of every RPC call may be lost.           *)
(*                                                                         *)
(* An action is one synchronous section of the program: what runs between  *)
(* two awaits, cut only where a journal write ends, because the process    *)
(* may die there.  SyncBusy keeps the other handlers of the single         *)
(* JavaScript thread out of a section that is cut in two.                  *)
(*                                                                         *)
(* An operator whose comment begins with "Deviation" is not part of the    *)
(* specification: it is a plausible mistake in the operator defined after  *)
(* it, kept to show that some property notices it.                         *)
(***************************************************************************)
EXTENDS Integers, Sequences, FiniteSets

CONSTANTS
    Keys,            \* idempotency keys; intentId is sha256(key)
    Requests,        \* what a caller may ask for; the fingerprint stands for it
    Deployments,     \* the requests that ContractService submits
    Callers,         \* concurrent calls of execute()
    Faults,          \* the faults that may happen, a subset of FaultKinds
    StaleReads,      \* TRUE if the endpoint that answers a read may lag behind
    Lifespan,        \* blocks a prepared transaction stays valid
    MaxRecords,      \* MAX_WRITE_INTENT_RECORDS
    MaxPreparations, \* bound: transactions signed per key
    MaxHeight,       \* bound: height of the chain
    MaxCrashes       \* bound: crashes of the process

FaultKinds == {"write", "fsync", "crash", "power"}

ASSUME ConstantsAssumption ==
    /\ Faults \subseteq FaultKinds
    /\ Deployments \subseteq Requests
    /\ StaleReads \in BOOLEAN
    /\ Lifespan \in Nat \ {0}
    /\ {MaxRecords, MaxPreparations, MaxHeight, MaxCrashes} \subseteq Nat

VARIABLES
    visible,     \* [Keys -> record]: what read() finds in the journal
    survivors,   \* [Keys -> set of records]: what a power loss may leave
    writer,      \* "up" | "down": the process that owns the journal
    writerLock,  \* "held" | "free": the file .writer.lock
    queue,       \* [Keys -> Seq(Callers)]: activeOperations, head is running
    run,         \* [Callers -> run]: where a call of execute() is
    signed,      \* [Keys -> Nat]: transactions signed for the key so far
    verified,    \* TRUE once ContractService knows the magic of its network
    height,      \* height of the tip of the chain
    mempool,     \* transactions the nodes hold
    chain,       \* transactions in a block
    late,        \* requests their sender gave up on, still on the wire
    crashes,     \* crashes so far
    approvals,   \* history: [Keys -> requests an approver approved]
    relayed,     \* history: transactions handed to the network
    accepted     \* history: transactions some node accepted

journalVars == <<visible, survivors>>
processVars == <<writer, writerLock, crashes>>
callVars    == <<queue, run, signed, verified>>
chainVars   == <<height, mempool, chain, late>>
historyVars == <<approvals, relayed, accepted>>
vars == <<journalVars, processVars, callVars, chainVars, historyVars>>

-----------------------------------------------------------------------------
(* Data.                                                                   *)

States == {"awaiting_approval", "approved", "preparing", "submitting",
           "outcome_unknown", "submitted", "rejected",
           "failed_before_submission", "declined", "expired"}

Unpreparable == {"declined", "expired", "rejected", "failed_before_submission"}
Preparable   == {"approved", "preparing"}

\* Deviation: a rejected intent may be tried again.
RecoverableWithRejected == {"submitting", "outcome_unknown", "rejected"}

Recoverable == {"submitting", "outcome_unknown"}

\* A signed transaction: the nonce makes two preparations differ.
Tx == [key : Keys, request : Requests, serial : 1 .. MaxPreparations,
       vub : 0 .. MaxHeight + Lifespan]
NoTx == [serial |-> 0]

Record == [request : Requests, state : States, tx : Tx \cup {NoTx}, result : BOOLEAN]
NoRecord   == [state |-> "absent", tx |-> NoTx]  \* no file
TornRecord == [state |-> "torn", tx |-> NoTx]    \* a file read() refuses to parse
JournalEntry == Record \cup {NoRecord, TornRecord}

SyncPoints == {"failing", "completing"}
Points == {"idle", "queued", "preparing", "reconciling", "expiring",
           "submitting", "inFlight", "acknowledged", "refused"} \cup SyncPoints

Run == [pc : Points, key : Keys \cup {"none"}, tx : Tx \cup {NoTx}]
IdleRun == [pc |-> "idle", key |-> "none", tx |-> NoTx]

\* The heights an endpoint may answer with.
SeenHeights == IF StaleReads THEN 0 .. height ELSE {height}

Readable(k) == visible[k].state \in States  \* read() returns a record

SyncBusy == \E c \in Callers : run[c].pc \in SyncPoints
Serving == writer = "up" /\ ~SyncBusy

-----------------------------------------------------------------------------
(* Journal writes.                                                         *)

\* update(): "synced" is a complete write; "notRenamed" failed before the
\* rename; "notSynced" failed in the fsync of the directory after it.
WriteOutcomes == {"synced"}
    \cup (IF "write" \in Faults THEN {"notRenamed"} ELSE {})
    \cup (IF "fsync" \in Faults THEN {"notSynced"} ELSE {})

Store(k, record, outcome) ==
    /\ visible' = IF outcome = "notRenamed" THEN visible
                  ELSE [visible EXCEPT ![k] = record]
    /\ survivors' =
         CASE outcome = "notRenamed" -> survivors
           [] outcome = "notSynced"  -> [survivors EXCEPT ![k] = @ \cup {record}]
           [] OTHER                  -> [j \in Keys |-> {visible'[j]}]

Updated(k, state) == [visible[k] EXCEPT !.state = state]

-----------------------------------------------------------------------------
(* runExclusive and the progress of one call.                              *)

\* Deviation: the call does not await the previous one.
NoTurns(c) == TRUE

\* A call runs when every earlier call for its intent has released.
MyTurn(c) == queue[run[c].key] # <<>> /\ Head(queue[run[c].key]) = c

Goto(c, pc) == run' = [run EXCEPT ![c].pc = pc] /\ UNCHANGED queue

\* Deviation: release() is never called.
SettleWithoutRelease(c) == run' = [run EXCEPT ![c] = IdleRun] /\ UNCHANGED queue

\* The finally block: the call settles and the next one in the queue may run.
Settle(c) ==
    /\ run' = [run EXCEPT ![c] = IdleRun]
    /\ queue' = [queue EXCEPT ![run[c].key] = Tail(@)]

\* A write whose failure throws out of the operation; pc is what follows it.
StoreThen(c, record, pc) ==
    \E outcome \in WriteOutcomes :
        /\ Store(run[c].key, record, outcome)
        /\ IF outcome = "synced" /\ pc # "idle" THEN Goto(c, pc) ELSE Settle(c)

-----------------------------------------------------------------------------
(* Reservation and approval: synchronous handlers outside runExclusive.    *)

Existing == {k \in Keys : visible[k] # NoRecord}

\* reserve() of a new key.  A known key changes nothing: it returns its
\* record, or throws when the request differs or the record is torn.
Reserve(k, r) ==
    /\ Serving
    /\ visible[k] = NoRecord
    /\ Cardinality(Existing) < MaxRecords
    /\ \E outcome \in WriteOutcomes :
         Store(k, [request |-> r, state |-> "awaiting_approval",
                   tx |-> NoTx, result |-> FALSE], outcome)
    /\ UNCHANGED <<processVars, callVars, chainVars, historyVars>>

\* Deviation: the fingerprint is not compared.
ApproveAnyFingerprint(k, r) ==
    /\ Serving
    /\ visible[k].state = "awaiting_approval"
    /\ \E outcome \in WriteOutcomes : Store(k, Updated(k, "approved"), outcome)
    /\ approvals' = [approvals EXCEPT ![k] = @ \cup {r}]
    /\ UNCHANGED <<processVars, callVars, chainVars, relayed, accepted>>

\* approve() by an approver who was shown the fingerprint of r.
Approve(k, r) ==
    /\ Serving
    /\ Readable(k)
    /\ visible[k].request = r
    /\ visible[k].state = "awaiting_approval"
    /\ \E outcome \in WriteOutcomes : Store(k, Updated(k, "approved"), outcome)
    /\ approvals' = [approvals EXCEPT ![k] = @ \cup {r}]
    /\ UNCHANGED <<processVars, callVars, chainVars, relayed, accepted>>

\* Deviation: anything without a verdict may be declined.
DeclineUnconcluded(k) ==
    /\ Serving
    /\ visible[k].state \in Preparable \cup Recoverable \cup {"awaiting_approval"}
    /\ \E outcome \in WriteOutcomes : Store(k, Updated(k, "declined"), outcome)
    /\ UNCHANGED <<processVars, callVars, chainVars, historyVars>>

\* Deviation: the record is not looked up first.
DeclineUnread(k) ==
    /\ Serving
    /\ visible[k].state \notin States \ {"awaiting_approval"}
    /\ \E outcome \in WriteOutcomes : Store(k, Updated(k, "declined"), outcome)
    /\ UNCHANGED <<processVars, callVars, chainVars, historyVars>>

Decline(k) ==
    /\ Serving
    /\ visible[k].state = "awaiting_approval"
    /\ \E outcome \in WriteOutcomes : Store(k, Updated(k, "declined"), outcome)
    /\ UNCHANGED <<processVars, callVars, chainVars, historyVars>>

-----------------------------------------------------------------------------
(* execute().                                                              *)

Execute(c, k) ==
    /\ Serving
    /\ Readable(k)
    /\ run[c].pc = "idle"
    /\ run' = [run EXCEPT ![c] = [pc |-> "queued", key |-> k, tx |-> NoTx]]
    /\ queue' = [queue EXCEPT ![k] = Append(@, c)]
    /\ UNCHANGED <<journalVars, processVars, signed, verified, chainVars, historyVars>>

\* The call's turn and its record, re-read when the turn comes.
Begins(c) == run[c].pc = "queued" /\ MyTurn(c) /\ Serving
RecordOf(c) == visible[run[c].key]

\* A stored result is returned; a terminal or unapproved intent throws.
BeginNothingToDo(c) ==
    /\ Begins(c)
    /\ \/ RecordOf(c).state = "submitted" /\ RecordOf(c).result
       \/ RecordOf(c).state \in Unpreparable \cup {"awaiting_approval"}
    /\ Settle(c)
    /\ UNCHANGED <<journalVars, processVars, signed, verified, chainVars, historyVars>>

\* Relayed and recorded, but the process stopped before complete().
BeginSubmitted(c) ==
    /\ Begins(c)
    /\ RecordOf(c).state = "submitted"
    /\ ~RecordOf(c).result
    /\ run' = [run EXCEPT ![c].pc = "completing", ![c].tx = RecordOf(c).tx]
    /\ UNCHANGED <<journalVars, processVars, queue, signed, verified, chainVars, historyVars>>

\* markPreparing(), then the await of prepare().
BeginPreparing(c) ==
    /\ Begins(c)
    /\ RecordOf(c).state \in Preparable
    /\ RecordOf(c).tx = NoTx
    /\ \/ /\ RecordOf(c).state = "preparing"
          /\ Goto(c, "preparing")
          /\ UNCHANGED journalVars
       \/ /\ RecordOf(c).state = "approved"
          /\ \E outcome \in WriteOutcomes :
               /\ Store(run[c].key, Updated(run[c].key, "preparing"), outcome)
               /\ Goto(c, IF outcome = "synced" THEN "preparing" ELSE "failing")
    /\ UNCHANGED <<processVars, signed, verified, chainVars, historyVars>>

\* A transaction was persisted by an earlier execution: ask the chain first.
BeginRecovering(c) ==
    /\ Begins(c)
    /\ RecordOf(c).state \in Recoverable
    /\ RecordOf(c).tx # NoTx
    /\ run' = [run EXCEPT ![c].pc = "reconciling", ![c].tx = RecordOf(c).tx]
    /\ UNCHANGED <<journalVars, processVars, queue, signed, verified, chainVars, historyVars>>

\* Deviation: a failed journal write does not stop the submission.
SubmitUnpersisted(c, tx, outcome) ==
    run' = [run EXCEPT ![c].pc = "submitting", ![c].tx = tx]

\* execute() goes on to submit() once recordPrepared() has returned.
SubmitOncePersisted(c, tx, outcome) ==
    IF outcome = "synced"
    THEN run' = [run EXCEPT ![c].pc = "submitting", ![c].tx = tx]
    ELSE run' = [run EXCEPT ![c].pc = "failing"]

\* prepare() answers: recordPrepared() persists the signed transaction, and
\* only then may submit() be called.
PrepareSucceeds(c) ==
    \E seen \in SeenHeights :
    LET k == run[c].key
        tx == [key |-> k, request |-> RecordOf(c).request,
               serial |-> signed[k] + 1, vub |-> seen + Lifespan]
    IN  /\ Serving
        /\ run[c].pc = "preparing"
        /\ signed[k] < MaxPreparations
        /\ signed' = [signed EXCEPT ![k] = @ + 1]
        /\ verified' = (verified \/ tx.request \in Deployments)
        /\ IF RecordOf(c).state \in Preparable
           THEN \E outcome \in WriteOutcomes :
                  /\ Store(k, [Updated(k, "submitting") EXCEPT !.tx = tx], outcome)
                  /\ SubmitOncePersisted(c, tx, outcome)
           ELSE /\ run' = [run EXCEPT ![c].pc = "failing"]
                /\ UNCHANGED journalVars
        /\ UNCHANGED <<queue, processVars, chainVars, historyVars>>

PrepareFails(c) ==
    /\ Serving
    /\ run[c].pc = "preparing"
    /\ Goto(c, "failing")
    /\ UNCHANGED <<journalVars, processVars, signed, verified, chainVars, historyVars>>

\* Deviation: the record is marked failed although it holds a transaction.
FailRegardless(c) ==
    /\ run[c].pc = "failing"
    /\ StoreThen(c, Updated(run[c].key, "failed_before_submission"), "idle")
    /\ UNCHANGED <<processVars, signed, verified, chainVars, historyVars>>

\* The catch block around the preparation: failBeforeSubmission() refuses a
\* record that holds a transaction, and then that refusal is what is thrown.
FailBeforeSubmission(c) ==
    /\ run[c].pc = "failing"
    /\ IF RecordOf(c).tx = NoTx
       THEN StoreThen(c, Updated(run[c].key, "failed_before_submission"), "idle")
       ELSE Settle(c) /\ UNCHANGED journalVars
    /\ UNCHANGED <<processVars, signed, verified, chainVars, historyVars>>

\* reconcile(): the transaction is in a block or in a memory pool.
ReconcileFound(c) ==
    /\ Serving
    /\ run[c].pc = "reconciling"
    /\ run[c].tx \in chain \cup mempool
    /\ StoreThen(c, Updated(run[c].key, "submitted"), "completing")
    /\ UNCHANGED <<processVars, signed, verified, chainVars, historyVars>>

ReconcileMissing(c) ==
    /\ Serving
    /\ run[c].pc = "reconciling"
    /\ StaleReads \/ run[c].tx \notin chain \cup mempool
    /\ Goto(c, "expiring")
    /\ UNCHANGED <<journalVars, processVars, signed, verified, chainVars, historyVars>>

\* Deviation: the boundary is off by one.
PastValidityEarly(tx, seen) == seen + 1 >= tx.vub

\* isExpired(): getBlockCount() > validUntilBlock, the count being height + 1.
PastValidity(tx, seen) == seen + 1 > tx.vub

Expire(c) ==
    /\ Serving
    /\ run[c].pc = "expiring"
    /\ \E seen \in SeenHeights : PastValidity(run[c].tx, seen)
    /\ StoreThen(c, Updated(run[c].key, "expired"), "idle")
    /\ UNCHANGED <<processVars, signed, verified, chainVars, historyVars>>

NotExpired(c) ==
    /\ Serving
    /\ run[c].pc = "expiring"
    /\ \E seen \in SeenHeights : ~PastValidity(run[c].tx, seen)
    /\ Goto(c, "submitting")
    /\ UNCHANGED <<journalVars, processVars, signed, verified, chainVars, historyVars>>

\* Neither read is inside a try block: an RPC error leaves the record alone.
ReadFails(c) ==
    /\ Serving
    /\ run[c].pc \in {"reconciling", "expiring"}
    /\ Settle(c)
    /\ UNCHANGED <<journalVars, processVars, signed, verified, chainVars, historyVars>>

\* submitPreparedTransaction() asks getNetworkMagic() first.  The answer is
\* cached since prepare() or reconcile(), which used the same service, unless
\* this process has only reconciled a deployment through NeoService.
MagicUnknown(c) == run[c].tx.request \in Deployments /\ ~verified

\* Then the bytes go out.
Send(c) ==
    /\ Serving
    /\ run[c].pc = "submitting"
    /\ Goto(c, "inFlight")
    /\ relayed' = relayed \cup {run[c].tx}
    /\ verified' = (verified \/ MagicUnknown(c))
    /\ UNCHANGED <<journalVars, processVars, signed, chainVars, approvals, accepted>>

\* Deviation: silence is taken for an acknowledgement.
SubmitAssumed(c) ==
    /\ Serving
    /\ run[c].pc \in {"inFlight", "acknowledged"}
    /\ StoreThen(c, Updated(run[c].key, "submitted"), "completing")
    /\ UNCHANGED <<processVars, signed, verified, chainVars, historyVars>>

\* The node acknowledged; markBroadcastSucceeded(), then complete().
SubmitAcknowledged(c) ==
    /\ Serving
    /\ run[c].pc = "acknowledged"
    /\ StoreThen(c, Updated(run[c].key, "submitted"), "completing")
    /\ UNCHANGED <<processVars, signed, verified, chainVars, historyVars>>

\* isDefinitiveRpcRejection(): the node refused the transaction, or answered
\* getversion with an RPC error before anything was sent.
SubmitRefused(c) ==
    /\ Serving
    /\ \/ run[c].pc = "refused"
       \/ run[c].pc = "submitting" /\ MagicUnknown(c)
    /\ StoreThen(c, Updated(run[c].key, "rejected"), "idle")
    /\ UNCHANGED <<processVars, signed, verified, chainVars, historyVars>>

\* A deadline, a transport error or an inconsistent answer: the request may
\* still reach the node, since a deadline does not cancel it.
SubmitUnknown(c) ==
    /\ Serving
    /\ \/ run[c].pc \in {"inFlight", "acknowledged", "refused"}
       \/ run[c].pc = "submitting" /\ MagicUnknown(c)
    /\ StoreThen(c, Updated(run[c].key, "outcome_unknown"), "idle")
    /\ late' = IF run[c].pc = "inFlight" THEN late \cup {run[c].tx} ELSE late
    /\ UNCHANGED <<processVars, signed, verified, height, mempool, chain, historyVars>>

\* complete() accepts a submitted record only.
Complete(c) ==
    /\ run[c].pc = "completing"
    /\ IF RecordOf(c).state = "submitted"
       THEN StoreThen(c, [RecordOf(c) EXCEPT !.result = TRUE], "idle")
       ELSE Settle(c) /\ UNCHANGED journalVars
    /\ UNCHANGED <<processVars, signed, verified, chainVars, historyVars>>

-----------------------------------------------------------------------------
(* The nodes and the chain.                                                *)

\* A node takes what the next block may still hold.
Admissible(tx) == tx \notin chain \cup mempool /\ height + 1 <= tx.vub

Admit(tx) == mempool' = mempool \cup {tx} /\ accepted' = accepted \cup {tx}

\* sendrawtransaction at the node: a node may refuse for reasons of its own.
NodeAccepts(c) ==
    /\ run[c].pc = "inFlight"
    /\ Admissible(run[c].tx)
    /\ Admit(run[c].tx)
    /\ Goto(c, "acknowledged")
    /\ UNCHANGED <<journalVars, processVars, signed, verified, height, chain, late, approvals, relayed>>

NodeRefuses(c) ==
    /\ run[c].pc = "inFlight"
    /\ Goto(c, "refused")
    /\ UNCHANGED <<journalVars, processVars, signed, verified, chainVars, historyVars>>

\* A request nobody waits for is taken by the node, refused or lost.
LateArrives(tx) ==
    /\ tx \in late
    /\ late' = late \ {tx}
    /\ \/ Admissible(tx) /\ Admit(tx)
       \/ UNCHANGED <<mempool, accepted>>
    /\ UNCHANGED <<journalVars, processVars, callVars, height, chain, approvals, relayed>>

\* A block takes some of the valid transactions; the expired ones are dropped.
MineBlock(included) ==
    /\ height < MaxHeight
    /\ height' = height + 1
    /\ chain' = chain \cup included
    /\ mempool' = {tx \in mempool \ included : height + 2 <= tx.vub}
    /\ UNCHANGED <<journalVars, processVars, callVars, late, historyVars>>

\* A full memory pool evicts.
Evict(tx) ==
    /\ tx \in mempool
    /\ mempool' = mempool \ {tx}
    /\ UNCHANGED <<journalVars, processVars, callVars, height, chain, late, historyVars>>

-----------------------------------------------------------------------------
(* The process.                                                            *)

InFlight == {run[c].tx : c \in {d \in Callers : run[d].pc = "inFlight"}}

\* Every call is gone; the lock file, the journal and the network stay.
StopProcess ==
    /\ writer = "up"
    /\ crashes < MaxCrashes
    /\ crashes' = crashes + 1
    /\ writer' = "down"
    /\ run' = [c \in Callers |-> IdleRun]
    /\ queue' = [k \in Keys |-> <<>>]
    /\ late' = late \cup InFlight
    /\ verified' = FALSE
    /\ UNCHANGED <<writerLock, signed, height, mempool, chain, historyVars>>

Crash ==
    /\ "crash" \in Faults
    /\ StopProcess
    /\ UNCHANGED journalVars

\* create() writes under the final name: the file is there before its bytes.
CrashInReserve(k) ==
    /\ "crash" \in Faults
    /\ Serving
    /\ visible[k] = NoRecord
    /\ Cardinality(Existing) < MaxRecords
    /\ StopProcess
    /\ visible' = [visible EXCEPT ![k] = TornRecord]
    /\ survivors' = [survivors EXCEPT ![k] = {TornRecord}]

\* What was not fsynced may be lost.
PowerLoss ==
    /\ "power" \in Faults
    /\ StopProcess
    /\ \E found \in [Keys -> UNION {survivors[k] : k \in Keys}] :
         /\ \A k \in Keys : found[k] \in survivors[k]
         /\ visible' = found
         /\ survivors' = [k \in Keys |-> {found[k]}]

\* The operator, once no writer is running.
RemoveStaleLock ==
    /\ writer = "down"
    /\ writerLock = "held"
    /\ writerLock' = "free"
    /\ UNCHANGED <<journalVars, writer, crashes, callVars, chainVars, historyVars>>

\* The constructor: a lock held under another token keeps it from serving.
StartWriter ==
    /\ writer = "down"
    /\ writerLock = "free"
    /\ writer' = "up"
    /\ writerLock' = "held"
    /\ UNCHANGED <<journalVars, crashes, callVars, chainVars, historyVars>>

-----------------------------------------------------------------------------

Init ==
    /\ visible = [k \in Keys |-> NoRecord]
    /\ survivors = [k \in Keys |-> {NoRecord}]
    /\ writer = "down"
    /\ writerLock = "free"
    /\ queue = [k \in Keys |-> <<>>]
    /\ run = [c \in Callers |-> IdleRun]
    /\ signed = [k \in Keys |-> 0]
    /\ verified = FALSE
    /\ height = 0
    /\ crashes = 0
    /\ approvals = [k \in Keys |-> {}]
    /\ mempool = {} /\ chain = {} /\ late = {}
    /\ relayed = {} /\ accepted = {}

Handler(k) ==
    \/ \E r \in Requests : Reserve(k, r) \/ Approve(k, r)
    \/ Decline(k)
    \/ \E c \in Callers : Execute(c, k)

Advance(c) ==
    \/ BeginNothingToDo(c) \/ BeginSubmitted(c) \/ BeginPreparing(c) \/ BeginRecovering(c)
    \/ PrepareSucceeds(c) \/ PrepareFails(c) \/ FailBeforeSubmission(c)
    \/ ReconcileFound(c) \/ ReconcileMissing(c)
    \/ Expire(c) \/ NotExpired(c) \/ ReadFails(c)
    \/ Send(c) \/ SubmitAcknowledged(c) \/ SubmitRefused(c) \/ SubmitUnknown(c)
    \/ Complete(c)

Network ==
    \/ \E c \in Callers : NodeAccepts(c) \/ NodeRefuses(c)
    \/ \E tx \in late : LateArrives(tx)
    \/ \E included \in SUBSET {tx \in mempool : height + 1 <= tx.vub} : MineBlock(included)
    \/ \E tx \in mempool : Evict(tx)

Process ==
    \/ Crash \/ PowerLoss \/ RemoveStaleLock \/ StartWriter
    \/ \E k \in Keys : CrashInReserve(k)

Next == (\E k \in Keys : Handler(k)) \/ (\E c \in Callers : Advance(c)) \/ Network \/ Process

\* Every RPC await of execute() settles, by its answer or by its deadline, and
\* the event loop, a FIFO, never passes over a ready continuation forever.
Fairness == \A c \in Callers : SF_vars(Advance(c))

Spec == Init /\ [][Next]_vars
FairSpec == Spec /\ Fairness

-----------------------------------------------------------------------------
(* Properties.                                                             *)

\* Every variable has its type; the journal entry of a key is absent, torn by a
\* crash inside create(), or a record.
TypeOK ==
    /\ visible \in [Keys -> JournalEntry]
    /\ survivors \in [Keys -> SUBSET JournalEntry]
    /\ writer \in {"up", "down"} /\ writerLock \in {"held", "free"}
    /\ queue \in [Keys -> Seq(Callers)]
    /\ run \in [Callers -> Run]
    /\ signed \in [Keys -> 0 .. MaxPreparations]
    /\ verified \in BOOLEAN
    /\ height \in 0 .. MaxHeight /\ crashes \in Nat
    /\ mempool \subseteq Tx /\ chain \subseteq Tx /\ late \subseteq Tx
    /\ approvals \in [Keys -> SUBSET Requests]
    /\ relayed \subseteq Tx /\ accepted \subseteq Tx

\* However often execute() is called, retried, overtaken by another call or cut
\* by a crash or a failing journal write, at most one transaction is ever handed
\* to the network for an idempotency key.
AtMostOneTransaction ==
    \A t1, t2 \in relayed : t1.key = t2.key => t1 = t2

\* What is relayed for a key is the request an approver approved for that key.
OnlyApprovedIsRelayed ==
    \A tx \in relayed : tx.request \in approvals[tx.key]

\* An intent that was declined, or failed before submission, has no transaction
\* on the network, now or in flight.
ClosedIsNeverRelayed ==
    \A k \in Keys :
        visible[k].state \in {"declined", "failed_before_submission"}
            => \A tx \in relayed : tx.key # k

\* Success is recorded only for a transaction some node accepted.
SubmittedWasAccepted ==
    \A k \in Keys : visible[k].state = "submitted" => visible[k].tx \in accepted

\* The signed bytes are persisted before they are relayed: even a power loss
\* leaves the record that holds them.
RelayedIsDurable ==
    \A tx \in relayed : \A entry \in survivors[tx.key] : entry.tx = tx

\* A transaction that is not on chain when its intent is declared expired never
\* reaches the chain later.
ExpiredStaysOffChain ==
    [][\A k \in Keys :
          visible[k].state = "expired" /\ visible[k].tx \notin chain
              => visible[k].tx \notin chain']_vars

\* A verdict is final, and a persisted transaction is never replaced: no later
\* or overlapping execution changes either.
VerdictIsFinal ==
    [][\A k \in Keys :
          /\ visible[k].state \in Unpreparable \cup {"submitted"}
                 => visible'[k].state = visible[k].state
          /\ visible[k].tx # NoTx => visible'[k].tx = visible[k].tx]_vars

\* While nobody stops the process, two calls never work on one intent at once.
Exclusive ==
    \A c, d \in Callers :
        /\ run[c].pc \notin {"idle", "queued"}
        /\ run[d].pc \notin {"idle", "queued"}
        /\ run[c].key = run[d].key
        => c = d

\* Every call of execute() settles: the queue of an intent never jams.
CallsSettle == \A c \in Callers : run[c].pc = "queued" ~> run[c].pc = "idle"

\* An intent declared expired has no transaction on the chain.
ExpiredIsNotOnChain ==
    \A k \in Keys : visible[k].state = "expired" => visible[k].tx \notin chain

\* An intent declared rejected has no transaction on the chain.
RejectedIsNotOnChain ==
    \A k \in Keys : visible[k].state = "rejected" => visible[k].tx \notin chain

-----------------------------------------------------------------------------
(* The inductive invariant behind the safety properties.                   *)

Unprepared == Preparable \cup {"awaiting_approval", "declined", "failed_before_submission"}
Unapproved == {"absent", "torn", "awaiting_approval", "declined"}
Submitting == {"submitting", "inFlight", "acknowledged", "refused"}

\* The queue of an intent holds its unsettled calls, each once, and the call
\* that works is its head.
QueueInv ==
    /\ \A k \in Keys : \A i, j \in 1 .. Len(queue[k]) :
          queue[k][i] = queue[k][j] => i = j
    /\ \A k \in Keys : \A i \in 1 .. Len(queue[k]) :
          run[queue[k][i]].pc # "idle" /\ run[queue[k][i]].key = k
    /\ \A c \in Callers : run[c].pc # "idle" => run[c].key \in Keys
    /\ \A c \in Callers : run[c].pc \notin {"idle", "queued"} =>
          queue[run[c].key] # <<>> /\ Head(queue[run[c].key]) = c

\* A record holds a transaction of its own from recordPrepared() on, and was
\* approved from approve() on.
JournalInv ==
    \A k \in Keys :
        /\ visible[k].tx = NoTx <=> visible[k].state \in Unprepared \cup {"absent", "torn"}
        /\ visible[k].tx # NoTx => /\ visible[k].tx.key = k
                                   /\ visible[k].tx.request = visible[k].request
        /\ visible[k].state \notin Unapproved => visible[k].request \in approvals[k]

\* Where a call is agrees with the record it works on.
RunOK(c) ==
    LET pc == run[c].pc
        entry == visible[run[c].key]
    IN  /\ pc = "preparing" => entry.state \in Preparable
        /\ pc = "failing" => entry.state \in Preparable \cup {"submitting"}
        /\ pc \in {"reconciling", "expiring"} \cup Submitting =>
              entry.state \in Recoverable /\ entry.tx = run[c].tx
        /\ pc = "completing" => entry.state = "submitted" /\ entry.tx = run[c].tx

RunInv == \A c \in Callers : RunOK(c)

\* A relayed transaction is the one in the record of its key.
RelayInv == \A tx \in relayed : visible[tx.key].tx = tx

IInv == TypeOK /\ QueueInv /\ JournalInv /\ RunInv /\ RelayInv

-----------------------------------------------------------------------------
(* The journal implements the abstract intent.                             *)

Phase(state) ==
    CASE state \in {"absent", "torn"} -> "none"
      [] state = "awaiting_approval" -> "pending"
      [] state \in Preparable -> "authorised"
      [] state \in Recoverable -> "bound"
      [] state \in {"declined", "failed_before_submission"} -> "closed"
      [] OTHER -> state

Intent == INSTANCE WriteIntent WITH
    intent <- [k \in Keys |-> [phase |-> Phase(visible[k].state), tx |-> visible[k].tx]]

\* Whatever the interleavings, crashes and failing writes, the journal and the
\* network show the life of a write intent and nothing else.
ImplementsIntent == Intent!Spec
=============================================================================
