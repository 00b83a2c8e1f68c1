------------------------ MODULE WriteOperationsProofs ------------------------
(***************************************************************************)
(* Proofs about WriteOperations.  Everything rests on one inductive        *)
(* invariant, IInv, kept by every step as long as power losses and failing *)
(* directory fsyncs do not come together (OneStorageFault).                *)
(***************************************************************************)
EXTENDS WriteOperations, TLAPS

-----------------------------------------------------------------------------
(* Records.                                                                *)

LEMMA EntryFields ==
    ASSUME NEW e \in JournalEntry
    PROVE  /\ e.tx \in Tx \cup {NoTx}
           /\ e.state \in States \cup {"absent", "torn"}
           /\ e.state \in States <=> e \in Record
  BY DEF JournalEntry, Record, NoRecord, TornRecord, States

LEMMA NoTxIsNotATransaction == NoTx \notin Tx
  <1>1. \A tx \in Tx : tx.serial # 0
    BY DEF Tx
  <1>2. NoTx.serial = 0
    BY DEF NoTx
  <1> QED
    BY <1>1, <1>2

\* Changing the state of a readable record gives a record; nothing else of it
\* changes.
LEMMA UpdatedRecord ==
    ASSUME TypeOK, NEW k \in Keys, visible[k].state \in States, NEW s \in States
    PROVE  /\ Updated(k, s) \in Record
           /\ Updated(k, s).state = s
           /\ Updated(k, s).tx = visible[k].tx
           /\ Updated(k, s).request = visible[k].request
  <1>1. visible[k] \in Record
    BY EntryFields DEF TypeOK
  <1> QED
    BY <1>1 DEF Updated, Record

\* A journal write leaves the other records alone, and this one is either the
\* old or the new record.
LEMMA StoreEffect ==
    ASSUME TypeOK, NEW k \in Keys, NEW e \in JournalEntry, NEW outcome \in WriteOutcomes,
           Store(k, e, outcome)
    PROVE  /\ visible' \in [Keys -> JournalEntry]
           /\ survivors' \in [Keys -> SUBSET JournalEntry]
           /\ \A j \in Keys : j # k => visible'[j] = visible[j]
           /\ visible'[k] = IF outcome = "notRenamed" THEN visible[k] ELSE e
  <1>1. /\ visible' \in [Keys -> JournalEntry]
        /\ \A j \in Keys : j # k => visible'[j] = visible[j]
        /\ visible'[k] = IF outcome = "notRenamed" THEN visible[k] ELSE e
    BY DEF Store, TypeOK
  <1>2. survivors' \in [Keys -> SUBSET JournalEntry]
    BY <1>1 DEF Store, TypeOK
  <1> QED
    BY <1>1, <1>2

-----------------------------------------------------------------------------
(* The queue of an intent.                                                 *)

\* The call that may take the next step for its intent.
Works(c) == run[c].pc # "idle" /\ MyTurn(c)

LEMMA WorksWhenActive ==
    ASSUME IInv, NEW c \in Callers, run[c].pc # "idle", run[c].pc # "queued"
    PROVE  Works(c) /\ run[c].key \in Keys
  BY DEF IInv, QueueInv, Works, MyTurn

LEMMA WorksWhenBegins ==
    ASSUME IInv, NEW c \in Callers, Begins(c)
    PROVE  Works(c) /\ run[c].key \in Keys
  BY DEF IInv, QueueInv, Works, Begins

\* Whoever works on an intent is the only one to do so.
LEMMA WorksAlone ==
    ASSUME IInv, NEW c \in Callers, Works(c), NEW d \in Callers, d # c,
           run[d].pc \notin {"idle", "queued"}
    PROVE  run[d].key # run[c].key
  BY DEF IInv, QueueInv, Works, MyTurn

LEMMA SettleStep ==
    ASSUME IInv, NEW c \in Callers, Works(c), Settle(c)
    PROVE  /\ run' \in [Callers -> Run]
           /\ queue' \in [Keys -> Seq(Callers)]
           /\ \A d \in Callers : run'[d] = IF d = c THEN IdleRun ELSE run[d]
           /\ QueueInv'
  <1> DEFINE k == run[c].key
  <1>1. k \in Keys /\ queue[k] \in Seq(Callers) /\ queue[k] # <<>> /\ Head(queue[k]) = c
    BY DEF IInv, TypeOK, QueueInv, Works, MyTurn
  <1>2. run \in [Callers -> Run] /\ queue \in [Keys -> Seq(Callers)]
    BY DEF IInv, TypeOK
  <1>3. IdleRun \in Run
    BY DEF IdleRun, Run, Points
  <1>4. /\ run' \in [Callers -> Run]
        /\ \A d \in Callers : run'[d] = IF d = c THEN IdleRun ELSE run[d]
    BY <1>2, <1>3 DEF Settle
  <1>5. /\ queue' \in [Keys -> Seq(Callers)]
        /\ \A j \in Keys : j # k => queue'[j] = queue[j]
        /\ queue'[k] = Tail(queue[k])
    BY <1>1, <1>2 DEF Settle
  <1>6. /\ Len(queue'[k]) = Len(queue[k]) - 1
        /\ \A i \in 1 .. Len(queue'[k]) : queue'[k][i] = queue[k][i + 1]
    BY <1>1, <1>5
  <1>7. \A i \in 1 .. Len(queue'[k]) : queue'[k][i] # c
    <2> TAKE i \in 1 .. Len(queue'[k])
    <2>1. /\ i + 1 \in 1 .. Len(queue[k]) /\ 1 \in 1 .. Len(queue[k]) /\ i + 1 # 1
          /\ queue[k][1] = c
      BY <1>1, <1>6
    <2> QED
      BY <1>1, <1>6, <2>1 DEF IInv, QueueInv
  <1>8. \A j \in Keys : \A i \in 1 .. Len(queue'[j]) :
           /\ \E m \in 1 .. Len(queue[j]) : queue'[j][i] = queue[j][m]
           /\ queue'[j][i] # c /\ queue'[j][i] \in Callers
    <2> TAKE j \in Keys
    <2> TAKE i \in 1 .. Len(queue'[j])
    <2>0. queue'[j] \in Seq(Callers)
      BY <1>5
    <2>1. CASE j = k
      <3>1. i + 1 \in 1 .. Len(queue[k])
        BY <1>1, <1>6, <2>1
      <3> QED
        BY <2>0, <2>1, <3>1, <1>6, <1>7
    <2>2. CASE j # k
      <3>1. queue[j][i] = c => run[c].key = j
        BY <1>5, <2>2 DEF IInv, QueueInv
      <3> QED
        BY <2>0, <2>2, <3>1, <1>5
    <2> QED
      BY <2>1, <2>2
  <1>9. ASSUME NEW j \in Keys, NEW a \in 1 .. Len(queue'[j]), NEW b \in 1 .. Len(queue'[j]),
               queue'[j][a] = queue'[j][b]
        PROVE  a = b
    <2>1. CASE j = k
      <3>1. a + 1 \in 1 .. Len(queue[k]) /\ b + 1 \in 1 .. Len(queue[k])
        BY <1>1, <1>6, <2>1
      <3>2. queue[k][a + 1] = queue[k][b + 1]
        BY <1>6, <1>9, <2>1
      <3>3. a + 1 = b + 1
        BY <1>1, <3>1, <3>2 DEF IInv, QueueInv
      <3> QED
        BY <3>3, <1>1, <1>6, <2>1
    <2>2. CASE j # k
      BY <1>5, <1>9, <2>2 DEF IInv, QueueInv
    <2> QED
      BY <2>1, <2>2
  <1>10. ASSUME NEW j \in Keys, NEW i \in 1 .. Len(queue'[j])
         PROVE  run'[queue'[j][i]].pc # "idle" /\ run'[queue'[j][i]].key = j
    <2>1. run'[queue'[j][i]] = run[queue'[j][i]]
      BY <1>4, <1>8
    <2> QED
      BY <2>1, <1>8 DEF IInv, QueueInv
  <1>11. ASSUME NEW d \in Callers, run'[d].pc # "idle"
         PROVE  d # c /\ run'[d] = run[d] /\ run'[d].key \in Keys
    BY <1>4, <1>11 DEF IInv, QueueInv, IdleRun
  <1>12. ASSUME NEW d \in Callers, run'[d].pc \notin {"idle", "queued"}
         PROVE  queue'[run'[d].key] # <<>> /\ Head(queue'[run'[d].key]) = d
    BY <1>5, <1>11, <1>12, WorksAlone DEF IInv, QueueInv
  <1>13. QueueInv'
    BY <1>9, <1>10, <1>11, <1>12 DEF QueueInv
  <1> QED
    BY <1>4, <1>5, <1>13

LEMMA MoveStep ==
    ASSUME IInv, NEW c \in Callers, Works(c), NEW r \in Run,
           r.pc \notin {"idle", "queued"}, r.key = run[c].key,
           run' = [run EXCEPT ![c] = r], UNCHANGED queue
    PROVE  /\ run' \in [Callers -> Run]
           /\ queue' \in [Keys -> Seq(Callers)]
           /\ \A d \in Callers : run'[d] = IF d = c THEN r ELSE run[d]
           /\ QueueInv'
  <1>1. /\ run' \in [Callers -> Run] /\ queue' \in [Keys -> Seq(Callers)]
        /\ \A d \in Callers : run'[d] = IF d = c THEN r ELSE run[d]
    BY DEF IInv, TypeOK
  <1>2. QueueInv'
    <2>1. \A d \in Callers : run'[d].key = run[d].key
      BY <1>1
    <2>2. \A k \in Keys : \A i \in 1 .. Len(queue[k]) : queue[k][i] \in Callers
      BY DEF IInv, TypeOK
    <2> QED
      BY <1>1, <2>1, <2>2 DEF IInv, QueueInv, Works, MyTurn
  <1> QED
    BY <1>1, <1>2

-----------------------------------------------------------------------------
(* The records an execution writes.                                        *)

\* The same transaction for the same request, and on the same side of
\* recordPrepared() and of approve().
SameTransaction(old, new) ==
    /\ new.tx = old.tx
    /\ new.state # old.state => /\ old.state \notin Unapproved
                                /\ new.state \in States \ Unapproved
                                /\ old.state \in Unprepared <=> new.state \in Unprepared
    /\ old.state \in States => new.request = old.request

LEMMA JournalKept ==
    ASSUME IInv, NEW k \in Keys, visible' \in [Keys -> JournalEntry],
           \A j \in Keys : j # k => visible'[j] = visible[j],
           SameTransaction(visible[k], visible'[k]), UNCHANGED approvals
    PROVE  JournalInv'
  <1> SUFFICES ASSUME NEW j \in Keys
               PROVE  /\ visible'[j].tx = NoTx <=>
                            visible'[j].state \in Unprepared \cup {"absent", "torn"}
                      /\ visible'[j].tx # NoTx =>
                            /\ visible'[j].tx.key = j
                            /\ visible'[j].tx.request = visible'[j].request
                      /\ visible'[j].state \notin Unapproved =>
                            visible'[j].request \in approvals'[j]
    BY DEF JournalInv
  <1>1. CASE j # k
    BY <1>1 DEF IInv, JournalInv
  <1>2. CASE j = k
    <2>1. visible[k] \in JournalEntry /\ visible'[k] \in JournalEntry
      BY DEF IInv, TypeOK
    <2>2. visible[k].tx # NoTx => visible[k].state \in States
      BY <2>1, EntryFields DEF IInv, JournalInv
    <2>3. visible[k].state \notin Unapproved => visible[k].state \in States
      BY <2>1, EntryFields DEF Unapproved
    <2> QED
      BY <1>2, <2>1, <2>2, <2>3
      DEF IInv, JournalInv, SameTransaction, States, Unapproved, Unprepared, Preparable
  <1> QED
    BY <1>1, <1>2

LEMMA RelayKept ==
    ASSUME IInv, NEW k \in Keys, \A j \in Keys : j # k => visible'[j] = visible[j],
           visible'[k].tx = visible[k].tx, UNCHANGED relayed
    PROVE  RelayInv'
  <1>1. \A tx \in relayed : tx.key \in Keys
    BY DEF IInv, TypeOK, Tx
  <1> QED
    BY <1>1 DEF IInv, RelayInv

\* A step of one call, on the record of its own key, leaves the others in
\* agreement with theirs.
LEMMA OthersAgree ==
    ASSUME IInv, NEW c \in Callers, Works(c), NEW r,
           \A d \in Callers : run'[d] = IF d = c THEN r ELSE run[d],
           \A j \in Keys : j # run[c].key => visible'[j] = visible[j],
           RunOK(c)'
    PROVE  RunInv'
  <1> SUFFICES ASSUME NEW d \in Callers, d # c
               PROVE  RunOK(d)'
    BY DEF RunInv
  <1>1. run'[d] = run[d]
    OBVIOUS
  <1>2. CASE run[d].pc \in {"idle", "queued"}
    BY <1>1, <1>2 DEF RunOK, Submitting
  <1>3. CASE run[d].pc \notin {"idle", "queued"}
    <2>1. run[d].key # run[c].key /\ run[d].key \in Keys
      BY <1>3, WorksAlone, WorksWhenActive
    <2>2. visible'[run'[d].key] = visible[run[d].key]
      BY <1>1, <2>1
    <2> QED
      BY <1>1, <2>2 DEF IInv, RunInv, RunOK
  <1> QED
    BY <1>2, <1>3

\* An execution that only moves on.
LEMMA StepKeepsRecords ==
    ASSUME IInv, NEW c \in Callers, Works(c), NEW r,
           \A d \in Callers : run'[d] = IF d = c THEN r ELSE run[d],
           RunOK(c)', UNCHANGED <<visible, approvals, relayed>>
    PROVE  JournalInv' /\ RunInv' /\ RelayInv'
  BY OthersAgree DEF IInv, JournalInv, RelayInv

\* An execution that writes its record.
LEMMA StepWritesRecord ==
    ASSUME IInv, NEW c \in Callers, Works(c), run[c].key \in Keys, NEW r,
           \A d \in Callers : run'[d] = IF d = c THEN r ELSE run[d],
           visible' \in [Keys -> JournalEntry],
           \A j \in Keys : j # run[c].key => visible'[j] = visible[j],
           SameTransaction(visible[run[c].key], visible'[run[c].key]),
           RunOK(c)', UNCHANGED <<approvals, relayed>>
    PROVE  JournalInv' /\ RunInv' /\ RelayInv'
  BY OthersAgree, JournalKept, RelayKept DEF SameTransaction

LEMMA IdleAgrees ==
    ASSUME NEW c, run'[c] = IdleRun
    PROVE  RunOK(c)'
  BY DEF RunOK, IdleRun, Submitting

-----------------------------------------------------------------------------
(* The steps of an execution.                                              *)

\* The part of IInv that the steps of an execution can disturb, and the rest.
CallInv ==
    /\ visible \in [Keys -> JournalEntry] /\ survivors \in [Keys -> SUBSET JournalEntry]
    /\ queue \in [Keys -> Seq(Callers)] /\ run \in [Callers -> Run]
    /\ QueueInv /\ JournalInv /\ RunInv /\ RelayInv

WorldTypes ==
    /\ writer \in {"up", "down"} /\ writerLock \in {"held", "free"}
    /\ signed \in [Keys -> 0 .. MaxPreparations] /\ verified \in BOOLEAN
    /\ height \in 0 .. MaxHeight /\ crashes \in Nat
    /\ mempool \subseteq Tx /\ chain \subseteq Tx /\ late \subseteq Tx
    /\ approvals \in [Keys -> SUBSET Requests]
    /\ relayed \subseteq Tx /\ accepted \subseteq Tx

LEMMA IInvParts == IInv <=> CallInv /\ WorldTypes
  BY DEF IInv, TypeOK, CallInv, WorldTypes

LEMMA IInvPartsPrime == IInv' <=> CallInv' /\ WorldTypes'
  BY DEF IInv, TypeOK, CallInv, WorldTypes

LEMMA SettleOnly ==
    ASSUME IInv, NEW c \in Callers, Works(c), Settle(c),
           UNCHANGED <<journalVars, approvals, relayed>>
    PROVE  CallInv'
  <1>1. /\ run' \in [Callers -> Run] /\ queue' \in [Keys -> Seq(Callers)] /\ QueueInv'
        /\ \A d \in Callers : run'[d] = IF d = c THEN IdleRun ELSE run[d]
    BY SettleStep
  <1>2. JournalInv' /\ RunInv' /\ RelayInv'
    BY <1>1, IdleAgrees, StepKeepsRecords DEF journalVars
  <1> QED
    BY <1>1, <1>2 DEF CallInv, IInv, TypeOK, journalVars

LEMMA MoveOnly ==
    ASSUME IInv, NEW c \in Callers, Works(c), NEW r \in Run,
           r.pc \notin {"idle", "queued"}, r.key = run[c].key,
           run' = [run EXCEPT ![c] = r], RunOK(c)',
           UNCHANGED <<queue, journalVars, approvals, relayed>>
    PROVE  CallInv'
  <1>1. /\ run' \in [Callers -> Run] /\ queue' \in [Keys -> Seq(Callers)] /\ QueueInv'
        /\ \A d \in Callers : run'[d] = IF d = c THEN r ELSE run[d]
    BY MoveStep
  <1>2. JournalInv' /\ RunInv' /\ RelayInv'
    BY <1>1, StepKeepsRecords DEF journalVars
  <1> QED
    BY <1>1, <1>2 DEF CallInv, IInv, TypeOK, journalVars

LEMMA RunMoved ==
    ASSUME TypeOK, NEW c \in Callers, NEW pc \in Points
    PROVE  /\ [run[c] EXCEPT !.pc = pc] \in Run
           /\ [run[c] EXCEPT !.pc = pc].pc = pc
           /\ [run[c] EXCEPT !.pc = pc].key = run[c].key
           /\ [run[c] EXCEPT !.pc = pc].tx = run[c].tx
           /\ [run EXCEPT ![c].pc = pc] = [run EXCEPT ![c] = [run[c] EXCEPT !.pc = pc]]
  BY DEF TypeOK, Run

LEMMA StoreThenStep ==
    ASSUME IInv, NEW c \in Callers, Works(c), run[c].key \in Keys,
           RecordOf(c).state \in States,
           NEW e \in Record, SameTransaction(RecordOf(c), e),
           NEW pc \in {"idle", "completing"}, StoreThen(c, e, pc),
           pc = "completing" => e.state = "submitted" /\ e.tx = run[c].tx,
           UNCHANGED <<approvals, relayed>>
    PROVE  CallInv'
  <1> DEFINE k == run[c].key
  <1>1. PICK outcome \in WriteOutcomes :
           /\ Store(k, e, outcome)
           /\ IF outcome = "synced" /\ pc # "idle" THEN Goto(c, pc) ELSE Settle(c)
    BY DEF StoreThen
  <1>2. TypeOK /\ e \in JournalEntry
    BY DEF IInv, JournalEntry
  <1>3. /\ visible' \in [Keys -> JournalEntry]
        /\ survivors' \in [Keys -> SUBSET JournalEntry]
        /\ \A j \in Keys : j # k => visible'[j] = visible[j]
        /\ visible'[k] = IF outcome = "notRenamed" THEN visible[k] ELSE e
    BY <1>1, <1>2, StoreEffect
  <1>4. SameTransaction(visible[k], visible'[k])
    BY <1>3 DEF SameTransaction, RecordOf
  <1>5. CASE outcome = "synced" /\ pc # "idle"
    <2> DEFINE r == [run[c] EXCEPT !.pc = pc]
    <2>1. /\ r \in Run /\ r.pc = "completing" /\ r.key = k /\ r.tx = run[c].tx
          /\ run' = [run EXCEPT ![c] = r] /\ UNCHANGED queue
      BY <1>1, <1>2, <1>5, RunMoved DEF Goto, Points, SyncPoints
    <2>2. /\ run' \in [Callers -> Run] /\ queue' \in [Keys -> Seq(Callers)] /\ QueueInv'
          /\ \A d \in Callers : run'[d] = IF d = c THEN r ELSE run[d]
      BY <2>1, MoveStep
    <2>3. RunOK(c)'
      BY <1>3, <1>5, <2>1, <2>2 DEF RunOK, Submitting
    <2>4. JournalInv' /\ RunInv' /\ RelayInv'
      BY <1>3, <1>4, <2>2, <2>3, StepWritesRecord
    <2> QED
      BY <1>3, <2>2, <2>4 DEF CallInv
  <1>6. CASE ~(outcome = "synced" /\ pc # "idle")
    <2>1. /\ run' \in [Callers -> Run] /\ queue' \in [Keys -> Seq(Callers)] /\ QueueInv'
          /\ \A d \in Callers : run'[d] = IF d = c THEN IdleRun ELSE run[d]
      BY <1>1, <1>6, SettleStep
    <2>2. JournalInv' /\ RunInv' /\ RelayInv'
      BY <1>3, <1>4, <2>1, IdleAgrees, StepWritesRecord
    <2> QED
      BY <1>3, <2>1, <2>2 DEF CallInv
  <1> QED
    BY <1>5, <1>6

\* Facts every step of an active call may use.
LEMMA ActiveFacts ==
    ASSUME IInv, NEW c \in Callers, Works(c), run[c].key \in Keys
    PROVE  /\ TypeOK /\ WorldTypes /\ CallInv
           /\ RecordOf(c) \in JournalEntry
           /\ run[c] \in Run
           /\ RecordOf(c).state \in States => RecordOf(c) \in Record
           /\ RecordOf(c).state \in Recoverable \cup {"submitted"} => RecordOf(c).tx \in Tx
           /\ RunOK(c)
  <1>1. TypeOK /\ WorldTypes /\ CallInv /\ RecordOf(c) \in JournalEntry /\ run[c] \in Run /\ RunOK(c)
    BY IInvParts DEF IInv, TypeOK, RunInv, RecordOf
  <1>2. RecordOf(c).state \in States => RecordOf(c) \in Record
    BY <1>1, EntryFields
  <1>3. ASSUME RecordOf(c).state \in Recoverable \cup {"submitted"}
        PROVE  RecordOf(c).tx \in Tx
    <2>1. RecordOf(c).tx # NoTx
      BY <1>3 DEF RecordOf, IInv, JournalInv, Recoverable, Unprepared, Preparable
    <2> QED
      BY <1>1, <2>1, EntryFields
  <1> QED
    BY <1>1, <1>2, <1>3

\* A change of state alone keeps the transaction.
LEMMA UpdatedKeeps ==
    ASSUME IInv, NEW c \in Callers, Works(c), run[c].key \in Keys,
           RecordOf(c).state \in States \ Unapproved, NEW s \in States \ Unapproved,
           RecordOf(c).state \in Unprepared <=> s \in Unprepared
    PROVE  /\ Updated(run[c].key, s) \in Record
           /\ SameTransaction(RecordOf(c), Updated(run[c].key, s))
           /\ Updated(run[c].key, s).state = s
           /\ Updated(run[c].key, s).tx = RecordOf(c).tx
  <1>1. TypeOK /\ visible[run[c].key].state \in States
    BY DEF IInv, RecordOf
  <1> QED
    BY <1>1, UpdatedRecord DEF SameTransaction, RecordOf

LEMMA BeginStep ==
    ASSUME IInv, NEW c \in Callers,
           BeginNothingToDo(c) \/ BeginSubmitted(c) \/ BeginRecovering(c)
    PROVE  IInv'
  <1>1. Begins(c)
    BY DEF BeginNothingToDo, BeginSubmitted, BeginRecovering
  <1>2. Works(c) /\ run[c].key \in Keys
    BY <1>1, WorksWhenBegins
  <1>3. WorldTypes'
    BY IInvParts DEF WorldTypes, BeginNothingToDo, BeginSubmitted, BeginRecovering,
                     processVars, chainVars, historyVars
  <1>4. CASE BeginNothingToDo(c)
    BY <1>2, <1>3, <1>4, SettleOnly, IInvPartsPrime DEF BeginNothingToDo, historyVars
  <1>5. ASSUME NEW pc \in {"completing", "reconciling"},
               pc = "completing" => RecordOf(c).state = "submitted",
               pc = "reconciling" => RecordOf(c).state \in Recoverable,
               run' = [run EXCEPT ![c].pc = pc, ![c].tx = RecordOf(c).tx],
               UNCHANGED <<queue, journalVars, approvals, relayed>>
        PROVE  CallInv'
    <2> DEFINE r == [run[c] EXCEPT !.pc = pc, !.tx = RecordOf(c).tx]
    <2>1. run[c] \in Run /\ RecordOf(c).tx \in Tx /\ run \in [Callers -> Run]
      BY <1>2, <1>5, ActiveFacts DEF TypeOK
    <2>2. /\ r \in Run /\ r.pc = pc /\ r.key = run[c].key /\ r.tx = RecordOf(c).tx
          /\ run' = [run EXCEPT ![c] = r]
      BY <1>5, <2>1 DEF Run, Points, SyncPoints
    <2>3. run'[c] = r
      BY <2>1, <2>2
    <2>4. RunOK(c)'
      BY <1>5, <2>2, <2>3 DEF RunOK, RecordOf, Submitting, journalVars
    <2> QED
      BY <1>2, <1>5, <2>2, <2>4, MoveOnly
  <1>6. CASE BeginSubmitted(c)
    BY <1>3, <1>5, <1>6, IInvPartsPrime DEF BeginSubmitted, historyVars
  <1>7. CASE BeginRecovering(c)
    BY <1>3, <1>5, <1>7, IInvPartsPrime DEF BeginRecovering, historyVars
  <1> QED
    BY <1>4, <1>6, <1>7

\* A step that only moves the call to another point.
LEMMA GotoStep ==
    ASSUME IInv, NEW c \in Callers, Works(c), run[c].key \in Keys,
           NEW pc \in Points \ {"idle", "queued"}, Goto(c, pc),
           \/ pc = "failing" /\ RecordOf(c).state \in Preparable
           \/ pc = "preparing" /\ RecordOf(c).state = "preparing"
           \/ /\ pc \in {"expiring"} \cup Submitting
              /\ run[c].pc \in {"reconciling", "expiring"} \cup Submitting,
           UNCHANGED <<journalVars, approvals, relayed>>
    PROVE  CallInv'
  <1> DEFINE r == [run[c] EXCEPT !.pc = pc]
  <1>1. TypeOK /\ RunOK(c)
    BY ActiveFacts
  <1>2. /\ r \in Run /\ r.pc = pc /\ r.key = run[c].key /\ r.tx = run[c].tx
        /\ run' = [run EXCEPT ![c] = r] /\ UNCHANGED queue
    BY <1>1, RunMoved DEF Goto
  <1>3. run'[c] = r
    BY <1>1, <1>2 DEF TypeOK
  <1>4. RunOK(c)'
    BY <1>1, <1>2, <1>3 DEF RunOK, RecordOf, Submitting, Preparable, journalVars
  <1> QED
    BY <1>2, <1>4, MoveOnly

\* A write whose failure lands in the catch block around the preparation.
LEMMA StoreGotoStep ==
    ASSUME IInv, NEW c \in Callers, Works(c), run[c].key \in Keys,
           NEW e \in Record, NEW outcome \in WriteOutcomes, Store(run[c].key, e, outcome),
           SameTransaction(RecordOf(c), e), RecordOf(c).state \in Preparable,
           e.state = "preparing", NEW pc \in {"preparing", "failing"}, Goto(c, pc),
           pc = "preparing" => outcome = "synced",
           UNCHANGED <<approvals, relayed>>
    PROVE  CallInv'
  <1> DEFINE k == run[c].key
             r == [run[c] EXCEPT !.pc = pc]
  <1>1. TypeOK /\ e \in JournalEntry /\ pc \in Points
    BY DEF IInv, JournalEntry, Points, SyncPoints
  <1>2. /\ visible' \in [Keys -> JournalEntry]
        /\ survivors' \in [Keys -> SUBSET JournalEntry]
        /\ \A j \in Keys : j # k => visible'[j] = visible[j]
        /\ visible'[k] = IF outcome = "notRenamed" THEN visible[k] ELSE e
    BY <1>1, StoreEffect
  <1>3. SameTransaction(visible[k], visible'[k])
    BY <1>2 DEF SameTransaction, RecordOf
  <1>4. /\ r \in Run /\ r.pc = pc /\ r.key = k /\ r.tx = run[c].tx
        /\ run' = [run EXCEPT ![c] = r] /\ UNCHANGED queue
    BY <1>1, RunMoved DEF Goto
  <1>5. /\ run' \in [Callers -> Run] /\ queue' \in [Keys -> Seq(Callers)] /\ QueueInv'
        /\ \A d \in Callers : run'[d] = IF d = c THEN r ELSE run[d]
    BY <1>4, MoveStep
  <1>6. RunOK(c)'
    BY <1>2, <1>4, <1>5 DEF RunOK, RecordOf, Submitting, Preparable
  <1>7. JournalInv' /\ RunInv' /\ RelayInv'
    BY <1>2, <1>3, <1>5, <1>6, StepWritesRecord
  <1> QED
    BY <1>2, <1>5, <1>7 DEF CallInv

LEMMA BeginPreparingStep ==
    ASSUME IInv, NEW c \in Callers, BeginPreparing(c)
    PROVE  IInv'
  <1>1. Works(c) /\ run[c].key \in Keys
    BY WorksWhenBegins DEF BeginPreparing
  <1>2. WorldTypes'
    BY IInvParts DEF WorldTypes, BeginPreparing, processVars, chainVars, historyVars
  <1>3. UNCHANGED <<approvals, relayed>>
    BY DEF BeginPreparing, historyVars
  <1>4. {"preparing", "failing"} \subseteq Points \ {"idle", "queued"}
    BY DEF Points, SyncPoints
  <1>5. CASE RecordOf(c).state = "preparing" /\ Goto(c, "preparing") /\ UNCHANGED journalVars
    BY <1>1, <1>3, <1>4, <1>5, GotoStep, <1>2, IInvPartsPrime
  <1>6. CASE /\ RecordOf(c).state = "approved"
             /\ \E outcome \in WriteOutcomes :
                  /\ Store(run[c].key, Updated(run[c].key, "preparing"), outcome)
                  /\ Goto(c, IF outcome = "synced" THEN "preparing" ELSE "failing")
    <2>1. PICK outcome \in WriteOutcomes :
             /\ Store(run[c].key, Updated(run[c].key, "preparing"), outcome)
             /\ Goto(c, IF outcome = "synced" THEN "preparing" ELSE "failing")
      BY <1>6
    <2>2. /\ Updated(run[c].key, "preparing") \in Record
          /\ SameTransaction(RecordOf(c), Updated(run[c].key, "preparing"))
          /\ Updated(run[c].key, "preparing").state = "preparing"
      BY <1>1, <1>6, UpdatedKeeps DEF States, Unapproved, Unprepared, Preparable
    <2>3. CallInv'
      BY <1>1, <1>3, <1>6, <2>1, <2>2, StoreGotoStep DEF Preparable
    <2> QED
      BY <2>3, <1>2, IInvPartsPrime
  <1> QED
    BY <1>5, <1>6 DEF BeginPreparing

\* The only step that gives a record its transaction: no transaction of the
\* key has been relayed before it.
LEMMA PrepareSucceedsStep ==
    ASSUME ConstantsAssumption, IInv, NEW c \in Callers, PrepareSucceeds(c)
    PROVE  IInv'
  <1> DEFINE k == run[c].key
             txAt(seen) == [key |-> k, request |-> RecordOf(c).request,
                            serial |-> signed[k] + 1, vub |-> seen + Lifespan]
  <1>1. Works(c) /\ k \in Keys /\ run[c].pc = "preparing"
    BY WorksWhenActive DEF PrepareSucceeds
  <1>2. /\ TypeOK /\ WorldTypes /\ RecordOf(c) \in Record /\ run[c] \in Run
        /\ RecordOf(c).state \in Preparable /\ RecordOf(c).tx = NoTx
    BY <1>1, ActiveFacts DEF RunOK, RecordOf, Preparable, States, Unprepared, IInv, JournalInv
  <1>3. PICK seen \in SeenHeights :
           /\ signed[k] < MaxPreparations
           /\ signed' = [signed EXCEPT ![k] = @ + 1]
           /\ verified' = (verified \/ txAt(seen).request \in Deployments)
           /\ \E outcome \in WriteOutcomes :
                /\ Store(k, [Updated(k, "submitting") EXCEPT !.tx = txAt(seen)], outcome)
                /\ SubmitOncePersisted(c, txAt(seen), outcome)
           /\ UNCHANGED <<queue, processVars, chainVars, historyVars>>
    BY <1>2 DEF PrepareSucceeds
  <1> DEFINE tx == txAt(seen)
             e == [Updated(k, "submitting") EXCEPT !.tx = tx]
  <1>4. PICK outcome \in WriteOutcomes :
           Store(k, e, outcome) /\ SubmitOncePersisted(c, tx, outcome)
    BY <1>3
  <1>5. seen + Lifespan \in 0 .. MaxHeight + Lifespan
    <2>1. height \in 0 .. MaxHeight /\ Lifespan \in Nat /\ MaxHeight \in Nat
      BY <1>2 DEF ConstantsAssumption, WorldTypes
    <2>2. seen \in 0 .. height
      BY <2>1 DEF SeenHeights
    <2> QED
      BY <2>1, <2>2
  <1>6. signed[k] + 1 \in 1 .. MaxPreparations /\ MaxPreparations \in Nat
    BY <1>1, <1>2, <1>3 DEF WorldTypes, ConstantsAssumption
  <1>7. RecordOf(c).request \in Requests
    BY <1>2 DEF Record
  <1>8. tx \in Tx /\ tx.key = k /\ tx.request = RecordOf(c).request /\ tx # NoTx
    BY <1>1, <1>5, <1>6, <1>7, NoTxIsNotATransaction DEF Tx
  <1>9. /\ Updated(k, "submitting") \in Record
        /\ Updated(k, "submitting").state = "submitting"
        /\ Updated(k, "submitting").request = RecordOf(c).request
    BY <1>1, <1>2, UpdatedRecord DEF RecordOf, States, Preparable
  <1>10. /\ e \in Record /\ e \in JournalEntry /\ e.tx = tx
         /\ e.state = "submitting" /\ e.request = RecordOf(c).request
    BY <1>8, <1>9 DEF Record, JournalEntry
  <1>11. /\ visible' \in [Keys -> JournalEntry]
         /\ survivors' \in [Keys -> SUBSET JournalEntry]
         /\ \A j \in Keys : j # k => visible'[j] = visible[j]
         /\ visible'[k] = IF outcome = "notRenamed" THEN visible[k] ELSE e
    BY <1>1, <1>2, <1>4, <1>10, StoreEffect
  <1> DEFINE r == IF outcome = "synced" THEN [run[c] EXCEPT !.pc = "submitting", !.tx = tx]
                  ELSE [run[c] EXCEPT !.pc = "failing"]
  <1>12. /\ r \in Run /\ r.key = k
         /\ r.pc = IF outcome = "synced" THEN "submitting" ELSE "failing"
         /\ outcome = "synced" => r.tx = tx
    BY <1>2, <1>8 DEF Run, Points, SyncPoints
  <1>13. run' = [run EXCEPT ![c] = r] /\ UNCHANGED queue
    BY <1>2, <1>3, <1>4 DEF SubmitOncePersisted, TypeOK
  <1> HIDE DEF r, e, tx
  <1>14. /\ run' \in [Callers -> Run] /\ queue' \in [Keys -> Seq(Callers)] /\ QueueInv'
         /\ \A d \in Callers : run'[d] = IF d = c THEN r ELSE run[d]
    BY <1>1, <1>12, <1>13, MoveStep
  <1>15. RunOK(c)'
    BY <1>2, <1>10, <1>11, <1>12, <1>14
    DEF RunOK, RecordOf, Submitting, Recoverable, Preparable
  <1>16. RunInv'
    BY <1>1, <1>11, <1>14, <1>15, OthersAgree
  <1>17. JournalInv'
    <2> SUFFICES ASSUME NEW j \in Keys
                 PROVE  /\ visible'[j].tx = NoTx <=>
                              visible'[j].state \in Unprepared \cup {"absent", "torn"}
                        /\ visible'[j].tx # NoTx =>
                              /\ visible'[j].tx.key = j
                              /\ visible'[j].tx.request = visible'[j].request
                        /\ visible'[j].state \notin Unapproved =>
                              visible'[j].request \in approvals'[j]
      BY DEF JournalInv
    <2>1. UNCHANGED approvals
      BY <1>3 DEF historyVars
    <2>2. CASE j # k \/ outcome = "notRenamed"
      BY <1>11, <2>1, <2>2 DEF IInv, JournalInv
    <2>3. CASE j = k /\ outcome # "notRenamed"
      <3>1. visible[k].request \in approvals[k]
        BY <1>1, <1>2 DEF IInv, JournalInv, RecordOf, Unapproved, Preparable
      <3> QED
        BY <1>8, <1>10, <1>11, <2>1, <2>3, <3>1
        DEF RecordOf, Unprepared, Unapproved, Preparable
    <2> QED
      BY <2>2, <2>3
  <1>18. RelayInv'
    <2>1. UNCHANGED relayed /\ \A t \in relayed : t.key \in Keys /\ t # NoTx
      BY <1>2, <1>3, NoTxIsNotATransaction DEF historyVars, WorldTypes, Tx
    <2>2. \A t \in relayed : t.key # k
      BY <1>2, <2>1 DEF IInv, RelayInv, RecordOf
    <2> QED
      BY <1>11, <2>1, <2>2 DEF IInv, RelayInv
  <1>19. WorldTypes'
    BY <1>1, <1>2, <1>3, <1>6 DEF WorldTypes, processVars, chainVars, historyVars
  <1> QED
    BY <1>11, <1>14, <1>16, <1>17, <1>18, <1>19, IInvPartsPrime DEF CallInv

LEMMA FailStep ==
    ASSUME IInv, NEW c \in Callers, PrepareFails(c) \/ FailBeforeSubmission(c)
    PROVE  IInv'
  <1>1. Works(c) /\ run[c].key \in Keys
    BY WorksWhenActive DEF PrepareFails, FailBeforeSubmission
  <1>2. TypeOK /\ RunOK(c)
    BY <1>1, ActiveFacts
  <1>3. WorldTypes'
    BY IInvParts DEF WorldTypes, PrepareFails, FailBeforeSubmission,
                     processVars, chainVars, historyVars
  <1>4. UNCHANGED <<approvals, relayed>>
    BY DEF PrepareFails, FailBeforeSubmission, historyVars
  <1>5. CASE PrepareFails(c)
    <2>1. RecordOf(c).state \in Preparable
      BY <1>2, <1>5 DEF PrepareFails, RunOK, RecordOf
    <2>2. "failing" \in Points \ {"idle", "queued"}
      BY DEF Points, SyncPoints
    <2>3. CallInv'
      BY <1>1, <1>4, <1>5, <2>1, <2>2, GotoStep DEF PrepareFails
    <2> QED
      BY <2>3, <1>3, IInvPartsPrime
  <1>6. CASE FailBeforeSubmission(c) /\ RecordOf(c).tx # NoTx
    <2>1. CallInv'
      BY <1>1, <1>4, <1>6, SettleOnly DEF FailBeforeSubmission
    <2> QED
      BY <2>1, <1>3, IInvPartsPrime
  <1>7. CASE FailBeforeSubmission(c) /\ RecordOf(c).tx = NoTx
    <2>1. RecordOf(c).state \in Preparable
      BY <1>1, <1>2, <1>7
      DEF FailBeforeSubmission, RunOK, RecordOf, IInv, JournalInv, Unprepared, Preparable
    <2>2. /\ Updated(run[c].key, "failed_before_submission") \in Record
          /\ SameTransaction(RecordOf(c), Updated(run[c].key, "failed_before_submission"))
      BY <1>1, <2>1, UpdatedKeeps DEF States, Unapproved, Unprepared, Preparable
    <2>3. StoreThen(c, Updated(run[c].key, "failed_before_submission"), "idle")
      BY <1>7 DEF FailBeforeSubmission
    <2>4. RecordOf(c).state \in States
      BY <2>1 DEF States, Preparable
    <2>5. CallInv'
      BY <1>1, <1>4, <2>2, <2>3, <2>4, StoreThenStep
    <2> QED
      BY <2>5, <1>3, IInvPartsPrime
  <1> QED
    BY <1>5, <1>6, <1>7

\* A verdict on a transaction that may have been relayed.
LEMMA VerdictStep ==
    ASSUME IInv, NEW c \in Callers,
           run[c].pc \in {"reconciling", "expiring"} \cup Submitting,
           NEW s \in Recoverable \cup {"submitted", "expired", "rejected"},
           NEW pc \in {"idle", "completing"}, pc = "completing" => s = "submitted",
           StoreThen(c, Updated(run[c].key, s), pc), UNCHANGED <<approvals, relayed>>
    PROVE  CallInv'
  <1>1. Works(c) /\ run[c].key \in Keys
    BY WorksWhenActive DEF Submitting
  <1>2. RecordOf(c).state \in Recoverable /\ RecordOf(c).tx = run[c].tx
    BY <1>1, ActiveFacts DEF RunOK, RecordOf
  <1>3. RecordOf(c).state \in States
    BY <1>2 DEF States, Recoverable
  <1>4. /\ Updated(run[c].key, s) \in Record
        /\ SameTransaction(RecordOf(c), Updated(run[c].key, s))
        /\ Updated(run[c].key, s).state = s
        /\ Updated(run[c].key, s).tx = RecordOf(c).tx
    BY <1>1, <1>2, UpdatedKeeps DEF States, Unapproved, Unprepared, Preparable, Recoverable
  <1> QED
    BY <1>1, <1>2, <1>3, <1>4, StoreThenStep

LEMMA ReconcileStep ==
    ASSUME IInv, NEW c \in Callers,
           \/ ReconcileFound(c) \/ ReconcileMissing(c)
           \/ Expire(c) \/ NotExpired(c) \/ ReadFails(c)
    PROVE  IInv'
  <1>1. Works(c) /\ run[c].key \in Keys /\ run[c].pc \in {"reconciling", "expiring"}
    BY WorksWhenActive
    DEF ReconcileFound, ReconcileMissing, Expire, NotExpired, ReadFails
  <1>2. WorldTypes' /\ UNCHANGED <<approvals, relayed>>
    BY IInvParts DEF WorldTypes, ReconcileFound, ReconcileMissing, Expire, NotExpired,
                     ReadFails, processVars, chainVars, historyVars
  <1>3. {"expiring", "submitting"} \subseteq Points \ {"idle", "queued"}
    BY DEF Points, SyncPoints
  <1>4. CASE ReconcileFound(c)
    BY <1>1, <1>2, <1>4, VerdictStep, IInvPartsPrime DEF ReconcileFound
  <1>5. CASE ReconcileMissing(c)
    BY <1>1, <1>2, <1>3, <1>5, GotoStep, IInvPartsPrime DEF ReconcileMissing
  <1>6. CASE Expire(c)
    BY <1>1, <1>2, <1>6, VerdictStep, IInvPartsPrime DEF Expire
  <1>7. CASE NotExpired(c)
    BY <1>1, <1>2, <1>3, <1>7, GotoStep, IInvPartsPrime DEF NotExpired, Submitting
  <1>8. CASE ReadFails(c)
    BY <1>1, <1>2, <1>8, SettleOnly, IInvPartsPrime DEF ReadFails
  <1> QED
    BY <1>4, <1>5, <1>6, <1>7, <1>8

LEMMA SubmitStep ==
    ASSUME IInv, NEW c \in Callers,
           SubmitAcknowledged(c) \/ SubmitRefused(c) \/ SubmitUnknown(c)
    PROVE  IInv'
  <1>1. run[c].pc \in Submitting
    BY DEF SubmitAcknowledged, SubmitRefused, SubmitUnknown, Submitting
  <1>2. Works(c) /\ run[c].key \in Keys
    BY <1>1, WorksWhenActive DEF Submitting
  <1>3. run[c].tx \in Tx
    BY <1>1, <1>2, ActiveFacts DEF RunOK, RecordOf
  <1>4. WorldTypes' /\ UNCHANGED <<approvals, relayed>>
    BY <1>3, IInvParts DEF WorldTypes, SubmitAcknowledged, SubmitRefused, SubmitUnknown,
                     processVars, chainVars, historyVars
  <1>5. CASE SubmitAcknowledged(c)
    BY <1>1, <1>4, <1>5, VerdictStep, IInvPartsPrime DEF SubmitAcknowledged
  <1>6. CASE SubmitRefused(c)
    BY <1>1, <1>4, <1>6, VerdictStep, IInvPartsPrime DEF SubmitRefused
  <1>7. CASE SubmitUnknown(c)
    BY <1>1, <1>4, <1>7, VerdictStep, IInvPartsPrime DEF SubmitUnknown, Recoverable
  <1> QED
    BY <1>5, <1>6, <1>7

\* What is handed to the network is the transaction in the record.
LEMMA SendStep ==
    ASSUME IInv, NEW c \in Callers, Send(c)
    PROVE  IInv'
  <1> DEFINE k == run[c].key
             r == [run[c] EXCEPT !.pc = "inFlight"]
  <1>1. Works(c) /\ k \in Keys
    BY WorksWhenActive DEF Send
  <1>2. /\ TypeOK /\ WorldTypes /\ RunOK(c)
        /\ visible[k].state \in Recoverable
        /\ visible[k].tx = run[c].tx /\ run[c].tx \in Tx
    BY <1>1, ActiveFacts DEF RunOK, RecordOf, Send, Submitting
  <1>3. run[c].tx.key = k
    BY <1>1, <1>2, NoTxIsNotATransaction DEF IInv, JournalInv
  <1>4. /\ r \in Run /\ r.pc = "inFlight" /\ r.key = k /\ r.tx = run[c].tx
        /\ run' = [run EXCEPT ![c] = r] /\ UNCHANGED queue
    BY <1>2, RunMoved DEF Send, Goto, Points
  <1> HIDE DEF r
  <1>5. /\ run' \in [Callers -> Run] /\ queue' \in [Keys -> Seq(Callers)] /\ QueueInv'
        /\ \A d \in Callers : run'[d] = IF d = c THEN r ELSE run[d]
    BY <1>1, <1>4, MoveStep
  <1>6. UNCHANGED <<visible, survivors, approvals>> /\ relayed' = relayed \cup {run[c].tx}
    BY DEF Send, journalVars
  <1>7. RunOK(c)'
    BY <1>2, <1>4, <1>5, <1>6 DEF RunOK, Submitting
  <1>8. RunInv'
    BY <1>1, <1>5, <1>6, <1>7, OthersAgree
  <1>9. JournalInv' /\ RelayInv'
    BY <1>2, <1>3, <1>6 DEF IInv, JournalInv, RelayInv
  <1>10. WorldTypes'
    <2>1. verified' \in BOOLEAN
      BY <1>2 DEF Send, WorldTypes
    <2> QED
      BY <1>2, <1>6, <2>1 DEF WorldTypes, Send, processVars, chainVars
  <1>11. visible' \in [Keys -> JournalEntry] /\ survivors' \in [Keys -> SUBSET JournalEntry]
    BY <1>2, <1>6 DEF TypeOK
  <1> QED
    BY <1>5, <1>8, <1>9, <1>10, <1>11, IInvPartsPrime DEF CallInv

LEMMA CompleteStep ==
    ASSUME IInv, NEW c \in Callers, Complete(c)
    PROVE  IInv'
  <1> DEFINE e == [RecordOf(c) EXCEPT !.result = TRUE]
  <1>1. Works(c) /\ run[c].key \in Keys
    BY WorksWhenActive DEF Complete
  <1>2. RecordOf(c).state = "submitted" /\ RecordOf(c) \in Record
    BY <1>1, ActiveFacts DEF Complete, RunOK, RecordOf, States
  <1>3. e \in Record /\ SameTransaction(RecordOf(c), e)
    BY <1>2 DEF Record, SameTransaction
  <1>4. RecordOf(c).state \in States /\ StoreThen(c, e, "idle")
    BY <1>2 DEF Complete, States
  <1>5. WorldTypes' /\ UNCHANGED <<approvals, relayed>>
    BY IInvParts DEF WorldTypes, Complete, processVars, chainVars, historyVars
  <1>6. CallInv'
    BY <1>1, <1>3, <1>4, <1>5, StoreThenStep
  <1> QED
    BY <1>5, <1>6, IInvPartsPrime

LEMMA AdvanceStep ==
    ASSUME ConstantsAssumption, IInv, NEW c \in Callers, Advance(c)
    PROVE  IInv'
  BY BeginStep, BeginPreparingStep, PrepareSucceedsStep, FailStep, ReconcileStep,
     SubmitStep, SendStep, CompleteStep DEF Advance

-----------------------------------------------------------------------------
(* The other steps.                                                        *)

\* reserve(), approve() and decline() write a record no execution works on.
LEMMA HandlerWrites ==
    ASSUME IInv, NEW k \in Keys, NEW e \in Record, NEW outcome \in WriteOutcomes,
           Store(k, e, outcome), visible[k].state \in {"absent", "awaiting_approval"},
           e.tx = NoTx, e.state \in Unprepared, UNCHANGED <<callVars, relayed>>,
           \A j \in Keys : approvals[j] \subseteq approvals'[j],
           e.state \notin Unapproved => e.request \in approvals'[k]
    PROVE  CallInv'
  <1>1. TypeOK /\ e \in JournalEntry
    BY DEF IInv, JournalEntry
  <1>2. /\ visible' \in [Keys -> JournalEntry]
        /\ survivors' \in [Keys -> SUBSET JournalEntry]
        /\ \A j \in Keys : j # k => visible'[j] = visible[j]
        /\ visible'[k] = IF outcome = "notRenamed" THEN visible[k] ELSE e
    BY <1>1, StoreEffect
  <1>3. visible[k].tx = NoTx /\ visible'[k].tx = NoTx
    BY <1>2 DEF IInv, JournalInv, Unprepared
  <1>4. JournalInv'
    <2> SUFFICES ASSUME NEW j \in Keys
                 PROVE  /\ visible'[j].tx = NoTx <=>
                              visible'[j].state \in Unprepared \cup {"absent", "torn"}
                        /\ visible'[j].tx # NoTx =>
                              /\ visible'[j].tx.key = j
                              /\ visible'[j].tx.request = visible'[j].request
                        /\ visible'[j].state \notin Unapproved =>
                              visible'[j].request \in approvals'[j]
      BY DEF JournalInv
    <2>1. CASE j # k \/ outcome = "notRenamed"
      BY <1>2, <2>1 DEF IInv, JournalInv
    <2>2. CASE j = k /\ outcome # "notRenamed"
      BY <1>2, <1>3, <2>2
    <2> QED
      BY <2>1, <2>2
  <1>5. RunInv'
    <2> SUFFICES ASSUME NEW c \in Callers PROVE RunOK(c)'
      BY DEF RunInv
    <2>1. run' = run
      BY DEF callVars
    <2>2. CASE run[c].pc \in {"idle", "queued"}
      BY <2>1, <2>2 DEF RunOK, Submitting
    <2>3. CASE run[c].pc \notin {"idle", "queued"}
      <3>1. run[c].key \in Keys /\ RunOK(c) /\ run[c] \in Run
        BY <2>3, WorksWhenActive, ActiveFacts
      <3>2. run[c].key # k
        BY <2>3, <3>1 DEF RunOK, Run, Points, SyncPoints, Submitting, Preparable, Recoverable
      <3> QED
        BY <1>2, <2>1, <3>1, <3>2 DEF RunOK
    <2> QED
      BY <2>2, <2>3
  <1>6. RelayInv'
    BY <1>2, <1>3, RelayKept
  <1>7. /\ run' \in [Callers -> Run] /\ queue' \in [Keys -> Seq(Callers)] /\ QueueInv'
    <2>1. run' = run /\ queue' = queue
      BY <1>1 DEF callVars
    <2>2. run \in [Callers -> Run] /\ queue \in [Keys -> Seq(Callers)] /\ QueueInv
      BY DEF TypeOK, IInv
    <2>3. QueueInv'
      <3>1. \A k1 \in Keys : \A i, j \in 1 .. Len(queue'[k1]) :
              queue'[k1][i] = queue'[k1][j] => i = j
        BY <2>1, <2>2 DEF QueueInv
      <3>2. \A k1 \in Keys : \A i \in 1 .. Len(queue'[k1]) :
              run'[queue'[k1][i]].pc # "idle" /\ run'[queue'[k1][i]].key = k1
        BY <2>1, <2>2 DEF QueueInv
      <3>3. \A d \in Callers : run'[d].pc # "idle" => run'[d].key \in Keys
        BY <2>1, <2>2 DEF QueueInv
      <3>4. \A d \in Callers : run'[d].pc \notin {"idle", "queued"} =>
              queue'[run'[d].key] # <<>> /\ Head(queue'[run'[d].key]) = d
        BY <2>1, <2>2 DEF QueueInv
      <3> QED
        BY <3>1, <3>2, <3>3, <3>4 DEF QueueInv
    <2> QED
      BY <2>1, <2>2, <2>3
  <1> QED
    BY <1>2, <1>4, <1>5, <1>6, <1>7 DEF CallInv

LEMMA ReserveStep ==
    ASSUME IInv, NEW k \in Keys, NEW r \in Requests, Reserve(k, r)
    PROVE  IInv'
  <1> DEFINE e == [request |-> r, state |-> "awaiting_approval", tx |-> NoTx, result |-> FALSE]
  <1>1. e \in Record /\ e.tx = NoTx /\ e.state = "awaiting_approval"
    BY DEF Record, States
  <1>2. visible[k].state = "absent"
    BY DEF Reserve, NoRecord
  <1>3. PICK outcome \in WriteOutcomes : Store(k, e, outcome)
    BY DEF Reserve
  <1>4. WorldTypes' /\ UNCHANGED <<callVars, approvals, relayed>>
    BY IInvParts DEF WorldTypes, Reserve, processVars, callVars, chainVars, historyVars
  <1> HIDE DEF e
  <1>5. CallInv'
    BY <1>1, <1>2, <1>3, <1>4, HandlerWrites DEF Unprepared, Unapproved
  <1> QED
    BY <1>4, <1>5, IInvPartsPrime

LEMMA ApproveStep ==
    ASSUME IInv, NEW k \in Keys, NEW r \in Requests, Approve(k, r)
    PROVE  IInv'
  <1> DEFINE e == Updated(k, "approved")
  <1>1. TypeOK /\ WorldTypes /\ visible[k].state = "awaiting_approval"
    BY IInvParts DEF IInv, Approve
  <1>2. /\ e \in Record /\ e.state = "approved" /\ e.tx = NoTx
        /\ e.request = visible[k].request
    BY <1>1, UpdatedRecord DEF States, IInv, JournalInv, Unprepared
  <1>3. visible[k].request = r
    BY DEF Approve
  <1>4. PICK outcome \in WriteOutcomes : Store(k, e, outcome)
    BY DEF Approve
  <1>5. /\ approvals' \in [Keys -> SUBSET Requests]
        /\ \A j \in Keys : approvals[j] \subseteq approvals'[j]
        /\ r \in approvals'[k]
    BY <1>1 DEF Approve, WorldTypes
  <1>6. UNCHANGED <<callVars, relayed>>
    BY DEF Approve
  <1>7. WorldTypes'
    BY <1>1, <1>5 DEF WorldTypes, Approve, processVars, callVars, chainVars
  <1> HIDE DEF e
  <1>8. CallInv'
    BY <1>1, <1>2, <1>3, <1>4, <1>5, <1>6, HandlerWrites DEF Unprepared, Preparable
  <1> QED
    BY <1>7, <1>8, IInvPartsPrime

LEMMA DeclineStep ==
    ASSUME IInv, NEW k \in Keys, Decline(k)
    PROVE  IInv'
  <1> DEFINE e == Updated(k, "declined")
  <1>1. TypeOK /\ visible[k].state = "awaiting_approval"
    BY DEF IInv, Decline
  <1>2. e \in Record /\ e.state = "declined" /\ e.tx = NoTx
    BY <1>1, UpdatedRecord DEF States, IInv, JournalInv, Unprepared
  <1>3. PICK outcome \in WriteOutcomes : Store(k, e, outcome)
    BY DEF Decline
  <1>4. WorldTypes' /\ UNCHANGED <<callVars, approvals, relayed>>
    BY IInvParts DEF WorldTypes, Decline, processVars, callVars, chainVars, historyVars
  <1> HIDE DEF e
  <1>5. CallInv'
    BY <1>1, <1>2, <1>3, <1>4, HandlerWrites DEF Unprepared, Unapproved
  <1> QED
    BY <1>4, <1>5, IInvPartsPrime

\* A new call joins the end of the queue.
LEMMA ExecuteStep ==
    ASSUME IInv, NEW c \in Callers, NEW k \in Keys, Execute(c, k)
    PROVE  IInv'
  <1> DEFINE r == [pc |-> "queued", key |-> k, tx |-> NoTx]
  <1>1. TypeOK /\ run[c].pc = "idle"
    BY DEF IInv, Execute
  <1>2. r \in Run /\ r.pc = "queued" /\ r.key = k /\ run' = [run EXCEPT ![c] = r]
    BY DEF Execute, Run, Points
  <1> HIDE DEF r
  <1>3. run' \in [Callers -> Run] /\ \A d \in Callers : run'[d] = IF d = c THEN r ELSE run[d]
    BY <1>1, <1>2 DEF TypeOK
  <1>4. /\ queue' \in [Keys -> Seq(Callers)]
        /\ \A j \in Keys : j # k => queue'[j] = queue[j]
        /\ queue'[k] = Append(queue[k], c) /\ queue[k] \in Seq(Callers)
    BY <1>1 DEF Execute, TypeOK
  <1>5. \A j \in Keys : \A i \in 1 .. Len(queue[j]) :
           queue[j][i] # c /\ queue[j][i] \in Callers /\ run'[queue[j][i]] = run[queue[j][i]]
    BY <1>1, <1>3 DEF IInv, QueueInv, TypeOK
  <1>6. /\ Len(queue'[k]) = Len(queue[k]) + 1
        /\ queue'[k][Len(queue[k]) + 1] = c
        /\ \A i \in 1 .. Len(queue[k]) : queue'[k][i] = queue[k][i]
    BY <1>4
  <1>7. ASSUME NEW j \in Keys, NEW a \in 1 .. Len(queue'[j]), NEW b \in 1 .. Len(queue'[j]),
               queue'[j][a] = queue'[j][b]
        PROVE  a = b
    <2>1. CASE j # k
      BY <1>4, <1>7, <2>1 DEF IInv, QueueInv
    <2>2. CASE j = k
      <3>1. Len(queue[k]) \in Nat
        BY <1>4
      <3>2. a \in 1 .. Len(queue[k]) \/ a = Len(queue[k]) + 1
        BY <1>6, <2>2, <3>1
      <3>3. b \in 1 .. Len(queue[k]) \/ b = Len(queue[k]) + 1
        BY <1>6, <2>2, <3>1
      <3>4. CASE a \in 1 .. Len(queue[k]) /\ b \in 1 .. Len(queue[k])
        BY <1>6, <1>7, <2>2, <3>4, SMTT(30) DEF IInv, QueueInv
      <3> QED
        BY <1>5, <1>6, <1>7, <2>2, <3>2, <3>3, <3>4
    <2> QED
      BY <2>1, <2>2
  <1>8. ASSUME NEW j \in Keys, NEW i \in 1 .. Len(queue'[j])
        PROVE  run'[queue'[j][i]].pc # "idle" /\ run'[queue'[j][i]].key = j
    <2>1. CASE j # k
      BY <1>4, <1>5, <2>1 DEF IInv, QueueInv
    <2>2. CASE j = k
      <3>1. i \in 1 .. Len(queue[k]) \/ i = Len(queue[k]) + 1
        BY <1>4, <1>6, <2>2
      <3> QED
        BY <1>2, <1>3, <1>5, <1>6, <2>2, <3>1 DEF IInv, QueueInv
    <2> QED
      BY <2>1, <2>2
  <1>9. ASSUME NEW d \in Callers, run'[d].pc # "idle"
        PROVE  run'[d].key \in Keys
    BY <1>2, <1>3, <1>9 DEF IInv, QueueInv
  <1>10. ASSUME NEW d \in Callers, run'[d].pc \notin {"idle", "queued"}
         PROVE  queue'[run'[d].key] # <<>> /\ Head(queue'[run'[d].key]) = d
    <2>1. run'[d] = run[d] /\ run[d].key \in Keys
          /\ queue[run[d].key] # <<>> /\ Head(queue[run[d].key]) = d
      BY <1>2, <1>3, <1>10 DEF IInv, QueueInv
    <2>2. queue[k] # <<>> => queue'[k] # <<>> /\ Head(queue'[k]) = Head(queue[k])
      BY <1>4
    <2> QED
      BY <1>4, <2>1, <2>2
  <1>11. QueueInv'
    BY <1>7, <1>8, <1>9, <1>10 DEF QueueInv
  <1>12. UNCHANGED <<visible, survivors, approvals, relayed>>
    BY DEF Execute, journalVars, historyVars
  <1>13. RunInv'
    BY <1>2, <1>3, <1>12 DEF IInv, RunInv, RunOK, Submitting
  <1>14. JournalInv' /\ RelayInv'
    BY <1>12 DEF IInv, JournalInv, RelayInv
  <1>15. WorldTypes'
    BY IInvParts DEF WorldTypes, Execute, processVars, chainVars, historyVars
  <1> QED
    BY <1>1, <1>3, <1>4, <1>11, <1>12, <1>13, <1>14, <1>15, IInvPartsPrime
    DEF CallInv, TypeOK

LEMMA NetworkStep ==
    ASSUME ConstantsAssumption, IInv, Network
    PROVE  IInv'
  <1>0. WorldTypes /\ CallInv /\ MaxHeight \in Nat
    BY IInvParts DEF ConstantsAssumption
  <1>1. ASSUME NEW c \in Callers, NodeAccepts(c) \/ NodeRefuses(c)
        PROVE  IInv'
    <2>1. Works(c) /\ run[c].key \in Keys /\ run[c].pc = "inFlight"
      BY <1>1, WorksWhenActive DEF NodeAccepts, NodeRefuses
    <2>2. run[c].tx \in Tx
      BY <2>1, ActiveFacts DEF RunOK, RecordOf, Submitting
    <2>3. WorldTypes' /\ UNCHANGED <<journalVars, approvals, relayed>>
      BY <1>0, <1>1, <2>2
      DEF WorldTypes, NodeAccepts, NodeRefuses, Admit, processVars, chainVars, historyVars
    <2>4. /\ {"acknowledged", "refused"} \subseteq Points \ {"idle", "queued"}
          /\ {"acknowledged", "refused", "inFlight"} \subseteq Submitting
      BY DEF Points, SyncPoints, Submitting
    <2>5. Goto(c, "acknowledged") \/ Goto(c, "refused")
      BY <1>1 DEF NodeAccepts, NodeRefuses
    <2>6. CallInv'
      BY <2>1, <2>3, <2>4, <2>5, GotoStep
    <2> QED
      BY <2>3, <2>6, IInvPartsPrime
  <1>2. ASSUME /\ UNCHANGED <<journalVars, processVars, callVars, approvals, relayed>>
               /\ height' \in 0 .. MaxHeight /\ mempool' \subseteq Tx /\ chain' \subseteq Tx
               /\ late' \subseteq Tx /\ accepted' \subseteq Tx
        PROVE  IInv'
    <2>1. WorldTypes'
      BY <1>0, <1>2 DEF WorldTypes, processVars, callVars
    <2>2. CallInv'
      BY <1>0, <1>2, SMTT(30) DEF CallInv, QueueInv, JournalInv, RunInv, RunOK, RelayInv,
                        journalVars, callVars
    <2> QED
      BY <2>1, <2>2, IInvPartsPrime
  <1>3. ASSUME NEW tx \in late, LateArrives(tx)
        PROVE  IInv'
    BY <1>0, <1>2, <1>3 DEF LateArrives, Admit, WorldTypes
  <1>4. ASSUME NEW included \in SUBSET {tx \in mempool : height + 1 <= tx.vub},
               MineBlock(included)
        PROVE  IInv'
    BY <1>0, <1>2, <1>4 DEF MineBlock, WorldTypes, historyVars
  <1>5. ASSUME NEW tx \in mempool, Evict(tx)
        PROVE  IInv'
    BY <1>0, <1>2, <1>5 DEF Evict, WorldTypes, historyVars
  <1> QED
    BY <1>1, <1>3, <1>4, <1>5 DEF Network

\* The journal survives a loss of power, or there is none.
OneStorageFault == "power" \notin Faults \/ "fsync" \notin Faults

\* If no fsync of the directory fails, what is visible is what is on the disk.
Durable ==
    "fsync" \notin Faults => /\ visible = [k \in Keys |-> visible[k]]
                             /\ survivors = [k \in Keys |-> {visible[k]}]

LEMMA StoreIsDurable ==
    ASSUME Durable, NEW k, NEW e, NEW outcome \in WriteOutcomes, Store(k, e, outcome)
    PROVE  Durable'
  BY DEF Durable, Store, WriteOutcomes

\* A loss of power then takes the calls, and nothing of the journal.
LEMMA PowerLossReverts ==
    ASSUME Durable, OneStorageFault, PowerLoss
    PROVE  StopProcess /\ visible' = visible /\ survivors' = survivors
  <1>1. /\ visible = [k \in Keys |-> visible[k]]
        /\ survivors = [k \in Keys |-> {visible[k]}]
    BY DEF Durable, OneStorageFault, PowerLoss
  <1>2. PICK found \in [Keys -> UNION {survivors[k] : k \in Keys}] :
           /\ \A k \in Keys : found[k] \in survivors[k]
           /\ visible' = found
           /\ survivors' = [k \in Keys |-> {found[k]}]
    BY DEF PowerLoss
  <1>3. \A k \in Keys : found[k] = visible[k]
    BY <1>1, <1>2
  <1>4. found = visible
    BY <1>1, <1>2, <1>3
  <1> QED
    BY <1>1, <1>2, <1>4 DEF PowerLoss

LEMMA DurableStep ==
    ASSUME Durable, [Next]_vars
    PROVE  Durable'
  <1>1. UNCHANGED journalVars => Durable'
    BY DEF Durable, journalVars
  <1>2. ASSUME NEW k \in Keys, Handler(k)
        PROVE  Durable'
    BY <1>1, <1>2, StoreIsDurable DEF Handler, Reserve, Approve, Decline, Execute
  <1>3. ASSUME NEW c \in Callers, Advance(c)
        PROVE  Durable'
    <2>1. ASSUME NEW e, NEW pc, StoreThen(c, e, pc)
          PROVE  Durable'
      BY <2>1, StoreIsDurable DEF StoreThen
    <2>2. CASE PrepareSucceeds(c)
      BY <1>1, <2>2, StoreIsDurable DEF PrepareSucceeds
    <2>3. CASE BeginPreparing(c)
      BY <1>1, <2>3, StoreIsDurable DEF BeginPreparing
    <2>4. CASE FailBeforeSubmission(c) \/ Complete(c)
      BY <1>1, <2>1, <2>4 DEF FailBeforeSubmission, Complete
    <2>5. CASE \/ ReconcileFound(c) \/ Expire(c)
               \/ SubmitAcknowledged(c) \/ SubmitRefused(c) \/ SubmitUnknown(c)
      BY <2>1, <2>5 DEF ReconcileFound, Expire, SubmitAcknowledged, SubmitRefused, SubmitUnknown
    <2>6. CASE \/ BeginNothingToDo(c) \/ BeginSubmitted(c) \/ BeginRecovering(c)
               \/ PrepareFails(c) \/ ReconcileMissing(c) \/ NotExpired(c)
               \/ ReadFails(c) \/ Send(c)
      BY <1>1, <2>6
      DEF BeginNothingToDo, BeginSubmitted, BeginRecovering, PrepareFails,
          ReconcileMissing, NotExpired, ReadFails, Send
    <2> QED
      BY <1>3, <2>2, <2>3, <2>4, <2>5, <2>6 DEF Advance
  <1>4. CASE Network
    BY <1>1, <1>4 DEF Network, NodeAccepts, NodeRefuses, LateArrives, MineBlock, Evict
  <1>5. CASE Process
    <2>1. CASE Crash \/ RemoveStaleLock \/ StartWriter
      BY <1>1, <2>1 DEF Crash, RemoveStaleLock, StartWriter
    <2>2. CASE PowerLoss
      BY <2>2 DEF PowerLoss, Durable
    <2>3. ASSUME NEW k \in Keys, CrashInReserve(k)
          PROVE  Durable'
      BY <2>3 DEF CrashInReserve, Durable
    <2> QED
      BY <1>5, <2>1, <2>2, <2>3 DEF Process
  <1>6. CASE UNCHANGED vars
    BY <1>1, <1>6 DEF vars
  <1> QED
    BY <1>2, <1>3, <1>4, <1>5, <1>6 DEF Next

\* When the process stops every call is gone, and the journal is as it was but
\* for the file of a reservation cut in two.
LEMMA StopStep ==
    ASSUME IInv, StopProcess, visible' \in [Keys -> JournalEntry],
           survivors' \in [Keys -> SUBSET JournalEntry],
           \A j \in Keys : visible'[j] # visible[j] =>
               visible[j] = NoRecord /\ visible'[j] = TornRecord
    PROVE  IInv'
  <1>1. TypeOK /\ WorldTypes
    BY IInvParts DEF IInv
  <1>2. InFlight \subseteq Tx
    <2> SUFFICES ASSUME NEW c \in Callers, run[c].pc = "inFlight"
                 PROVE  run[c].tx \in Tx
      BY DEF InFlight
    <2>1. Works(c) /\ run[c].key \in Keys
      BY WorksWhenActive
    <2> QED
      BY <2>1, ActiveFacts DEF RunOK, RecordOf, Submitting
  <1>3. WorldTypes'
    <2>1. verified' \in BOOLEAN
      BY DEF StopProcess
    <2>2. /\ writer' \in {"up", "down"} /\ crashes' \in Nat
          /\ UNCHANGED <<writerLock, signed, height, mempool, chain, historyVars>>
      BY <1>1 DEF WorldTypes, StopProcess
    <2>3. late' \subseteq Tx
      BY <1>1, <1>2 DEF WorldTypes, StopProcess
    <2> QED
      BY <1>1, <2>1, <2>2, <2>3 DEF WorldTypes, historyVars
  <1>4. /\ run' \in [Callers -> Run] /\ \A c \in Callers : run'[c] = IdleRun
        /\ queue' \in [Keys -> Seq(Callers)] /\ \A j \in Keys : queue'[j] = <<>>
    BY DEF StopProcess, IdleRun, Run, Points
  <1>5. QueueInv'
    BY <1>4 DEF QueueInv, IdleRun
  <1>6. RunInv'
    BY <1>4, IdleAgrees DEF RunInv
  <1>7. JournalInv'
    <2> SUFFICES ASSUME NEW j \in Keys
                 PROVE  /\ visible'[j].tx = NoTx <=>
                              visible'[j].state \in Unprepared \cup {"absent", "torn"}
                        /\ visible'[j].tx # NoTx =>
                              /\ visible'[j].tx.key = j
                              /\ visible'[j].tx.request = visible'[j].request
                        /\ visible'[j].state \notin Unapproved =>
                              visible'[j].request \in approvals'[j]
      BY DEF JournalInv
    <2>1. CASE visible'[j] = visible[j]
      BY <2>1 DEF IInv, JournalInv, StopProcess, historyVars
    <2>2. CASE visible'[j] = TornRecord
      BY <2>2 DEF TornRecord, Unapproved
    <2> QED
      BY <2>1, <2>2
  <1>8. RelayInv'
    <2>1. \A j \in Keys : visible'[j].tx = visible[j].tx
      BY DEF NoRecord, TornRecord
    <2>2. \A tx \in relayed : tx.key \in Keys
      BY <1>1 DEF WorldTypes, Tx
    <2> QED
      BY <2>1, <2>2 DEF IInv, RelayInv, StopProcess, historyVars
  <1> QED
    BY <1>3, <1>4, <1>5, <1>6, <1>7, <1>8, IInvPartsPrime DEF CallInv

LEMMA ProcessStep ==
    ASSUME IInv, Durable, OneStorageFault, Process
    PROVE  IInv'
  <1>0. TypeOK /\ WorldTypes /\ CallInv
    BY IInvParts DEF IInv
  <1>1. CASE Crash
    <2>1. StopProcess /\ UNCHANGED <<visible, survivors>>
      BY <1>1 DEF Crash, journalVars
    <2> QED
      BY <1>0, <2>1, StopStep DEF TypeOK
  <1>2. ASSUME NEW k \in Keys, CrashInReserve(k)
        PROVE  IInv'
    <2>1. /\ StopProcess /\ visible[k] = NoRecord
          /\ visible' = [visible EXCEPT ![k] = TornRecord]
          /\ survivors' = [survivors EXCEPT ![k] = {TornRecord}]
      BY <1>2 DEF CrashInReserve
    <2>2. TornRecord \in JournalEntry
      BY DEF JournalEntry
    <2>3. visible' \in [Keys -> JournalEntry] /\ survivors' \in [Keys -> SUBSET JournalEntry]
      BY <1>0, <2>1, <2>2 DEF TypeOK
    <2>4. \A j \in Keys : visible'[j] # visible[j] =>
             visible[j] = NoRecord /\ visible'[j] = TornRecord
      BY <1>0, <2>1 DEF TypeOK
    <2> QED
      BY <2>1, <2>3, <2>4, StopStep
  <1>3. CASE RemoveStaleLock \/ StartWriter
    <2>1. WorldTypes'
      BY <1>0, <1>3 DEF RemoveStaleLock, StartWriter, WorldTypes, callVars, chainVars, historyVars
    <2>2. UNCHANGED <<journalVars, callVars, approvals, relayed>>
      BY <1>3 DEF RemoveStaleLock, StartWriter, historyVars
    <2>3. CallInv'
      BY <1>0, <2>2 DEF CallInv, QueueInv, JournalInv, RunInv, RunOK, RelayInv,
                        journalVars, callVars
    <2> QED
      BY <2>1, <2>3, IInvPartsPrime
  <1>4. CASE PowerLoss
    BY <1>0, <1>4, PowerLossReverts, StopStep DEF TypeOK
  <1> QED
    BY <1>1, <1>2, <1>3, <1>4 DEF Process

-----------------------------------------------------------------------------
(* The theorems.                                                           *)

LEMMA InitEstablishes ==
    ASSUME ConstantsAssumption, Init
    PROVE  IInv
  <1>1. visible \in [Keys -> JournalEntry] /\ survivors \in [Keys -> SUBSET JournalEntry]
    BY DEF Init, JournalEntry
  <1>2. run \in [Callers -> Run] /\ queue \in [Keys -> Seq(Callers)] /\ QueueInv
    BY DEF Init, IdleRun, Run, Points, QueueInv
  <1>3. JournalInv
    BY DEF Init, JournalInv, NoRecord, Unprepared, Unapproved
  <1>4. RunInv /\ RelayInv
    BY DEF Init, RunInv, RunOK, RelayInv, IdleRun, Submitting
  <1>5. WorldTypes
    <2>1. verified \in BOOLEAN
      BY DEF Init
    <2>2. MaxHeight \in Nat /\ MaxPreparations \in Nat
      BY DEF ConstantsAssumption
    <2>3. signed \in [Keys -> 0 .. MaxPreparations] /\ height \in 0 .. MaxHeight
      BY <2>2 DEF Init
    <2>4. /\ writer \in {"up", "down"} /\ writerLock \in {"held", "free"} /\ crashes \in Nat
          /\ mempool \subseteq Tx /\ chain \subseteq Tx /\ late \subseteq Tx
          /\ approvals \in [Keys -> SUBSET Requests]
          /\ relayed \subseteq Tx /\ accepted \subseteq Tx
      BY DEF Init
    <2> QED
      BY <2>1, <2>3, <2>4 DEF WorldTypes
  <1> QED
    BY <1>1, <1>2, <1>3, <1>4, <1>5, IInvParts DEF CallInv

LEMMA StutterKeeps ==
    ASSUME IInv, UNCHANGED vars
    PROVE  IInv'
  <1>1. WorldTypes'
    BY IInvParts DEF WorldTypes, vars, processVars, callVars, chainVars, historyVars
  <1>2. CallInv'
    BY IInvParts DEF CallInv, QueueInv, JournalInv, RunInv, RunOK, RelayInv, vars,
                     journalVars, callVars, historyVars
  <1> QED
    BY <1>1, <1>2, IInvPartsPrime

LEMMA NextStep ==
    ASSUME ConstantsAssumption, OneStorageFault, Durable, IInv, [Next]_vars
    PROVE  IInv'
  <1>1. ASSUME NEW k \in Keys, Handler(k)
        PROVE  IInv'
    BY <1>1, ReserveStep, ApproveStep, DeclineStep, ExecuteStep DEF Handler
  <1>2. ASSUME NEW c \in Callers, Advance(c)
        PROVE  IInv'
    BY <1>2, AdvanceStep
  <1> QED
    BY <1>1, <1>2, NetworkStep, ProcessStep, StutterKeeps DEF Next

LEMMA Durability == Spec => []Durable
  <1>1. Init => Durable
    BY DEF Init, Durable
  <1>2. Durable /\ [Next]_vars => Durable'
    BY DurableStep
  <1> QED
    BY <1>1, <1>2, PTL DEF Spec

\* The inductive invariant: queue, journal, calls and network agree in every
\* state of a journal no power loss reverts.
THEOREM Invariance ==
    ASSUME OneStorageFault
    PROVE  Spec => []IInv
  <1>1. Init => IInv
    BY ConstantsAssumption, InitEstablishes
  <1>2. IInv /\ Durable /\ [Next]_vars => IInv'
    BY ConstantsAssumption, NextStep
  <1> QED
    BY <1>1, <1>2, Durability, PTL DEF Spec

\* Every variable keeps its type, whatever crashes and failing writes do to
\* write-operation-service.ts.
THEOREM TypeCorrect ==
    ASSUME OneStorageFault
    PROVE  Spec => []TypeOK
  <1>1. IInv => TypeOK
    BY DEF IInv
  <1> QED
    BY <1>1, Invariance, PTL

\* However many callers execute an intent, and wherever crashes and failing
\* journal writes cut them off, execute() hands at most one transaction per
\* idempotency key to the network.
THEOREM OneTransaction ==
    ASSUME OneStorageFault
    PROVE  Spec => []AtMostOneTransaction
  <1>1. IInv => AtMostOneTransaction
    BY DEF IInv, RelayInv, AtMostOneTransaction
  <1> QED
    BY <1>1, Invariance, PTL

\* What execute() relays for a key is the request approve() was called for.
THEOREM ApprovedOnly ==
    ASSUME OneStorageFault
    PROVE  Spec => []OnlyApprovedIsRelayed
  <1>1. ASSUME IInv, NEW tx \in relayed
        PROVE  tx.request \in approvals[tx.key]
    <2>1. tx \in Tx /\ tx.key \in Keys /\ visible[tx.key].tx = tx
      BY <1>1 DEF IInv, TypeOK, RelayInv, Tx
    <2>2. visible[tx.key].tx # NoTx
      BY <2>1, NoTxIsNotATransaction
    <2>3. visible[tx.key].state \notin Unapproved
      BY <1>1, <2>1, <2>2 DEF IInv, JournalInv, Unapproved, Unprepared
    <2> QED
      BY <1>1, <2>1, <2>2, <2>3 DEF IInv, JournalInv
  <1>2. IInv => OnlyApprovedIsRelayed
    BY <1>1 DEF OnlyApprovedIsRelayed
  <1> QED
    BY <1>2, Invariance, PTL

\* Nothing was or will be relayed for an intent recorded as declined or as
\* failed before submission: decline() and failBeforeSubmission() are safe to
\* answer with "start over".
THEOREM ClosedStaysOffTheNetwork ==
    ASSUME OneStorageFault
    PROVE  Spec => []ClosedIsNeverRelayed
  <1>1. ASSUME IInv, NEW k \in Keys,
               visible[k].state \in {"declined", "failed_before_submission"},
               NEW tx \in relayed, tx.key = k
        PROVE  FALSE
    <2>1. visible[k].tx = tx /\ tx \in Tx
      BY <1>1 DEF IInv, TypeOK, RelayInv
    <2>2. visible[k].tx = NoTx
      BY <1>1 DEF IInv, JournalInv, Unprepared
    <2> QED
      BY <2>1, <2>2, NoTxIsNotATransaction
  <1>2. IInv => ClosedIsNeverRelayed
    BY <1>1 DEF ClosedIsNeverRelayed
  <1> QED
    BY <1>2, Invariance, PTL

\* runExclusive() keeps two calls from working on one intent at once.
THEOREM MutualExclusion ==
    ASSUME OneStorageFault
    PROVE  Spec => []Exclusive
  <1>1. IInv => Exclusive
    BY DEF IInv, QueueInv, Exclusive
  <1> QED
    BY <1>1, Invariance, PTL

-----------------------------------------------------------------------------
(* A verdict is final.                                                     *)

Kept(old, new) ==
    /\ old.state \in Unpreparable \cup {"submitted"} => new.state = old.state
    /\ old.tx # NoTx => new.tx = old.tx

LEMMA WriteKeeps ==
    ASSUME TypeOK, NEW k \in Keys, NEW e \in JournalEntry, NEW outcome \in WriteOutcomes,
           Store(k, e, outcome), Kept(visible[k], e)
    PROVE  \A j \in Keys : Kept(visible[j], visible'[j])
  <1>1. \A j \in Keys : visible'[j] = visible[j] \/ (j = k /\ visible'[j] = e)
    BY StoreEffect
  <1> QED
    BY <1>1 DEF Kept

\* Changing the state of a record that holds no verdict.
LEMMA UpdateKeeps ==
    ASSUME TypeOK, NEW k \in Keys, visible[k].state \in States, NEW s \in States,
           visible[k].state \notin Unpreparable \cup {"submitted"},
           NEW outcome \in WriteOutcomes, Store(k, Updated(k, s), outcome)
    PROVE  \A j \in Keys : Kept(visible[j], visible'[j])
  <1>1. Updated(k, s) \in JournalEntry /\ Kept(visible[k], Updated(k, s))
    BY UpdatedRecord DEF JournalEntry, Kept
  <1> QED
    BY <1>1, WriteKeeps

LEMMA HandlerKeeps ==
    ASSUME IInv, NEW k \in Keys, Handler(k)
    PROVE  \A j \in Keys : Kept(visible[j], visible'[j])
  <1>0. TypeOK
    BY DEF IInv
  <1>1. ASSUME NEW r \in Requests, Reserve(k, r)
        PROVE  \A j \in Keys : Kept(visible[j], visible'[j])
    <2> DEFINE e == [request |-> r, state |-> "awaiting_approval", tx |-> NoTx, result |-> FALSE]
    <2>1. e \in JournalEntry
      BY DEF JournalEntry, Record, States
    <2>2. Kept(visible[k], e)
      BY <1>1 DEF Reserve, NoRecord, Kept, Unpreparable
    <2>3. PICK outcome \in WriteOutcomes : Store(k, e, outcome)
      BY <1>1 DEF Reserve
    <2> HIDE DEF e
    <2> QED
      BY <1>0, <2>1, <2>2, <2>3, WriteKeeps
  <1>2. ASSUME NEW s \in {"approved", "declined"}, visible[k].state = "awaiting_approval",
               \E outcome \in WriteOutcomes : Store(k, Updated(k, s), outcome)
        PROVE  \A j \in Keys : Kept(visible[j], visible'[j])
    BY <1>0, <1>2, UpdateKeeps DEF States, Unpreparable
  <1>3. ASSUME NEW c \in Callers, Execute(c, k)
        PROVE  \A j \in Keys : Kept(visible[j], visible'[j])
    BY <1>3 DEF Execute, journalVars, Kept
  <1> QED
    BY <1>1, <1>2, <1>3 DEF Handler, Approve, Decline

LEMMA AdvanceKeeps ==
    ASSUME IInv, NEW c \in Callers, Advance(c)
    PROVE  \A j \in Keys : Kept(visible[j], visible'[j])
  <1> DEFINE k == run[c].key
             Goal == \A j \in Keys : Kept(visible[j], visible'[j])
  <1>1. TypeOK /\ Works(c) /\ k \in Keys
    BY WorksWhenActive, WorksWhenBegins
    DEF IInv, Advance, BeginNothingToDo, BeginSubmitted, BeginPreparing, BeginRecovering,
        PrepareSucceeds, PrepareFails, FailBeforeSubmission, ReconcileFound,
        ReconcileMissing, Expire, NotExpired, ReadFails, Send, SubmitAcknowledged,
        SubmitRefused, SubmitUnknown, Complete
  <1>2. RunOK(c) /\ RecordOf(c) = visible[k]
        /\ (visible[k].state \in States => visible[k] \in Record)
    BY <1>1, ActiveFacts DEF RecordOf
  <1>3. visible' = visible => Goal
    BY DEF Kept
  <1>4. ASSUME visible[k].state \in Preparable \cup Recoverable,
               NEW s \in States, NEW outcome \in WriteOutcomes, Store(k, Updated(k, s), outcome)
        PROVE  Goal
    BY <1>1, <1>4, UpdateKeeps DEF States, Preparable, Recoverable, Unpreparable
  <1>5. ASSUME run[c].pc \in {"reconciling", "expiring"} \cup Submitting,
               NEW s \in States, NEW pc, StoreThen(c, Updated(k, s), pc)
        PROVE  Goal
    BY <1>2, <1>4, <1>5 DEF StoreThen, RunOK
  <1>6. CASE BeginPreparing(c)
    BY <1>2, <1>3, <1>4, <1>6 DEF BeginPreparing, States, Preparable, journalVars
  <1>7. CASE PrepareSucceeds(c)
    <2>1. visible[k].state \in Preparable /\ visible[k].tx = NoTx /\ visible[k] \in Record
          /\ visible[k].state \in States
      BY <1>1, <1>2, <1>7
      DEF PrepareSucceeds, RunOK, IInv, JournalInv, Unprepared, Preparable, States
    <2>2. PICK tx \in Tx, outcome \in WriteOutcomes :
             Store(k, [Updated(k, "submitting") EXCEPT !.tx = tx], outcome)
      <3>1. PICK seen \in SeenHeights, outcome \in WriteOutcomes :
               /\ signed[k] < MaxPreparations
               /\ Store(k, [Updated(k, "submitting") EXCEPT !.tx =
                              [key |-> k, request |-> RecordOf(c).request,
                               serial |-> signed[k] + 1, vub |-> seen + Lifespan]], outcome)
        BY <1>2, <1>7, <2>1 DEF PrepareSucceeds
      <3>2. seen + Lifespan \in 0 .. MaxHeight + Lifespan
        <4>1. height \in 0 .. MaxHeight /\ Lifespan \in Nat /\ MaxHeight \in Nat
          BY <1>1, ConstantsAssumption DEF TypeOK
        <4> QED
          BY <4>1 DEF SeenHeights
      <3>3. signed[k] + 1 \in 1 .. MaxPreparations
        BY <1>1, <3>1, ConstantsAssumption DEF TypeOK
      <3>4. RecordOf(c).request \in Requests
        BY <1>2, <2>1 DEF Record
      <3> QED
        BY <1>1, <3>1, <3>2, <3>3, <3>4 DEF Tx
    <2>3. Updated(k, "submitting") \in Record
      BY <1>1, <2>1, UpdatedRecord DEF States
    <2> DEFINE e == [Updated(k, "submitting") EXCEPT !.tx = tx]
    <2>4. e \in JournalEntry
      BY <2>3 DEF Record, JournalEntry
    <2>5. Kept(visible[k], e)
      BY <2>1 DEF Kept, Preparable, Unpreparable
    <2> HIDE DEF e
    <2> QED
      BY <1>1, <2>2, <2>4, <2>5, WriteKeeps DEF e
  <1>8. CASE FailBeforeSubmission(c)
    <2>1. CASE visible[k].tx # NoTx
      BY <1>2, <1>3, <1>8, <2>1 DEF FailBeforeSubmission, journalVars
    <2>2. CASE visible[k].tx = NoTx
      <3>1. visible[k].state \in Preparable
        BY <1>1, <1>2, <1>8, <2>2
        DEF FailBeforeSubmission, RunOK, IInv, JournalInv, Unprepared, Preparable
      <3> QED
        BY <1>2, <1>4, <1>8, <2>2, <3>1 DEF FailBeforeSubmission, StoreThen, States
    <2> QED
      BY <2>1, <2>2
  <1>9. CASE ReconcileFound(c) \/ Expire(c)
    BY <1>5, <1>9 DEF ReconcileFound, Expire, States
  <1>10. CASE SubmitAcknowledged(c) \/ SubmitRefused(c) \/ SubmitUnknown(c)
    BY <1>5, <1>10 DEF SubmitAcknowledged, SubmitRefused, SubmitUnknown, States, Submitting
  <1>11. CASE Complete(c)
    <2> DEFINE e == [visible[k] EXCEPT !.result = TRUE]
    <2>1. visible[k].state = "submitted" /\ visible[k] \in Record
      BY <1>2, <1>11 DEF Complete, RunOK, States
    <2>2. e \in JournalEntry /\ Kept(visible[k], e)
      BY <2>1 DEF Record, JournalEntry, Kept
    <2>3. PICK outcome \in WriteOutcomes : Store(k, e, outcome)
      BY <1>2, <1>11, <2>1 DEF Complete, StoreThen
    <2> HIDE DEF e
    <2> QED
      BY <1>1, <2>2, <2>3, WriteKeeps
  <1>12. CASE \/ BeginNothingToDo(c) \/ BeginSubmitted(c) \/ BeginRecovering(c)
              \/ PrepareFails(c) \/ ReconcileMissing(c) \/ NotExpired(c) \/ ReadFails(c)
              \/ Send(c)
    BY <1>3, <1>12
    DEF BeginNothingToDo, BeginSubmitted, BeginRecovering, PrepareFails, ReconcileMissing,
        NotExpired, ReadFails, Send, journalVars
  <1> QED
    BY <1>6, <1>7, <1>8, <1>9, <1>10, <1>11, <1>12 DEF Advance

LEMMA NextKeeps ==
    ASSUME IInv, Durable, OneStorageFault, [Next]_vars
    PROVE  \A j \in Keys : Kept(visible[j], visible'[j])
  <1> DEFINE Goal == \A j \in Keys : Kept(visible[j], visible'[j])
  <1>1. visible' = visible => Goal
    BY DEF Kept
  <1>2. CASE Network
    BY <1>1, <1>2 DEF Network, NodeAccepts, NodeRefuses, LateArrives, MineBlock, Evict, journalVars
  <1>3. CASE Process
    <2>1. CASE Crash \/ RemoveStaleLock \/ StartWriter
      BY <1>1, <2>1 DEF Crash, RemoveStaleLock, StartWriter, journalVars
    <2>2. ASSUME NEW k \in Keys, CrashInReserve(k)
          PROVE  Goal
      <3>1. visible[k] = NoRecord /\ \A j \in Keys : j # k => visible'[j] = visible[j]
        BY <2>2 DEF CrashInReserve, IInv, TypeOK
      <3> QED
        BY <3>1 DEF Kept, NoRecord, Unpreparable
    <2> QED
      BY <1>1, <1>3, <2>1, <2>2, PowerLossReverts DEF Process
  <1>4. CASE UNCHANGED vars
    BY <1>1, <1>4 DEF vars, journalVars
  <1> QED
    BY <1>2, <1>3, <1>4, HandlerKeeps, AdvanceKeeps DEF Next

\* No approve(), decline() or execute(), however interleaved, retried or cut
\* short, changes a verdict in the journal or replaces a persisted transaction.
THEOREM FinalVerdicts ==
    ASSUME OneStorageFault
    PROVE  Spec => VerdictIsFinal
  <1>1. IInv /\ Durable /\ [Next]_vars =>
          [\A k \in Keys :
              /\ visible[k].state \in Unpreparable \cup {"submitted"}
                     => visible'[k].state = visible[k].state
              /\ visible[k].tx # NoTx => visible'[k].tx = visible[k].tx]_vars
    BY NextKeeps DEF Kept
  <1> QED
    BY <1>1, Invariance, Durability, PTL DEF Spec, VerdictIsFinal
-----------------------------------------------------------------------------
(* An expired transaction stays off the chain.                             *)

\* The verdict "expired" was true of the chain: no later block may hold the
\* transaction.
ExpiredInv == \A k \in Keys : visible[k].state = "expired" => height + 1 > visible[k].tx.vub

LEMMA WriteExpires ==
    ASSUME TypeOK, ExpiredInv, NEW k \in Keys, NEW e \in JournalEntry,
           NEW outcome \in WriteOutcomes, Store(k, e, outcome),
           e.state = "expired" => height + 1 > e.tx.vub, height' = height
    PROVE  ExpiredInv'
  <1>1. \A j \in Keys : visible'[j] = visible[j] \/ (j = k /\ visible'[j] = e)
    BY StoreEffect
  <1> QED
    BY <1>1 DEF ExpiredInv

LEMMA UpdateExpires ==
    ASSUME TypeOK, ExpiredInv, NEW k \in Keys, visible[k].state \in States, NEW s \in States,
           s = "expired" => height + 1 > visible[k].tx.vub, height' = height,
           NEW outcome \in WriteOutcomes, Store(k, Updated(k, s), outcome)
    PROVE  ExpiredInv'
  <1>1. /\ Updated(k, s) \in JournalEntry /\ Updated(k, s).state = s
        /\ Updated(k, s).tx = visible[k].tx
    BY UpdatedRecord DEF JournalEntry
  <1> QED
    BY <1>1, WriteExpires

\* An endpoint may lag behind the chain; it is never ahead of it.
LEMMA PastForGood ==
    ASSUME TypeOK, NEW seen \in SeenHeights, NEW tx \in Tx, PastValidity(tx, seen)
    PROVE  height + 1 > tx.vub
  <1>1. height \in Int /\ seen \in Int /\ seen <= height
    BY ConstantsAssumption DEF TypeOK, SeenHeights
  <1>2. tx.vub \in Int
    BY ConstantsAssumption DEF Tx
  <1> QED
    BY <1>1, <1>2 DEF PastValidity

LEMMA HandlerExpires ==
    ASSUME IInv, ExpiredInv, NEW k \in Keys, Handler(k)
    PROVE  ExpiredInv'
  <1>0. TypeOK /\ height' = height
    BY DEF IInv, Handler, Reserve, Approve, Decline, Execute, chainVars
  <1>1. ASSUME NEW r \in Requests, Reserve(k, r)
        PROVE  ExpiredInv'
    <2> DEFINE e == [request |-> r, state |-> "awaiting_approval", tx |-> NoTx, result |-> FALSE]
    <2>1. e \in JournalEntry /\ e.state # "expired"
      BY DEF JournalEntry, Record, States
    <2>2. PICK outcome \in WriteOutcomes : Store(k, e, outcome)
      BY <1>1 DEF Reserve
    <2> HIDE DEF e
    <2> QED
      BY <1>0, <2>1, <2>2, WriteExpires
  <1>2. ASSUME NEW s \in {"approved", "declined"}, visible[k].state = "awaiting_approval",
               \E outcome \in WriteOutcomes : Store(k, Updated(k, s), outcome)
        PROVE  ExpiredInv'
    BY <1>0, <1>2, UpdateExpires DEF States
  <1>3. ASSUME NEW c \in Callers, Execute(c, k)
        PROVE  ExpiredInv'
    BY <1>0, <1>3 DEF Execute, journalVars, ExpiredInv
  <1> QED
    BY <1>1, <1>2, <1>3 DEF Handler, Approve, Decline

\* Only Expire() stores the verdict, and it looked at the chain first.
LEMMA AdvanceExpires ==
    ASSUME IInv, ExpiredInv, NEW c \in Callers, Advance(c)
    PROVE  ExpiredInv'
  <1> DEFINE k == run[c].key
  <1>1. TypeOK /\ Works(c) /\ k \in Keys
    BY WorksWhenActive, WorksWhenBegins
    DEF IInv, Advance, BeginNothingToDo, BeginSubmitted, BeginPreparing, BeginRecovering,
        PrepareSucceeds, PrepareFails, FailBeforeSubmission, ReconcileFound,
        ReconcileMissing, Expire, NotExpired, ReadFails, Send, SubmitAcknowledged,
        SubmitRefused, SubmitUnknown, Complete
  <1>2. RunOK(c) /\ RecordOf(c) = visible[k]
        /\ (visible[k].state \in States => visible[k] \in Record)
    BY <1>1, ActiveFacts DEF RecordOf
  <1>3. height' = height
    BY DEF Advance, BeginNothingToDo, BeginSubmitted, BeginPreparing, BeginRecovering,
        PrepareSucceeds, PrepareFails, FailBeforeSubmission, ReconcileFound,
        ReconcileMissing, Expire, NotExpired, ReadFails, Send, SubmitAcknowledged,
        SubmitRefused, SubmitUnknown, Complete, chainVars
  <1>4. visible' = visible => ExpiredInv'
    BY <1>3 DEF ExpiredInv
  <1>5. ASSUME visible[k].state \in States, NEW s \in States, NEW outcome \in WriteOutcomes,
               s = "expired" => height + 1 > visible[k].tx.vub, Store(k, Updated(k, s), outcome)
        PROVE  ExpiredInv'
    BY <1>1, <1>3, <1>5, UpdateExpires
  <1>6. ASSUME visible[k].state \in States, NEW s \in States \ {"expired"}, NEW pc,
               StoreThen(c, Updated(k, s), pc)
        PROVE  ExpiredInv'
    BY <1>5, <1>6 DEF StoreThen
  <1>7. CASE BeginPreparing(c)
    BY <1>2, <1>4, <1>5, <1>7 DEF BeginPreparing, States, Preparable, journalVars
  <1>8. CASE PrepareSucceeds(c)
    <2>1. visible[k].state \in Preparable /\ visible[k] \in Record
          /\ visible[k].state \in States
      BY <1>1, <1>2, <1>8 DEF PrepareSucceeds, RunOK, Preparable, States
    <2>2. PICK tx \in Tx, outcome \in WriteOutcomes :
             Store(k, [Updated(k, "submitting") EXCEPT !.tx = tx], outcome)
      <3>1. PICK seen \in SeenHeights, outcome \in WriteOutcomes :
               /\ signed[k] < MaxPreparations
               /\ Store(k, [Updated(k, "submitting") EXCEPT !.tx =
                              [key |-> k, request |-> RecordOf(c).request,
                               serial |-> signed[k] + 1, vub |-> seen + Lifespan]], outcome)
        BY <1>2, <1>8, <2>1 DEF PrepareSucceeds
      <3>2. seen + Lifespan \in 0 .. MaxHeight + Lifespan
        <4>1. height \in 0 .. MaxHeight /\ Lifespan \in Nat /\ MaxHeight \in Nat
          BY <1>1, ConstantsAssumption DEF TypeOK
        <4> QED
          BY <4>1 DEF SeenHeights
      <3>3. signed[k] + 1 \in 1 .. MaxPreparations
        BY <1>1, <3>1, ConstantsAssumption DEF TypeOK
      <3>4. RecordOf(c).request \in Requests
        BY <1>2, <2>1 DEF Record
      <3> QED
        BY <1>1, <3>1, <3>2, <3>3, <3>4 DEF Tx
    <2>3. Updated(k, "submitting") \in Record /\ Updated(k, "submitting").state = "submitting"
      BY <1>1, <2>1, UpdatedRecord DEF States
    <2> DEFINE e == [Updated(k, "submitting") EXCEPT !.tx = tx]
    <2>4. e \in JournalEntry /\ e.state # "expired"
      BY <2>3 DEF Record, JournalEntry
    <2> HIDE DEF e
    <2> QED
      BY <1>1, <1>3, <2>2, <2>4, WriteExpires DEF e
  <1>9. CASE FailBeforeSubmission(c)
    BY <1>2, <1>4, <1>6, <1>9 DEF FailBeforeSubmission, RunOK, Preparable, States, journalVars
  <1>10. CASE Expire(c)
    <2>1. visible[k].state \in States /\ visible[k].tx = run[c].tx /\ visible[k].tx \in Tx
      <3>1. visible[k].state \in Recoverable /\ visible[k].tx = run[c].tx
        BY <1>2, <1>10 DEF Expire, RunOK
      <3>2. visible[k].tx # NoTx
        BY <1>1, <3>1 DEF IInv, JournalInv, Unprepared, Preparable, Recoverable
      <3> QED
        BY <1>2, <3>1, <3>2 DEF Record, Recoverable, States
    <2>2. height + 1 > visible[k].tx.vub
      BY <1>1, <1>10, <2>1, PastForGood DEF Expire
    <2> QED
      BY <1>5, <1>10, <2>1, <2>2 DEF Expire, StoreThen, States
  <1>11. CASE ReconcileFound(c) \/ SubmitAcknowledged(c) \/ SubmitRefused(c) \/ SubmitUnknown(c)
    <2>1. visible[k].state \in States
      BY <1>2, <1>11
      DEF ReconcileFound, SubmitAcknowledged, SubmitRefused, SubmitUnknown, RunOK, Submitting,
          Recoverable, States
    <2> QED
      BY <1>6, <1>11, <2>1
      DEF ReconcileFound, SubmitAcknowledged, SubmitRefused, SubmitUnknown, States
  <1>12. CASE Complete(c)
    <2> DEFINE e == [visible[k] EXCEPT !.result = TRUE]
    <2>1. visible[k].state = "submitted" /\ visible[k] \in Record
      BY <1>2, <1>12 DEF Complete, RunOK, States
    <2>2. e \in JournalEntry /\ e.state # "expired"
      BY <2>1 DEF Record, JournalEntry
    <2>3. PICK outcome \in WriteOutcomes : Store(k, e, outcome)
      BY <1>2, <1>12, <2>1 DEF Complete, StoreThen
    <2> HIDE DEF e
    <2> QED
      BY <1>1, <1>3, <2>2, <2>3, WriteExpires
  <1>13. CASE \/ BeginNothingToDo(c) \/ BeginSubmitted(c) \/ BeginRecovering(c)
              \/ PrepareFails(c) \/ ReconcileMissing(c) \/ NotExpired(c) \/ ReadFails(c)
              \/ Send(c)
    BY <1>4, <1>13
    DEF BeginNothingToDo, BeginSubmitted, BeginRecovering, PrepareFails, ReconcileMissing,
        NotExpired, ReadFails, Send, journalVars
  <1> QED
    BY <1>7, <1>8, <1>9, <1>10, <1>11, <1>12, <1>13 DEF Advance

LEMMA NextExpires ==
    ASSUME IInv, Durable, OneStorageFault, ExpiredInv, [Next]_vars
    PROVE  ExpiredInv'
  <1>1. visible' = visible /\ height' = height => ExpiredInv'
    BY DEF ExpiredInv
  <1>2. CASE Network
    <2>1. CASE \E included : MineBlock(included)
      <3>1. height' = height + 1 /\ visible' = visible /\ height \in Int
        BY <2>1, ConstantsAssumption DEF MineBlock, journalVars, IInv, TypeOK
      <3>2. ASSUME NEW k \in Keys, visible[k].state = "expired"
            PROVE  height + 1 > visible[k].tx.vub /\ visible[k].tx.vub \in Int
        <4>1. visible[k] \in Record /\ visible[k].tx # NoTx
          BY <3>2, EntryFields
          DEF IInv, TypeOK, JournalInv, Unprepared, Preparable, States
        <4> QED
          BY <3>2, <4>1, ConstantsAssumption DEF ExpiredInv, Record, Tx
      <3> QED
        BY <3>1, <3>2 DEF ExpiredInv
    <2> QED
      BY <1>1, <1>2, <2>1
      DEF Network, NodeAccepts, NodeRefuses, LateArrives, Evict, journalVars, chainVars
  <1>3. CASE Process
    <2>1. CASE Crash \/ RemoveStaleLock \/ StartWriter
      BY <1>1, <2>1
      DEF Crash, RemoveStaleLock, StartWriter, StopProcess, journalVars, chainVars
    <2>2. ASSUME NEW k \in Keys, CrashInReserve(k)
          PROVE  ExpiredInv'
      <3>1. /\ height' = height
            /\ visible'[k].state # "expired" /\ \A j \in Keys : j # k => visible'[j] = visible[j]
        BY <2>2 DEF CrashInReserve, StopProcess, IInv, TypeOK, TornRecord
      <3> QED
        BY <3>1 DEF ExpiredInv
    <2>3. CASE PowerLoss
      BY <1>1, <2>3, PowerLossReverts DEF StopProcess
    <2> QED
      BY <1>3, <2>1, <2>2, <2>3 DEF Process
  <1>4. CASE UNCHANGED vars
    BY <1>1, <1>4 DEF vars, journalVars, chainVars
  <1> QED
    BY <1>2, <1>3, <1>4, HandlerExpires, AdvanceExpires DEF Next

\* A block takes what the next height allows, so not what has expired.
LEMMA ChainGrows ==
    ASSUME IInv, [Next]_vars
    PROVE  \A tx \in chain' \ chain : height + 1 <= tx.vub
  <1>1. CASE Network
    BY <1>1
    DEF Network, NodeAccepts, NodeRefuses, LateArrives, MineBlock, Evict, chainVars
  <1>2. ASSUME NEW k \in Keys, Handler(k)
        PROVE  chain' = chain
    BY <1>2 DEF Handler, Reserve, Approve, Decline, Execute, chainVars
  <1>3. ASSUME NEW c \in Callers, Advance(c)
        PROVE  chain' = chain
    BY <1>3
    DEF Advance, BeginNothingToDo, BeginSubmitted, BeginPreparing, BeginRecovering,
        PrepareSucceeds, PrepareFails, FailBeforeSubmission, ReconcileFound,
        ReconcileMissing, Expire, NotExpired, ReadFails, Send, SubmitAcknowledged,
        SubmitRefused, SubmitUnknown, Complete, chainVars
  <1>4. CASE Process \/ UNCHANGED vars
    BY <1>4
    DEF Process, Crash, PowerLoss, CrashInReserve, RemoveStaleLock, StartWriter, StopProcess,
        vars, chainVars
  <1> QED
    BY <1>1, <1>2, <1>3, <1>4 DEF Next

\* Whatever the heights lagging endpoints answer with, an intent declared expired
\* whose transaction is not on chain never finds it there later: its caller may
\* ask again under a new key.
THEOREM ExpiredStaysOff ==
    ASSUME OneStorageFault
    PROVE  Spec => ExpiredStaysOffChain
  <1>1. Init => ExpiredInv
    BY DEF Init, NoRecord, ExpiredInv
  <1>2. IInv /\ Durable /\ ExpiredInv /\ [Next]_vars => ExpiredInv'
    BY NextExpires
  <1>3. IInv /\ ExpiredInv /\ [Next]_vars =>
          [\A k \in Keys :
              visible[k].state = "expired" /\ visible[k].tx \notin chain
                  => visible[k].tx \notin chain']_vars
    <2> SUFFICES ASSUME IInv, ExpiredInv, [Next]_vars, NEW k \in Keys,
                        visible[k].state = "expired", visible[k].tx \notin chain
                 PROVE  visible[k].tx \notin chain'
      OBVIOUS
    <2>1. height + 1 > visible[k].tx.vub /\ height \in Int
      BY ConstantsAssumption DEF ExpiredInv, IInv, TypeOK
    <2>2. visible[k].tx.vub \in Int
      <3>1. visible[k] \in Record /\ visible[k].tx # NoTx
        BY EntryFields DEF IInv, TypeOK, JournalInv, Unprepared, Preparable, States
      <3> QED
        BY <3>1, ConstantsAssumption DEF Record, Tx
    <2> QED
      BY <2>1, <2>2, ChainGrows
  <1> QED
    BY <1>1, <1>2, <1>3, Invariance, Durability, PTL DEF Spec, ExpiredStaysOffChain
-----------------------------------------------------------------------------
(* Success is recorded for accepted transactions only.                     *)

\* What the journal may call a success: the transaction is known to a node, a
\* block, or the call that was told so.
Witnessed ==
    /\ SubmittedWasAccepted
    /\ mempool \cup chain \subseteq accepted
    /\ \A c \in Callers : run[c].pc = "acknowledged" => run[c].tx \in accepted

LEMMA WriteWitnessed ==
    ASSUME TypeOK, Witnessed, NEW k \in Keys, NEW e \in JournalEntry,
           NEW outcome \in WriteOutcomes, Store(k, e, outcome),
           e.state = "submitted" => e.tx \in accepted, accepted' = accepted
    PROVE  SubmittedWasAccepted'
  <1>1. \A j \in Keys : visible'[j] = visible[j] \/ (j = k /\ visible'[j] = e)
    BY StoreEffect
  <1> QED
    BY <1>1 DEF Witnessed, SubmittedWasAccepted

LEMMA UpdateWitnessed ==
    ASSUME TypeOK, Witnessed, NEW k \in Keys, visible[k].state \in States, NEW s \in States,
           s = "submitted" => visible[k].tx \in accepted, accepted' = accepted,
           NEW outcome \in WriteOutcomes, Store(k, Updated(k, s), outcome)
    PROVE  SubmittedWasAccepted'
  <1>1. /\ Updated(k, s) \in JournalEntry /\ Updated(k, s).state = s
        /\ Updated(k, s).tx = visible[k].tx
    BY UpdatedRecord DEF JournalEntry
  <1> QED
    BY <1>1, WriteWitnessed

\* A step of execute() moves a call without acknowledging it.
Moves(c) ==
    \/ Settle(c)
    \/ \E pc \in Points \ {"acknowledged"} : Goto(c, pc)
    \/ \E pc \in Points \ {"acknowledged"} : \E tx :
          run' = [run EXCEPT ![c].pc = pc, ![c].tx = tx]

\* Only a node turns a call into an acknowledged one.
LEMMA NotAcknowledged ==
    ASSUME TypeOK, NEW c \in Callers, Moves(c)
    PROVE  \A d \in Callers : run'[d].pc = "acknowledged" => run'[d] = run[d]
  <1>1. run \in [Callers -> Run] /\ run[c] \in Run
    BY DEF TypeOK
  <1>2. /\ \A pc : [run[c] EXCEPT !.pc = pc].pc = pc
        /\ \A pc, tx : [run[c] EXCEPT !.pc = pc, !.tx = tx].pc = pc
    BY <1>1 DEF Run
  <1>3. CASE Settle(c)
    BY <1>1, <1>3 DEF Settle, IdleRun
  <1>4. ASSUME NEW r, run' = [run EXCEPT ![c] = r], r.pc # "acknowledged"
        PROVE  \A d \in Callers : run'[d].pc = "acknowledged" => run'[d] = run[d]
    <2>1. run'[c] = r
      BY <1>1, <1>4
    <2>2. ASSUME NEW d \in Callers, d # c
          PROVE  run'[d] = run[d]
      BY <1>1, <1>4, <2>2
    <2> QED
      BY <1>4, <2>1, <2>2
  <1>5. ASSUME NEW pc \in Points \ {"acknowledged"}, Goto(c, pc)
        PROVE  \A d \in Callers : run'[d].pc = "acknowledged" => run'[d] = run[d]
    <2>1. run' = [run EXCEPT ![c] = [run[c] EXCEPT !.pc = pc]]
      BY <1>5 DEF Goto
    <2> QED
      BY <1>2, <1>4, <2>1
  <1>6. ASSUME NEW pc \in Points \ {"acknowledged"}, NEW tx,
               run' = [run EXCEPT ![c].pc = pc, ![c].tx = tx]
        PROVE  \A d \in Callers : run'[d].pc = "acknowledged" => run'[d] = run[d]
    <2>1. run' = [run EXCEPT ![c] = [run[c] EXCEPT !.pc = pc, !.tx = tx]]
      BY <1>1, <1>6, Zenon
    <2> QED
      BY <1>2, <1>4, <2>1
  <1> QED
    BY <1>3, <1>5, <1>6 DEF Moves

LEMMA CallWitnessed ==
    ASSUME IInv, Witnessed, NEW c \in Callers, Advance(c)
    PROVE  Witnessed'
  <1> DEFINE k == run[c].key
  <1>1. TypeOK /\ Works(c) /\ k \in Keys
    BY WorksWhenActive, WorksWhenBegins
    DEF IInv, Advance, BeginNothingToDo, BeginSubmitted, BeginPreparing, BeginRecovering,
        PrepareSucceeds, PrepareFails, FailBeforeSubmission, ReconcileFound,
        ReconcileMissing, Expire, NotExpired, ReadFails, Send, SubmitAcknowledged,
        SubmitRefused, SubmitUnknown, Complete
  <1>2. RunOK(c) /\ RecordOf(c) = visible[k]
        /\ (visible[k].state \in States => visible[k] \in Record)
    BY <1>1, ActiveFacts DEF RecordOf
  <1>3. /\ mempool' = mempool /\ chain' = chain /\ accepted' = accepted
    BY DEF Advance, BeginNothingToDo, BeginSubmitted, BeginPreparing, BeginRecovering,
        PrepareSucceeds, PrepareFails, FailBeforeSubmission, ReconcileFound,
        ReconcileMissing, Expire, NotExpired, ReadFails, Send, SubmitAcknowledged,
        SubmitRefused, SubmitUnknown, Complete, chainVars, historyVars
  <1>4. visible' = visible => SubmittedWasAccepted'
    BY <1>3 DEF Witnessed, SubmittedWasAccepted
  <1>5. /\ {"idle", "preparing", "failing", "completing", "expiring", "submitting",
            "inFlight", "reconciling"} \subseteq Points \ {"acknowledged"}
        /\ \A e, pc : StoreThen(c, e, pc) => Settle(c) \/ Goto(c, pc)
    BY DEF Points, SyncPoints, StoreThen
  <1>6. \A d \in Callers : run'[d].pc = "acknowledged" => run'[d] = run[d]
    <2>1. CASE BeginNothingToDo(c) \/ ReadFails(c)
      BY <1>1, <2>1, NotAcknowledged DEF Moves, BeginNothingToDo, ReadFails
    <2>2. CASE BeginSubmitted(c) \/ BeginRecovering(c)
      BY <1>1, <1>5, <2>2, NotAcknowledged DEF Moves, BeginSubmitted, BeginRecovering
    <2>3. CASE \/ PrepareFails(c) \/ ReconcileMissing(c) \/ NotExpired(c) \/ Send(c)
               \/ BeginPreparing(c)
      BY <1>1, <1>5, <2>3, NotAcknowledged
      DEF Moves, PrepareFails, ReconcileMissing, NotExpired, Send, BeginPreparing
    <2>4. CASE PrepareSucceeds(c)
      <3>1. \/ \E tx : run' = [run EXCEPT ![c].pc = "submitting", ![c].tx = tx]
            \/ run' = [run EXCEPT ![c].pc = "failing"]
        BY <2>4 DEF PrepareSucceeds, SubmitOncePersisted
      <3>2. run' = [run EXCEPT ![c].pc = "failing"] =>
                \A d \in Callers : run'[d].pc = "acknowledged" => run'[d] = run[d]
        BY <1>1 DEF TypeOK, Run
      <3> QED
        BY <1>1, <1>5, <3>1, <3>2, NotAcknowledged DEF Moves
    <2>5. CASE FailBeforeSubmission(c) \/ Complete(c)
      BY <1>1, <1>5, <2>5, NotAcknowledged DEF Moves, FailBeforeSubmission, Complete
    <2>6. CASE \/ ReconcileFound(c) \/ Expire(c) \/ SubmitAcknowledged(c)
               \/ SubmitRefused(c) \/ SubmitUnknown(c)
      BY <1>1, <1>5, <2>6, NotAcknowledged
      DEF Moves, ReconcileFound, Expire, SubmitAcknowledged, SubmitRefused, SubmitUnknown
    <2> QED
      BY <2>1, <2>2, <2>3, <2>4, <2>5, <2>6 DEF Advance
  <1>7. ASSUME SubmittedWasAccepted'
        PROVE  Witnessed'
    BY <1>3, <1>6, <1>7 DEF Witnessed
  <1>8. ASSUME visible[k].state \in States, NEW s \in States \ {"submitted"},
               NEW outcome \in WriteOutcomes, Store(k, Updated(k, s), outcome)
        PROVE  SubmittedWasAccepted'
    BY <1>1, <1>3, <1>8, UpdateWitnessed
  <1>9. CASE BeginPreparing(c)
    BY <1>2, <1>4, <1>7, <1>8, <1>9 DEF BeginPreparing, States, journalVars
  <1>10. CASE PrepareSucceeds(c)
    <2>1. CASE RecordOf(c).state \notin Preparable
      BY <1>4, <1>7, <1>10, <2>1 DEF PrepareSucceeds, journalVars
    <2>2. CASE RecordOf(c).state \in Preparable
      <3>1. visible[k] \in Record
        BY <1>2, <2>2 DEF Preparable, States
      <3>2. PICK tx : \E outcome \in WriteOutcomes :
               Store(k, [Updated(k, "submitting") EXCEPT !.tx = tx], outcome)
        BY <1>10, <2>2 DEF PrepareSucceeds
      <3> DEFINE e == [Updated(k, "submitting") EXCEPT !.tx = tx]
      <3>3. e.state = "submitting"
        BY <3>1 DEF Updated, Record
      <3>4. \A j \in Keys : visible'[j] = visible[j] \/ visible'[j].state = "submitting"
        <4> HIDE DEF e
        <4>1. \A j \in Keys : visible'[j] = visible[j] \/ visible'[j] = e
          BY <1>1, <3>2 DEF Store, TypeOK, e
        <4> QED
          BY <3>3, <4>1
      <3> QED
        BY <1>3, <1>7, <3>4 DEF Witnessed, SubmittedWasAccepted
    <2> QED
      BY <2>1, <2>2
  <1>11. CASE FailBeforeSubmission(c)
    <2>1. CASE visible[k].tx # NoTx
      BY <1>2, <1>4, <1>7, <1>11, <2>1 DEF FailBeforeSubmission, journalVars
    <2>2. CASE visible[k].tx = NoTx
      <3>1. visible[k].state \in States
        BY <1>2, <1>11 DEF FailBeforeSubmission, RunOK, States, Preparable
      <3> QED
        BY <1>2, <1>7, <1>8, <1>11, <2>2, <3>1 DEF FailBeforeSubmission, StoreThen, States
    <2> QED
      BY <2>1, <2>2
  <1>12. CASE ReconcileFound(c) \/ SubmitAcknowledged(c)
    <2>1. /\ visible[k].state \in States /\ visible[k].tx = run[c].tx
          /\ run[c].tx \in accepted
      BY <1>2, <1>12 DEF ReconcileFound, SubmitAcknowledged, RunOK, Submitting, States,
                         Recoverable, Witnessed
    <2>2. PICK outcome \in WriteOutcomes : Store(k, Updated(k, "submitted"), outcome)
      BY <1>12 DEF ReconcileFound, SubmitAcknowledged, StoreThen
    <2>3. "submitted" \in States
      BY DEF States
    <2> QED
      BY <1>1, <1>3, <1>7, <2>1, <2>2, <2>3, UpdateWitnessed
  <1>13. CASE Expire(c) \/ SubmitRefused(c) \/ SubmitUnknown(c)
    <2>1. visible[k].state \in States
      BY <1>2, <1>13 DEF Expire, SubmitRefused, SubmitUnknown, RunOK, Submitting, States,
                         Recoverable
    <2>2. PICK s \in {"expired", "rejected", "outcome_unknown"}, outcome \in WriteOutcomes :
             Store(k, Updated(k, s), outcome)
      BY <1>13 DEF Expire, SubmitRefused, SubmitUnknown, StoreThen
    <2>3. s \in States \ {"submitted"}
      BY DEF States
    <2> QED
      BY <1>7, <1>8, <2>1, <2>2, <2>3
  <1>14. CASE Complete(c)
    <2> DEFINE e == [visible[k] EXCEPT !.result = TRUE]
    <2>1. visible[k].state = "submitted" /\ visible[k] \in Record
      BY <1>2, <1>14 DEF Complete, RunOK, States
    <2>2. e \in JournalEntry /\ e.tx = visible[k].tx /\ e.tx \in accepted
      BY <1>1, <2>1 DEF Record, JournalEntry, Witnessed, SubmittedWasAccepted
    <2>3. PICK outcome \in WriteOutcomes : Store(k, e, outcome)
      BY <1>2, <1>14, <2>1 DEF Complete, StoreThen
    <2> HIDE DEF e
    <2> QED
      BY <1>1, <1>3, <1>7, <2>2, <2>3, WriteWitnessed
  <1>15. CASE \/ BeginNothingToDo(c) \/ BeginSubmitted(c) \/ BeginRecovering(c)
              \/ PrepareFails(c) \/ ReconcileMissing(c) \/ NotExpired(c) \/ ReadFails(c)
              \/ Send(c)
    BY <1>4, <1>7, <1>15
    DEF BeginNothingToDo, BeginSubmitted, BeginRecovering, PrepareFails, ReconcileMissing,
        NotExpired, ReadFails, Send, journalVars
  <1> QED
    BY <1>9, <1>10, <1>11, <1>12, <1>13, <1>14, <1>15 DEF Advance

LEMMA HandlerWitnessed ==
    ASSUME IInv, Witnessed, NEW k \in Keys, Handler(k)
    PROVE  Witnessed'
  <1>1. TypeOK
    BY DEF IInv
  <1>2. UNCHANGED <<mempool, chain, accepted>>
    BY DEF Handler, Reserve, Approve, Decline, Execute, chainVars, historyVars
  <1>3. ASSUME NEW r \in Requests, Reserve(k, r)
        PROVE  SubmittedWasAccepted' /\ run' = run
    <2> DEFINE e == [request |-> r, state |-> "awaiting_approval", tx |-> NoTx, result |-> FALSE]
    <2>1. e \in JournalEntry /\ e.state # "submitted"
      BY DEF JournalEntry, Record, States
    <2>2. PICK outcome \in WriteOutcomes : Store(k, e, outcome)
      BY <1>3 DEF Reserve
    <2>3. run' = run
      BY <1>3 DEF Reserve, callVars
    <2> HIDE DEF e
    <2> QED
      BY <1>1, <1>2, <2>1, <2>2, <2>3, WriteWitnessed
  <1>4. ASSUME NEW s \in {"approved", "declined"}, visible[k].state = "awaiting_approval",
               \E outcome \in WriteOutcomes : Store(k, Updated(k, s), outcome)
        PROVE  SubmittedWasAccepted'
    BY <1>1, <1>2, <1>4, UpdateWitnessed DEF States
  <1>5. ASSUME (\E r \in Requests : Approve(k, r)) \/ Decline(k)
        PROVE  SubmittedWasAccepted' /\ run' = run
    BY <1>4, <1>5 DEF Approve, Decline, callVars
  <1>6. ASSUME NEW c \in Callers, Execute(c, k)
        PROVE  /\ SubmittedWasAccepted'
               /\ \A d \in Callers : run'[d].pc = "acknowledged" => run'[d] = run[d]
    BY <1>1, <1>2, <1>6 DEF Execute, journalVars, Witnessed, SubmittedWasAccepted, TypeOK
  <1> QED
    BY <1>2, <1>3, <1>5, <1>6 DEF Handler, Witnessed

LEMMA NextWitnessed ==
    ASSUME IInv, Durable, OneStorageFault, Witnessed, [Next]_vars
    PROVE  Witnessed'
  <1>1. ASSUME visible' = visible, run' = run, accepted \subseteq accepted',
               mempool' \cup chain' \subseteq mempool \cup chain \cup accepted'
        PROVE  Witnessed'
    BY <1>1 DEF Witnessed, SubmittedWasAccepted
  <1>2. CASE Network
    <2>1. ASSUME NEW c \in Callers, NodeAccepts(c)
          PROVE  Witnessed'
      <3>1. /\ visible' = visible /\ chain' = chain
            /\ mempool' = mempool \cup {run[c].tx} /\ accepted' = accepted \cup {run[c].tx}
            /\ run' = [run EXCEPT ![c].pc = "acknowledged"] /\ run \in [Callers -> Run]
        BY <2>1 DEF NodeAccepts, Admit, Goto, journalVars, IInv, TypeOK
      <3>2. \A d \in Callers : run'[d] = run[d] \/ (d = c /\ run'[d].tx = run[c].tx)
        BY <3>1 DEF Run
      <3> QED
        BY <3>1, <3>2 DEF Witnessed, SubmittedWasAccepted
    <2>2. ASSUME NEW c \in Callers, NodeRefuses(c)
          PROVE  Witnessed'
      <3>1. /\ visible' = visible /\ UNCHANGED <<mempool, chain, accepted>>
            /\ Goto(c, "refused") /\ TypeOK /\ "refused" \in Points \ {"acknowledged"}
        BY <2>2 DEF NodeRefuses, journalVars, chainVars, historyVars, IInv, Points
      <3>2. \A d \in Callers : run'[d].pc = "acknowledged" => run'[d] = run[d]
        BY <3>1, NotAcknowledged DEF Moves
      <3> QED
        BY <3>1, <3>2 DEF Witnessed, SubmittedWasAccepted
    <2>3. ASSUME \E tx \in late : LateArrives(tx)
          PROVE  Witnessed'
      BY <1>1, <2>3 DEF LateArrives, Admit, journalVars, callVars
    <2>4. ASSUME NEW included \in SUBSET {tx \in mempool : height + 1 <= tx.vub},
                 MineBlock(included)
          PROVE  Witnessed'
      <3>1. included \subseteq mempool
        OBVIOUS
      <3> QED
        BY <1>1, <2>4, <3>1 DEF MineBlock, journalVars, callVars, historyVars
    <2>5. ASSUME \E tx \in mempool : Evict(tx)
          PROVE  Witnessed'
      BY <1>1, <2>5 DEF Evict, journalVars, callVars, historyVars
    <2> QED
      BY <1>2, <2>1, <2>2, <2>3, <2>4, <2>5 DEF Network
  <1>3. CASE Process
    <2>1. CASE RemoveStaleLock \/ StartWriter
      BY <1>1, <2>1 DEF RemoveStaleLock, StartWriter, journalVars, callVars, chainVars, historyVars
    <2>2. ASSUME StopProcess,
                 \A j \in Keys : visible'[j] = visible[j] \/ visible'[j] = TornRecord
          PROVE  Witnessed'
      <3>1. /\ UNCHANGED <<mempool, chain, accepted>>
            /\ \A c \in Callers : run'[c].pc = "idle"
        BY <2>2 DEF StopProcess, IdleRun, historyVars
      <3> QED
        BY <2>2, <3>1 DEF Witnessed, SubmittedWasAccepted, TornRecord
    <2>3. CASE Crash
      BY <2>2, <2>3 DEF Crash, journalVars
    <2>4. ASSUME NEW k \in Keys, CrashInReserve(k)
          PROVE  Witnessed'
      BY <2>2, <2>4 DEF CrashInReserve, IInv, TypeOK
    <2> QED
      BY <1>3, <2>1, <2>2, <2>3, <2>4, PowerLossReverts DEF Process
  <1>4. CASE UNCHANGED vars
    BY <1>1, <1>4 DEF vars, journalVars, callVars, chainVars, historyVars
  <1> QED
    BY <1>2, <1>3, <1>4, HandlerWitnessed, CallWitnessed DEF Next

LEMMA Witnesses ==
    ASSUME OneStorageFault
    PROVE  Spec => []Witnessed
  <1>1. Init => Witnessed
    BY DEF Init, Witnessed, SubmittedWasAccepted, NoRecord, IdleRun
  <1>2. IInv /\ Durable /\ Witnessed /\ [Next]_vars => Witnessed'
    BY NextWitnessed
  <1> QED
    BY <1>1, <1>2, Invariance, Durability, PTL DEF Spec

\* The journal records a success only for a transaction that a node took, through
\* the acknowledgement of its own submission or through reconciliation, whatever
\* crashes, retries and late requests do in between.
THEOREM SuccessIsReal ==
    ASSUME OneStorageFault
    PROVE  Spec => []SubmittedWasAccepted
  <1>1. Witnessed => SubmittedWasAccepted
    BY DEF Witnessed
  <1> QED
    BY <1>1, Witnesses, PTL

\* What was relayed is on the disk for good: execute() comes to submit() only
\* past the fsync of recordPrepared(), so that no loss of power makes the journal
\* forget a transaction the network may hold, unless that fsync can fail.
THEOREM RelayedStays ==
    ASSUME "fsync" \notin Faults
    PROVE  Spec => []RelayedIsDurable
  <1>1. IInv /\ Durable => RelayedIsDurable
    <2> SUFFICES ASSUME IInv, Durable, NEW tx \in relayed, NEW entry \in survivors[tx.key]
                 PROVE  entry.tx = tx
      BY DEF RelayedIsDurable
    <2>1. tx.key \in Keys /\ visible[tx.key].tx = tx
      BY DEF IInv, TypeOK, RelayInv, Tx
    <2> QED
      BY <2>1 DEF Durable
  <1>2. OneStorageFault
    BY DEF OneStorageFault
  <1> QED
    BY <1>1, <1>2, Invariance, Durability, PTL

-----------------------------------------------------------------------------
(* The journal implements WriteIntent.                                     *)

\* Nothing is on its way to a node, or with one, that was not relayed.
Sent ==
    /\ accepted \subseteq relayed /\ late \subseteq relayed
    /\ \A c \in Callers :
          run[c].pc \in {"inFlight", "acknowledged", "refused"} => run[c].tx \in relayed

\* Only Send() puts a call on the way.
LEMMA CallSent ==
    ASSUME IInv, Sent, NEW c \in Callers, Advance(c)
    PROVE  Sent'
  <1> DEFINE Away == {"inFlight", "acknowledged", "refused"}
  <1>1. TypeOK /\ run \in [Callers -> Run] /\ run[c] \in Run
    BY DEF IInv, TypeOK
  <1>2. /\ \A pc : [run[c] EXCEPT !.pc = pc].pc = pc /\ [run[c] EXCEPT !.pc = pc].tx = run[c].tx
        /\ \A pc, tx : [run[c] EXCEPT !.pc = pc, !.tx = tx].pc = pc
    BY <1>1 DEF Run
  <1>3. ASSUME NEW r, run' = [run EXCEPT ![c] = r]
        PROVE  \A d \in Callers : run'[d] = IF d = c THEN r ELSE run[d]
    <2>1. run'[c] = r
      BY <1>1, <1>3
    <2>2. ASSUME NEW d \in Callers, d # c
          PROVE  run'[d] = run[d]
      BY <1>1, <1>3, <2>2
    <2> QED
      BY <2>1, <2>2
  <1>4. ASSUME NEW r, run' = [run EXCEPT ![c] = r], r.pc \notin Away,
               UNCHANGED <<relayed, accepted>>, late' \subseteq relayed
        PROVE  Sent'
    BY <1>3, <1>4 DEF Sent
  <1>5. ASSUME Settle(c), UNCHANGED <<relayed, accepted>>, late' \subseteq relayed
        PROVE  Sent'
    BY <1>4, <1>5 DEF Settle, IdleRun
  <1>6. ASSUME NEW pc, Goto(c, pc), pc \notin Away, UNCHANGED <<relayed, accepted>>,
               late' \subseteq relayed
        PROVE  Sent'
    <2>1. run' = [run EXCEPT ![c] = [run[c] EXCEPT !.pc = pc]]
      BY <1>6 DEF Goto
    <2> QED
      BY <1>2, <1>4, <1>6, <2>1
  <1>7. late \subseteq relayed
    BY DEF Sent
  <1>8. CASE BeginSubmitted(c) \/ BeginRecovering(c)
    <2>1. PICK pc \in {"completing", "reconciling"} :
             run' = [run EXCEPT ![c] = [run[c] EXCEPT !.pc = pc, !.tx = RecordOf(c).tx]]
      BY <1>1, <1>8 DEF BeginSubmitted, BeginRecovering
    <2>2. UNCHANGED <<relayed, accepted, late>>
      BY <1>8 DEF BeginSubmitted, BeginRecovering, chainVars, historyVars
    <2> QED
      BY <1>2, <1>4, <1>7, <2>1, <2>2
  <1>9. CASE PrepareSucceeds(c)
    <2>1. UNCHANGED <<relayed, accepted, late>>
      BY <1>9 DEF PrepareSucceeds, chainVars, historyVars
    <2>2. \/ \E tx : run' = [run EXCEPT ![c].pc = "submitting", ![c].tx = tx]
          \/ run' = [run EXCEPT ![c].pc = "failing"]
      BY <1>9 DEF PrepareSucceeds, SubmitOncePersisted
    <2>3. ASSUME NEW tx, run' = [run EXCEPT ![c].pc = "submitting", ![c].tx = tx]
          PROVE  Sent'
      <3> DEFINE r == [run[c] EXCEPT !.pc = "submitting", !.tx = tx]
      <3>1. run' = [run EXCEPT ![c] = r] /\ r.pc = "submitting"
        BY <1>1, <1>2, <2>3
      <3> HIDE DEF r
      <3>2. r.pc \notin Away
        BY <3>1
      <3> QED
        BY <1>4, <1>7, <2>1, <3>1, <3>2
    <2>4. ASSUME run' = [run EXCEPT ![c].pc = "failing"]
          PROVE  Sent'
      <3>1. run' = [run EXCEPT ![c] = [run[c] EXCEPT !.pc = "failing"]]
        BY <2>4
      <3> QED
        BY <1>2, <1>4, <1>7, <2>1, <3>1
    <2> QED
      BY <2>2, <2>3, <2>4
  <1>10. CASE Send(c)
    <2>1. /\ run' = [run EXCEPT ![c] = [run[c] EXCEPT !.pc = "inFlight"]]
          /\ relayed' = relayed \cup {run[c].tx} /\ UNCHANGED <<accepted, late>>
      BY <1>10 DEF Send, Goto, chainVars
    <2> QED
      BY <1>2, <1>3, <2>1 DEF Sent
  <1>11. CASE SubmitUnknown(c)
    <2>1. late' \subseteq relayed /\ UNCHANGED <<relayed, accepted>>
      BY <1>11 DEF SubmitUnknown, Sent, historyVars
    <2>2. Settle(c)
      BY <1>11 DEF SubmitUnknown, StoreThen
    <2> QED
      BY <1>5, <2>1, <2>2
  <1>12. CASE \/ ReconcileFound(c) \/ Expire(c) \/ SubmitAcknowledged(c) \/ SubmitRefused(c)
              \/ FailBeforeSubmission(c) \/ Complete(c)
    <2>1. UNCHANGED <<relayed, accepted, late>>
      BY <1>12
      DEF ReconcileFound, Expire, SubmitAcknowledged, SubmitRefused, FailBeforeSubmission,
          Complete, chainVars, historyVars
    <2>2. Settle(c) \/ Goto(c, "completing")
      BY <1>12
      DEF ReconcileFound, Expire, SubmitAcknowledged, SubmitRefused, FailBeforeSubmission,
          Complete, StoreThen
    <2> QED
      BY <1>5, <1>6, <1>7, <2>1, <2>2
  <1>13. CASE \/ BeginNothingToDo(c) \/ BeginPreparing(c) \/ PrepareFails(c)
              \/ ReconcileMissing(c) \/ NotExpired(c) \/ ReadFails(c)
    <2>1. UNCHANGED <<relayed, accepted, late>>
      BY <1>13
      DEF BeginNothingToDo, BeginPreparing, PrepareFails, ReconcileMissing, NotExpired,
          ReadFails, chainVars, historyVars
    <2>2. \/ Settle(c)
          \/ \E pc \in {"preparing", "failing", "expiring", "submitting"} : Goto(c, pc)
      BY <1>13
      DEF BeginNothingToDo, BeginPreparing, PrepareFails, ReconcileMissing, NotExpired,
          ReadFails
    <2> QED
      BY <1>5, <1>6, <1>7, <2>1, <2>2
  <1> QED
    BY <1>8, <1>9, <1>10, <1>11, <1>12, <1>13 DEF Advance

LEMMA NextSent ==
    ASSUME IInv, Sent, [Next]_vars
    PROVE  Sent'
  <1>0. run \in [Callers -> Run]
    BY DEF IInv, TypeOK
  <1>1. UNCHANGED <<run, late, relayed, accepted>> => Sent'
    BY DEF Sent
  <1>2. ASSUME NEW k \in Keys, Handler(k)
        PROVE  Sent'
    <2>1. ASSUME NEW c \in Callers, Execute(c, k)
          PROVE  Sent'
      <3>1. UNCHANGED <<late, relayed, accepted>>
        BY <2>1 DEF Execute, chainVars, historyVars
      <3>2. \A d \in Callers : run'[d] = run[d] \/ run'[d].pc = "queued"
        BY <1>0, <2>1 DEF Execute
      <3> QED
        BY <3>1, <3>2 DEF Sent
    <2>2. CASE (\E r \in Requests : Reserve(k, r) \/ Approve(k, r)) \/ Decline(k)
      BY <1>1, <2>2 DEF Reserve, Approve, Decline, callVars, chainVars, historyVars
    <2> QED
      BY <1>2, <2>1, <2>2 DEF Handler
  <1>3. CASE Network
    <2>1. ASSUME NEW c \in Callers, NodeAccepts(c) \/ NodeRefuses(c)
          PROVE  Sent'
      <3>1. /\ run[c].pc = "inFlight" /\ UNCHANGED <<late, relayed>>
            /\ accepted' \subseteq accepted \cup {run[c].tx}
            /\ \E pc \in {"acknowledged", "refused"} : run' = [run EXCEPT ![c].pc = pc]
        BY <2>1 DEF NodeAccepts, NodeRefuses, Admit, Goto, chainVars, historyVars
      <3>2. \A d \in Callers : run'[d] = run[d] \/ (d = c /\ run'[d].tx = run[c].tx)
        BY <1>0, <3>1 DEF Run
      <3> QED
        BY <3>1, <3>2 DEF Sent
    <2>2. ASSUME NEW tx \in late, LateArrives(tx)
          PROVE  Sent'
      BY <2>2 DEF LateArrives, Admit, callVars, Sent
    <2>3. CASE \/ \E included \in SUBSET {tx \in mempool : height + 1 <= tx.vub} :
                     MineBlock(included)
               \/ \E tx \in mempool : Evict(tx)
      BY <1>1, <2>3 DEF MineBlock, Evict, callVars, historyVars
    <2> QED
      BY <1>3, <2>1, <2>2, <2>3 DEF Network
  <1>4. CASE Process
    <2>1. StopProcess => Sent'
      <3>1. ASSUME StopProcess
            PROVE  /\ UNCHANGED <<relayed, accepted>> /\ late' \subseteq relayed
                   /\ \A c \in Callers : run'[c].pc = "idle"
        BY <3>1 DEF StopProcess, InFlight, IdleRun, Sent, historyVars
      <3> QED
        BY <3>1 DEF Sent
    <2> QED
      BY <1>1, <1>4, <2>1
      DEF Process, Crash, PowerLoss, CrashInReserve, RemoveStaleLock, StartWriter, callVars,
          chainVars, historyVars
  <1> QED
    BY <1>1, <1>2, <1>3, <1>4, CallSent DEF Next, vars, callVars, chainVars, historyVars

\* What the journal shows of an intent.
Shown(entry) == [phase |-> Phase(entry.state), tx |-> entry.tx]
Shadow == [k \in Keys |-> Shown(visible[k])]

LEMMA Phases ==
    /\ Phase("absent") = "none" /\ Phase("torn") = "none"
    /\ Phase("awaiting_approval") = "pending"
    /\ \A s \in Preparable : Phase(s) = "authorised"
    /\ \A s \in Recoverable : Phase(s) = "bound"
    /\ \A s \in {"declined", "failed_before_submission"} : Phase(s) = "closed"
    /\ \A s \in {"submitted", "rejected", "expired"} : Phase(s) = s
  BY DEF Phase, Preparable, Recoverable

LEMMA ShadowStutters ==
    ASSUME Shadow' = Shadow, relayed' = relayed
    PROVE  UNCHANGED Intent!vars
  BY DEF Shadow, Shown, Intent!vars

LEMMA ShadowMoves ==
    ASSUME NEW k \in Keys, NEW from, NEW to, Shadow[k].phase = from,
           Shadow' = [Shadow EXCEPT ![k].phase = to], relayed' = relayed
    PROVE  Intent!Move(k, from, to)
  BY DEF Shadow, Shown, Intent!Move

LEMMA ShadowBinds ==
    ASSUME NEW k \in Keys, NEW tx \in Tx, Shadow[k].phase = "authorised", tx.key = k,
           \A other \in relayed : other.key # k, relayed' = relayed,
           Shadow' = [Shadow EXCEPT ![k] = [phase |-> "bound", tx |-> tx]]
    PROVE  Intent!Bind(k, tx)
  BY DEF Shadow, Shown, Intent!Bind

LEMMA ShadowRelays ==
    ASSUME NEW k \in Keys, Shadow[k].phase = "bound", Shadow' = Shadow,
           relayed' = relayed \cup {Shadow[k].tx}
    PROVE  Intent!Relay(k)
  BY DEF Shadow, Shown, Intent!Relay

\* A step of the journal is one of the intent, or none.
Shows == [Intent!Next]_(Intent!vars)

LEMMA ShadowKept ==
    ASSUME visible' = visible, relayed' = relayed
    PROVE  Shows
  <1>1. Shadow' = Shadow
    BY DEF Shadow
  <1> QED
    BY <1>1, ShadowStutters DEF Shows

LEMMA ShadowStored ==
    ASSUME TypeOK, NEW k \in Keys, NEW e, NEW outcome \in WriteOutcomes, Store(k, e, outcome)
    PROVE  Shadow' = Shadow \/ Shadow' = [Shadow EXCEPT ![k] = Shown(e)]
  <1>1. visible \in [Keys -> JournalEntry]
    BY DEF TypeOK
  <1>2. CASE outcome = "notRenamed"
    BY <1>2 DEF Store, Shadow
  <1>3. CASE outcome # "notRenamed"
    <2>1. visible' = [visible EXCEPT ![k] = e]
      BY <1>3 DEF Store
    <2>2. visible'[k] = e
      BY <1>1, <2>1
    <2>3. \A j \in Keys : j # k => visible'[j] = visible[j]
      BY <1>1, <2>1
    <2>4. \A j \in Keys : Shadow'[j] = IF j = k THEN Shown(e) ELSE Shadow[j]
      BY <2>2, <2>3 DEF Shadow, Shown
    <2>5. /\ Shadow' = [j \in Keys |-> Shadow'[j]]
          /\ [Shadow EXCEPT ![k] = Shown(e)] =
                 [j \in Keys |-> IF j = k THEN Shown(e) ELSE Shadow[j]]
      BY DEF Shadow
    <2> QED
      BY <2>4, <2>5
  <1> QED
    BY <1>2, <1>3

\* A change of state alone moves the intent to another phase, or not at all.
LEMMA ShadowMoved ==
    ASSUME TypeOK, NEW k \in Keys, visible[k].state \in States, NEW s \in States,
           NEW outcome \in WriteOutcomes, Store(k, Updated(k, s), outcome), relayed' = relayed,
           \/ Phase(s) = Phase(visible[k].state)
           \/ Phase(visible[k].state) = "pending" /\ Phase(s) \in {"authorised", "closed"}
           \/ Phase(visible[k].state) = "authorised" /\ Phase(s) = "closed"
           \/ /\ Phase(visible[k].state) = "bound"
              /\ Phase(s) \in {"submitted", "rejected", "expired"}
              /\ Phase(s) = "submitted" => visible[k].tx \in relayed
    PROVE  Shows
  <1>1. Updated(k, s).state = s /\ Updated(k, s).tx = visible[k].tx
    BY UpdatedRecord
  <1>2. Shadow[k] = [phase |-> Phase(visible[k].state), tx |-> visible[k].tx]
    BY DEF Shadow, Shown
  <1>3. [Shadow EXCEPT ![k] = Shown(Updated(k, s))] = [Shadow EXCEPT ![k].phase = Phase(s)]
    <2>1. Shown(Updated(k, s)) = [Shadow[k] EXCEPT !.phase = Phase(s)]
      BY <1>1, <1>2 DEF Shown
    <2> QED
      BY <2>1
  <1>4. Shadow' = Shadow \/ Shadow' = [Shadow EXCEPT ![k].phase = Phase(s)]
    BY <1>3, ShadowStored
  <1>5. CASE Shadow' = Shadow
    BY <1>5, ShadowStutters DEF Shows
  <1>6. CASE Shadow' = [Shadow EXCEPT ![k].phase = Phase(s)]
    <2>0. Shadow[k].phase = Phase(visible[k].state)
      BY <1>2
    <2>1. Intent!Move(k, Phase(visible[k].state), Phase(s))
      BY <1>6, <2>0, ShadowMoves
    <2>2. CASE Phase(s) = Phase(visible[k].state)
      <3>1. Shadow' = Shadow
        BY <1>2, <1>6, <2>2 DEF Shadow, Shown
      <3> QED
        BY <1>5, <3>1
    <2>3. CASE \/ Phase(visible[k].state) = "pending" /\ Phase(s) \in {"authorised", "closed"}
               \/ Phase(visible[k].state) = "authorised" /\ Phase(s) = "closed"
      BY <2>1, <2>3 DEF Shows, Intent!Next, Intent!Authorise, Intent!Close
    <2>4. CASE /\ Phase(visible[k].state) = "bound"
               /\ Phase(s) \in {"submitted", "rejected", "expired"}
               /\ Phase(s) = "submitted" => visible[k].tx \in relayed
      <3>1. Intent!Conclude(k, Phase(s))
        BY <2>1, <2>4 DEF Intent!Conclude
      <3> QED
        BY <2>4, <3>1 DEF Shows, Intent!Next, Intent!Verdicts
    <2> QED
      BY <2>2, <2>3, <2>4
  <1> QED
    BY <1>4, <1>5, <1>6

LEMMA HandlerShows ==
    ASSUME IInv, NEW k \in Keys, Handler(k)
    PROVE  Shows
  <1>1. TypeOK /\ relayed' = relayed
    BY DEF IInv, Handler, Reserve, Approve, Decline, Execute, historyVars
  <1>2. ASSUME NEW r \in Requests, Reserve(k, r)
        PROVE  Shows
    <2> DEFINE e == [request |-> r, state |-> "awaiting_approval", tx |-> NoTx, result |-> FALSE]
    <2>1. PICK outcome \in WriteOutcomes : Store(k, e, outcome)
      BY <1>2 DEF Reserve
    <2>2. visible[k] = NoRecord
      BY <1>2 DEF Reserve
    <2>3. Shadow[k] = [phase |-> "none", tx |-> NoTx]
      BY <2>2, Phases DEF Shadow, Shown, NoRecord
    <2>4. Shown(e) = [Shadow[k] EXCEPT !.phase = "pending"]
      BY <2>3, Phases DEF Shown
    <2> HIDE DEF e
    <2>5. Shadow' = Shadow \/ Shadow' = [Shadow EXCEPT ![k] = Shown(e)]
      BY <1>1, <2>1, ShadowStored
    <2>6. CASE Shadow' = Shadow
      BY <1>1, <2>6, ShadowStutters DEF Shows
    <2>7. CASE Shadow' = [Shadow EXCEPT ![k] = Shown(e)]
      <3>1. Shadow' = [Shadow EXCEPT ![k].phase = "pending"] /\ Shadow[k].phase = "none"
        BY <2>3, <2>4, <2>7
      <3>2. Intent!Move(k, "none", "pending")
        BY <1>1, <3>1, ShadowMoves
      <3> QED
        BY <3>2 DEF Shows, Intent!Next, Intent!Reserve
    <2> QED
      BY <2>5, <2>6, <2>7
  <1>3. ASSUME NEW s \in {"approved", "declined"}, visible[k].state = "awaiting_approval",
               \E outcome \in WriteOutcomes : Store(k, Updated(k, s), outcome)
        PROVE  Shows
    <2>1. /\ Phase(visible[k].state) = "pending" /\ Phase(s) \in {"authorised", "closed"}
          /\ visible[k].state \in States /\ s \in States
      BY <1>3, Phases DEF Preparable, States
    <2> QED
      BY <1>1, <1>3, <2>1, ShadowMoved
  <1>4. CASE (\E r \in Requests : Approve(k, r)) \/ Decline(k)
    BY <1>3, <1>4 DEF Approve, Decline
  <1>5. ASSUME NEW c \in Callers, Execute(c, k)
        PROVE  Shows
    BY <1>1, <1>5, ShadowKept DEF Execute, journalVars
  <1> QED
    BY <1>2, <1>4, <1>5 DEF Handler

LEMMA CallShows ==
    ASSUME ConstantsAssumption, IInv, Witnessed, Sent, NEW c \in Callers, Advance(c)
    PROVE  Shows
  <1> DEFINE k == run[c].key
  <1>1. TypeOK /\ Works(c) /\ k \in Keys
    BY WorksWhenActive, WorksWhenBegins
    DEF IInv, Advance, BeginNothingToDo, BeginSubmitted, BeginPreparing, BeginRecovering,
        PrepareSucceeds, PrepareFails, FailBeforeSubmission, ReconcileFound,
        ReconcileMissing, Expire, NotExpired, ReadFails, Send, SubmitAcknowledged,
        SubmitRefused, SubmitUnknown, Complete
  <1>2. RunOK(c) /\ RecordOf(c) = visible[k]
        /\ (visible[k].state \in States => visible[k] \in Record)
    BY <1>1, ActiveFacts DEF RecordOf
  <1>3. ~Send(c) => relayed' = relayed
    BY DEF Advance, BeginNothingToDo, BeginSubmitted, BeginPreparing, BeginRecovering,
        PrepareSucceeds, PrepareFails, FailBeforeSubmission, ReconcileFound,
        ReconcileMissing, Expire, NotExpired, ReadFails, SubmitAcknowledged,
        SubmitRefused, SubmitUnknown, Complete, historyVars
  <1>4. Shadow[k] = [phase |-> Phase(visible[k].state), tx |-> visible[k].tx]
    BY <1>1 DEF Shadow, Shown
  <1>5. ASSUME relayed' = relayed, visible[k].state \in Recoverable, NEW pc,
               NEW s \in {"submitted", "rejected", "expired", "outcome_unknown"},
               s = "submitted" => visible[k].tx \in relayed, StoreThen(c, Updated(k, s), pc)
        PROVE  Shows
    <2>1. PICK outcome \in WriteOutcomes : Store(k, Updated(k, s), outcome)
      BY <1>5 DEF StoreThen
    <2>2. visible[k].state \in States /\ s \in States /\ Phase(visible[k].state) = "bound"
      BY <1>5, Phases DEF States, Recoverable
    <2>3. Phase(s) = "bound" \/ Phase(s) = s
      BY <1>5, Phases DEF Recoverable
    <2>4. \/ Phase(s) = Phase(visible[k].state)
          \/ /\ Phase(s) \in {"submitted", "rejected", "expired"}
             /\ Phase(s) = "submitted" => visible[k].tx \in relayed
      BY <1>5, <2>2, <2>3, Phases DEF Recoverable
    <2> QED
      BY <1>1, <1>5, <2>1, <2>2, <2>4, ShadowMoved
  <1>6. CASE BeginPreparing(c)
    <2>1. relayed' = relayed
      BY <1>6 DEF BeginPreparing, historyVars
    <2>2. CASE UNCHANGED journalVars
      BY <2>1, <2>2, ShadowKept DEF journalVars
    <2>3. CASE ~UNCHANGED journalVars
      <3>1. PICK outcome \in WriteOutcomes : Store(k, Updated(k, "preparing"), outcome)
        BY <1>6, <2>3 DEF BeginPreparing
      <3>2. /\ visible[k].state \in States /\ "preparing" \in States
            /\ Phase("preparing") = Phase(visible[k].state)
        BY <1>2, <1>6, Phases DEF BeginPreparing, Preparable, States
      <3> QED
        BY <1>1, <2>1, <3>1, <3>2, ShadowMoved
    <2> QED
      BY <2>2, <2>3
  <1>7. CASE PrepareSucceeds(c)
    <2>1. visible[k].state \in Preparable /\ visible[k].tx = NoTx /\ visible[k] \in Record
          /\ visible[k].state \in States
      BY <1>1, <1>2, <1>7
      DEF PrepareSucceeds, RunOK, IInv, JournalInv, Unprepared, Preparable, States
    <2>2. PICK tx \in Tx : /\ tx.key = k
                           /\ \E outcome \in WriteOutcomes :
                                 Store(k, [Updated(k, "submitting") EXCEPT !.tx = tx], outcome)
      <3>1. PICK seen \in SeenHeights, outcome \in WriteOutcomes :
               /\ signed[k] < MaxPreparations
               /\ Store(k, [Updated(k, "submitting") EXCEPT !.tx =
                              [key |-> k, request |-> RecordOf(c).request,
                               serial |-> signed[k] + 1, vub |-> seen + Lifespan]], outcome)
        BY <1>2, <1>7, <2>1 DEF PrepareSucceeds
      <3> DEFINE t == [key |-> k, request |-> RecordOf(c).request,
                       serial |-> signed[k] + 1, vub |-> seen + Lifespan]
      <3>2. seen + Lifespan \in 0 .. MaxHeight + Lifespan
        <4>1. height \in 0 .. MaxHeight /\ Lifespan \in Nat /\ MaxHeight \in Nat
          BY <1>1, ConstantsAssumption DEF TypeOK
        <4> QED
          BY <4>1 DEF SeenHeights
      <3>3. signed[k] + 1 \in 1 .. MaxPreparations
        BY <1>1, <3>1, ConstantsAssumption DEF TypeOK
      <3>4. RecordOf(c).request \in Requests
        BY <1>2, <2>1 DEF Record
      <3>5. t \in Tx /\ t.key = k
        BY <1>1, <3>2, <3>3, <3>4 DEF Tx
      <3> QED
        BY <3>1, <3>5
    <2>3. PICK outcome \in WriteOutcomes :
             Store(k, [Updated(k, "submitting") EXCEPT !.tx = tx], outcome)
      BY <2>2
    <2> DEFINE e == [Updated(k, "submitting") EXCEPT !.tx = tx]
    <2>4. e.state = "submitting" /\ e.tx = tx
      BY <2>1 DEF Updated, Record
    <2>5. Shown(e) = [phase |-> "bound", tx |-> tx]
      BY <2>4, Phases DEF Shown, Recoverable
    <2> HIDE DEF e
    <2>6. Shadow' = Shadow \/ Shadow' = [Shadow EXCEPT ![k] = Shown(e)]
      BY <1>1, <2>3, ShadowStored DEF e
    <2>7. \A other \in relayed : other.key # k
      BY <2>1, NoTxIsNotATransaction DEF IInv, RelayInv, TypeOK
    <2>8. Shadow[k].phase = "authorised" /\ relayed' = relayed
      BY <1>3, <1>4, <1>7, <2>1, Phases DEF PrepareSucceeds, historyVars
    <2>9. CASE Shadow' = Shadow
      BY <2>8, <2>9, ShadowStutters DEF Shows
    <2>10. CASE Shadow' = [Shadow EXCEPT ![k] = Shown(e)]
      <3>1. Shadow' = [Shadow EXCEPT ![k] = [phase |-> "bound", tx |-> tx]]
        BY <2>5, <2>10
      <3>2. Intent!Bind(k, tx)
        BY <1>1, <2>2, <2>7, <2>8, <3>1, ShadowBinds
      <3> QED
        BY <1>1, <3>2 DEF Shows, Intent!Next
    <2> QED
      BY <2>6, <2>9, <2>10
  <1>8. CASE FailBeforeSubmission(c)
    <2>1. relayed' = relayed
      BY <1>8 DEF FailBeforeSubmission, historyVars
    <2>2. CASE visible[k].tx # NoTx
      BY <1>2, <1>8, <2>1, <2>2, ShadowKept DEF FailBeforeSubmission, journalVars
    <2>3. CASE visible[k].tx = NoTx
      <3>1. visible[k].state \in Preparable
        BY <1>1, <1>2, <1>8, <2>3
        DEF FailBeforeSubmission, RunOK, IInv, JournalInv, Unprepared, Preparable
      <3>2. PICK outcome \in WriteOutcomes :
               Store(k, Updated(k, "failed_before_submission"), outcome)
        BY <1>2, <1>8, <2>3 DEF FailBeforeSubmission, StoreThen
      <3>3. /\ visible[k].state \in States /\ "failed_before_submission" \in States
            /\ Phase(visible[k].state) = "authorised"
            /\ Phase("failed_before_submission") = "closed"
        BY <3>1, Phases DEF States, Preparable
      <3> QED
        BY <1>1, <2>1, <3>2, <3>3, ShadowMoved
    <2> QED
      BY <2>2, <2>3
  <1>9. CASE ReconcileFound(c) \/ SubmitAcknowledged(c)
    <2>1. visible[k].state \in Recoverable /\ visible[k].tx = run[c].tx
      BY <1>2, <1>9 DEF ReconcileFound, SubmitAcknowledged, RunOK, Submitting
    <2>2. visible[k].tx \in relayed
      BY <1>9, <2>1 DEF ReconcileFound, SubmitAcknowledged, Witnessed, Sent
    <2>3. relayed' = relayed /\ StoreThen(c, Updated(k, "submitted"), "completing")
      BY <1>9 DEF ReconcileFound, SubmitAcknowledged, historyVars
    <2> QED
      BY <1>5, <2>1, <2>2, <2>3
  <1>10. CASE Expire(c) \/ SubmitRefused(c) \/ SubmitUnknown(c)
    <2>1. visible[k].state \in Recoverable /\ relayed' = relayed
      BY <1>2, <1>10
      DEF Expire, SubmitRefused, SubmitUnknown, RunOK, Submitting, historyVars
    <2> QED
      BY <1>5, <1>10, <2>1 DEF Expire, SubmitRefused, SubmitUnknown
  <1>11. CASE Complete(c)
    <2> DEFINE e == [visible[k] EXCEPT !.result = TRUE]
    <2>1. visible[k].state = "submitted" /\ visible[k] \in Record
      BY <1>2, <1>11 DEF Complete, RunOK, States
    <2>2. Shown(e) = Shadow[k] /\ relayed' = relayed
      BY <1>4, <1>11, <2>1 DEF Record, Shown, Complete, historyVars
    <2>3. PICK outcome \in WriteOutcomes : Store(k, e, outcome)
      BY <1>2, <1>11, <2>1 DEF Complete, StoreThen
    <2> HIDE DEF e
    <2>4. Shadow' = Shadow \/ Shadow' = [Shadow EXCEPT ![k] = Shown(e)]
      BY <1>1, <2>3, ShadowStored
    <2>5. Shadow' = Shadow
      BY <2>2, <2>4 DEF Shadow
    <2> QED
      BY <2>2, <2>5, ShadowStutters DEF Shows
  <1>12. CASE Send(c)
    <2>1. /\ visible[k].state \in Recoverable /\ visible[k].tx = run[c].tx
          /\ visible' = visible /\ relayed' = relayed \cup {run[c].tx}
      BY <1>2, <1>12 DEF Send, RunOK, Submitting, journalVars
    <2>2. Shadow' = Shadow /\ Shadow[k].phase = "bound" /\ Shadow[k].tx = run[c].tx
      BY <1>4, <2>1, Phases DEF Shadow
    <2>3. Intent!Relay(k)
      BY <1>1, <2>1, <2>2, ShadowRelays
    <2> QED
      BY <1>1, <2>3 DEF Shows, Intent!Next
  <1>13. CASE \/ BeginNothingToDo(c) \/ BeginSubmitted(c) \/ BeginRecovering(c)
              \/ PrepareFails(c) \/ ReconcileMissing(c) \/ NotExpired(c) \/ ReadFails(c)
    BY <1>13, ShadowKept
    DEF BeginNothingToDo, BeginSubmitted, BeginRecovering, PrepareFails, ReconcileMissing,
        NotExpired, ReadFails, journalVars, historyVars
  <1> QED
    BY <1>6, <1>7, <1>8, <1>9, <1>10, <1>11, <1>12, <1>13 DEF Advance

LEMMA NextShows ==
    ASSUME ConstantsAssumption, IInv, Durable, OneStorageFault, Witnessed, Sent, [Next]_vars
    PROVE  Shows
  <1>1. CASE Network
    BY <1>1, ShadowKept
    DEF Network, NodeAccepts, NodeRefuses, LateArrives, MineBlock, Evict, journalVars, historyVars
  <1>2. CASE Process
    <2>1. relayed' = relayed
      BY <1>2 DEF Process, Crash, PowerLoss, CrashInReserve, StopProcess, RemoveStaleLock,
                  StartWriter, historyVars
    <2>2. CASE Crash \/ RemoveStaleLock \/ StartWriter \/ PowerLoss
      BY <2>1, <2>2, ShadowKept, PowerLossReverts
      DEF Crash, RemoveStaleLock, StartWriter, journalVars
    <2>3. ASSUME NEW k \in Keys, CrashInReserve(k)
          PROVE  Shows
      <3>1. visible[k] = NoRecord /\ visible' = [visible EXCEPT ![k] = TornRecord]
            /\ visible \in [Keys -> JournalEntry]
        BY <2>3 DEF CrashInReserve, IInv, TypeOK
      <3>2. \A j \in Keys : Shown(visible'[j]) = Shown(visible[j])
        BY <3>1, Phases DEF Shown, NoRecord, TornRecord
      <3>3. Shadow' = Shadow
        BY <3>2 DEF Shadow
      <3> QED
        BY <2>1, <3>3, ShadowStutters DEF Shows
    <2> QED
      BY <1>2, <2>2, <2>3 DEF Process
  <1>3. CASE UNCHANGED vars
    BY <1>3, ShadowKept DEF vars, journalVars, historyVars
  <1> QED
    BY <1>1, <1>2, <1>3, HandlerShows, CallShows DEF Next

\* The journal and the network show the life of a write intent and nothing else:
\* one request, one authorisation, one transaction, one verdict, for any number of
\* keys, callers, crashes and failing writes.
THEOREM Implements ==
    ASSUME OneStorageFault
    PROVE  Spec => ImplementsIntent
  <1>1. Init => Intent!Init
    BY Phases DEF Init, Intent!Init, NoRecord
  <1>2. Init => Sent
    BY DEF Init, Sent, IdleRun
  <1>3. IInv /\ Sent /\ [Next]_vars => Sent'
    BY NextSent
  <1>4. IInv /\ Durable /\ Witnessed /\ Sent /\ [Next]_vars => [Intent!Next]_(Intent!vars)
    BY ConstantsAssumption, NextShows DEF Shows
  <1> QED
    BY <1>1, <1>2, <1>3, <1>4, Invariance, Durability, Witnesses, PTL
    DEF Spec, ImplementsIntent, Intent!Spec
=============================================================================
