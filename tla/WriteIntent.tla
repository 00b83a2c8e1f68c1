----------------------------- MODULE WriteIntent -----------------------------
(***************************************************************************)
(* What a write intent promises, without processes, disks or RPC: a key is *)
(* bound to one request, the request is authorised or not, an authorised   *)
(* intent is bound to one transaction, only that transaction is relayed,   *)
(* and a verdict is final.  WriteOperations implements it.                 *)
(***************************************************************************)

CONSTANTS Keys, Requests, Tx, NoTx

VARIABLES
    intent,  \* [Keys -> [phase, tx]]
    relayed  \* transactions handed to the network

vars == <<intent, relayed>>

Verdicts == {"submitted", "rejected", "expired"}
Phases == {"none", "pending", "authorised", "bound", "closed"} \cup Verdicts

TypeOK ==
    /\ intent \in [Keys -> [phase : Phases, tx : Tx \cup {NoTx}]]
    /\ relayed \subseteq Tx

Init ==
    /\ intent = [k \in Keys |-> [phase |-> "none", tx |-> NoTx]]
    /\ relayed = {}

Move(k, from, to) ==
    /\ intent[k].phase = from
    /\ intent' = [intent EXCEPT ![k].phase = to]
    /\ UNCHANGED relayed

Reserve(k)   == Move(k, "none", "pending")
Authorise(k) == Move(k, "pending", "authorised")
Close(k)     == Move(k, "pending", "closed") \/ Move(k, "authorised", "closed")

\* The one moment at which a transaction is chosen: nothing of this key has
\* been relayed before it.
Bind(k, tx) ==
    /\ intent[k].phase = "authorised"
    /\ tx.key = k
    /\ \A other \in relayed : other.key # k
    /\ intent' = [intent EXCEPT ![k] = [phase |-> "bound", tx |-> tx]]
    /\ UNCHANGED relayed

Relay(k) ==
    /\ intent[k].phase = "bound"
    /\ relayed' = relayed \cup {intent[k].tx}
    /\ UNCHANGED intent

\* Submitted is said of a relayed transaction only.
Conclude(k, verdict) ==
    /\ verdict = "submitted" => intent[k].tx \in relayed
    /\ Move(k, "bound", verdict)

Next ==
    \E k \in Keys :
        \/ Reserve(k) \/ Authorise(k) \/ Close(k) \/ Relay(k)
        \/ \E tx \in Tx : Bind(k, tx)
        \/ \E verdict \in Verdicts : Conclude(k, verdict)

Spec == Init /\ [][Next]_vars
=============================================================================
