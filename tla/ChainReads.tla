----------------------------- MODULE ChainReads -----------------------------
(***************************************************************************)
(* The reads that put an answer together from several requests to a node:  *)
(* NeoService (src/src/services/neo-service.ts), n3-transaction-status.ts  *)
(* and neox-node-tools.ts (src/src/handlers).  Requests of one read are    *)
(* answered one after the other or in any order, by endpoints of which     *)
(* some lag behind, while the chain goes on.  What a read asks next and    *)
(* what it makes of the answers are functions of the answers it has.       *)
(***************************************************************************)
EXTENDS Integers, Sequences

CONSTANTS
    Asks,           \* the reads: see AskForm
    Top,            \* bound: the highest block
    MaxLag,         \* blocks an endpoint may be behind
    Week            \* the window of a transfer history that says no beginning

VARIABLES
    height,         \* index of the last block
    mined,          \* the block of the examined transaction, 0 while there is none
    pooled,         \* it was relayed
    halts,          \* how it executes: it swaps the account's one NEO for one GAS, or faults
    validated,      \* the last block whose state root is signed by the validators
    read            \* the examined read
vars == <<height, mined, pooled, halts, validated, read>>

\* block and root: get_block; from and to: transfer history, None when left out; by: how
\* a Neo X block is referred to.
None == -1
AskForm(ask) ==
    /\ ask.kind \in {"n3Info", "n3Block", "n3Balance", "n3Transaction", "n3Status", "n3Transfers", "n3Log", "n3Invoke",
                     "xInfo", "xBlock", "xTransaction", "xBalance", "xStatus", "xCall"}
    /\ ask.block \in 0 .. Top + 1 /\ ask.root \in BOOLEAN /\ ask.by \in {"number", "tag", "hash", "garbage"}
    /\ ask.from \in {None} \cup 0 .. Top /\ ask.to \in {None} \cup 0 .. Top
ConstantsOK == Top \in Nat \ {0} /\ MaxLag \in Nat /\ Week \in Nat /\ \A ask \in Asks : AskForm(ask)

-----------------------------------------------------------------------------
(* The node. An answer has a state, a number, the form of a receipt or of  *)
(* the participants in an application log, and these participants.         *)

Larger(a, b) == IF a >= b THEN a ELSE b
Party(name, order) == [name |-> name, order |-> order]
Parties == [from |-> Party("alice", "big"), to |-> Party("bob", "big")]
Nobody  == [from |-> Party("null", "big"), to |-> Party("null", "big")]
Answer(state, number) == [state |-> state, number |-> number, form |-> "none", parties |-> Nobody]
Ok(number) == Answer("ok", number)

\* The heights an endpoint may be at when the chain is at h.
Views(h) == Larger(0, h - MaxLag) .. h
MinedAt(h) == mined \in 1 .. h
NeoAt(h) == IF MinedAt(h) /\ halts THEN 0 ELSE 1
GasAt(h) == 1 - NeoAt(h)

\* Contracts emit participants as a hash, as its bytes, which are little-endian, or as an
\* address.
Reversed(party) == [party EXCEPT !.order = IF party.order = "big" THEN "little" ELSE "big"]
Log(number) ==
    {[state |-> "ok", number |-> number, form |-> form,
      parties |-> [p \in {"from", "to"} |-> IF form = "ByteString" THEN Reversed(Parties[p]) ELSE Parties[p]]] :
        form \in {"Hash160", "ByteString", "String"}}

\* What an endpoint at v knows of the transaction: its confirmations, 0 in the pool.
Transaction(v) ==
    IF MinedAt(v) THEN {Ok(v - mined + 1)}
    ELSE {Answer("unknown", 0)} \cup IF pooled THEN {Ok(0)} ELSE {}
History(from, to, v) == IF MinedAt(v) /\ mined \in from .. to THEN 1 ELSE 0

\* The first and last time of the history a node is asked for: it takes a first parameter
\* for the beginning, and the last Week when there is none.
HistoryParams(ask) ==
    (IF ask.from # None THEN <<ask.from>> ELSE IF ask.to # None THEN <<0>> ELSE <<>>)
    \o (IF ask.to # None THEN <<ask.to>> ELSE <<>>)
HistoryAnswer(params, v) ==
    Ok(History(IF params = <<>> THEN v - Week ELSE params[1],
               IF Len(params) < 2 THEN v ELSE params[2], v))

Known(rpc, ask, v) ==
    CASE rpc = "getblockcount"             -> {Ok(v + 1)}
      [] rpc \in {"getvalidators", "getnextblockvalidators"} -> {Ok(1)}
      [] rpc = "getblock"                  -> {IF ask.block <= v THEN Ok(ask.block) ELSE Answer("unknown", 0)}
      [] rpc = "getstateroot"              -> {IF ask.block <= v THEN Ok(ask.block) ELSE Answer("unknown", 0)}
      [] rpc = "getstateheight"            -> {Ok(IF validated <= v THEN validated ELSE v)}
      [] rpc = "getnep17balances"          -> {Ok(NeoAt(v)), Answer("empty", 0)}
      [] rpc = "balanceOf NEO"             -> {Ok(NeoAt(v)), Answer("fault", 0)}
      [] rpc = "balanceOf GAS"             -> {Ok(GasAt(v)), Answer("fault", 0)}
      [] rpc \in {"getrawtransaction", "getrawtransaction by query"} -> Transaction(v)
      [] rpc = "getapplicationlog" ->
            IF ~MinedAt(v) THEN {Answer("unknown", 0)}
            ELSE {Answer("empty", 0)} \cup Log(IF halts THEN 1 ELSE 0)
      [] rpc = "getnep17transfers"         -> {HistoryAnswer(HistoryParams(ask), v)}
      [] rpc = "invokescript"              -> {IF halts THEN Ok(1) ELSE Answer("fault", 0)}
      [] rpc = "eth_call"                  -> {IF halts THEN Ok(1) ELSE Answer("failed", 0)}
      [] rpc \in {"eth_chainId", "eth_gasPrice"} -> {Ok(1)}
      [] rpc = "eth_blockNumber"           -> {Ok(v)}
      [] rpc \in {"eth_getBlockByNumber", "eth_getBlockByHash"} ->
            {IF ask.by = "tag" THEN Ok(v) ELSE IF ask.block <= v THEN Ok(ask.block) ELSE Answer("null", 0)}
      [] rpc = "eth_getBalance"            -> {Ok(GasAt(v))}
      [] rpc = "eth_getTransactionByHash"  ->
            IF MinedAt(v) THEN {Ok(mined)} ELSE {Answer("null", 0)} \cup IF pooled THEN {Ok(0)} ELSE {}
      [] rpc = "eth_getTransactionReceipt" ->
            {IF MinedAt(v) THEN [Ok(mined) EXCEPT !.form = IF halts THEN "0x1" ELSE "0x0"] ELSE Answer("null", 0)}

\* Requests some nodes do not offer, and requests that fail whatever the failover does.
Optional == {"getvalidators", "getnextblockvalidators", "getnep17balances", "getrawtransaction",
             "getrawtransaction by query"}
Answers(rpc, ask) ==
    (UNION {Known(rpc, ask, v) : v \in Views(height)})
    \cup {Answer("failed", 0)}
    \cup IF rpc \in Optional THEN {Answer("unsupported", 0)} ELSE {}

-----------------------------------------------------------------------------
(* What a read asks, given the answers it got.                             *)

With(got, rpc, answer) == [r \in DOMAIN got \cup {rpc} |-> IF r = rpc THEN answer ELSE got[r]]
Is(got, rpc, state) == rpc \in DOMAIN got /\ got[rpc].state = state
If(condition, rpcs) == IF condition THEN rpcs ELSE {}

\* getTransaction() asks in another form when a node does not know the first.
TransactionRequests(got) ==
    {"getrawtransaction"} \cup If(Is(got, "getrawtransaction", "unsupported"), {"getrawtransaction by query"})
TransactionAnswer(got) ==
    got[IF "getrawtransaction by query" \in DOMAIN got THEN "getrawtransaction by query" ELSE "getrawtransaction"]
TransactionKnown(got) ==
    /\ TransactionRequests(got) \subseteq DOMAIN got
    /\ TransactionAnswer(got).state = "ok"

\* The height is asked for a transaction in a block, then its log.
StatusRequests(got) ==
    LET inBlock == TransactionKnown(got) /\ TransactionAnswer(got).number > 0
    IN  TransactionRequests(got) \cup If(inBlock, {"getblockcount"})
            \cup If(inBlock /\ "getblockcount" \in DOMAIN got, {"getapplicationlog"})

InfoRequests(got) ==
    {"getblockcount", "getvalidators"} \cup If(Is(got, "getvalidators", "unsupported"), {"getnextblockvalidators"})
BlockRequests(ask, got) ==
    {"getblock"} \cup If(ask.root /\ Is(got, "getblock", "ok"), {"getstateroot", "getstateheight"})
BalanceRequests(got) ==
    {"getnep17balances"} \cup If(Is(got, "getnep17balances", "unsupported"), {"balanceOf NEO", "balanceOf GAS"})

\* The pool tells the pending from the unknown.
EvmStatusRequests(got) ==
    {"eth_getTransactionReceipt"}
    \cup If(Is(got, "eth_getTransactionReceipt", "null"), {"eth_getTransactionByHash"})
    \cup If(Is(got, "eth_getTransactionReceipt", "ok"), {"eth_blockNumber"})
BlockLookup(ask) == IF ask.by = "hash" THEN "eth_getBlockByHash" ELSE "eth_getBlockByNumber"

Wanted(ask, got) ==
    CASE ask.kind = "n3Info"        -> InfoRequests(got)
      [] ask.kind = "n3Block"       -> BlockRequests(ask, got)
      [] ask.kind = "n3Balance"     -> BalanceRequests(got)
      [] ask.kind = "n3Transaction" -> TransactionRequests(got)
      [] ask.kind = "n3Status"      -> StatusRequests(got)
      [] ask.kind = "n3Transfers"   -> {"getnep17transfers"}
      [] ask.kind = "n3Log"         -> {"getapplicationlog"}
      [] ask.kind = "n3Invoke"      -> {"invokescript"}
      [] ask.kind = "xInfo"         -> {"eth_chainId", "eth_blockNumber", "eth_gasPrice"}
      [] ask.kind = "xBlock"        -> {BlockLookup(ask)}
      [] ask.kind = "xTransaction"  -> {"eth_getTransactionByHash"}
      [] ask.kind = "xBalance"      -> {"eth_getBalance"}
      [] ask.kind = "xStatus"       -> EvmStatusRequests(got)
      [] ask.kind = "xCall"         -> {"eth_call"}

\* Answers that are not good and do not end the read.
Tolerated(ask, rpc, state) ==
    \/ rpc \in {"getvalidators", "getnextblockvalidators"}
    \/ rpc \in {"getnep17balances", "getrawtransaction"} /\ state = "unsupported"
    \/ ask.kind = "n3Status" /\
         \/ rpc \in {"getblockcount", "getapplicationlog"}
         \/ rpc \in {"getrawtransaction", "getrawtransaction by query"} /\ state = "unknown"
         \* its message has "not found" in it
         \/ rpc = "getrawtransaction by query" /\ state = "unsupported"
    \/ ask.kind = "xStatus" /\ rpc # "eth_blockNumber" /\ state = "null"
    \/ ask.kind = "n3Log" /\ state = "empty"
Fails(ask, rpc, answer) == answer.state # "ok" /\ ~Tolerated(ask, rpc, answer.state)

-----------------------------------------------------------------------------
(* What it makes of them.                                                  *)

Error == [outcome |-> "error", status |-> "none", succeeded |-> "null", confirmations |-> 0, block |-> None,
          height |-> None, neo |-> None, gas |-> None, validated |-> FALSE, listed |-> None, parties |-> Nobody]
Told == [Error EXCEPT !.outcome = "answer"]

\* The containing block is one confirmation; the count is one more than the last index.
BlockNumber(confirmations, count) ==
    LET derived == count.number - 1 - (confirmations - 1)
    IN  IF count.state = "ok" /\ count.number > 0 /\ derived >= 0 THEN derived ELSE None

Succeeded(log) == IF log.state # "ok" THEN "null" ELSE IF log.number = 1 THEN "yes" ELSE "no"

Status(got) ==
    LET transaction == TransactionAnswer(got) IN
    IF transaction.state # "ok" THEN [Told EXCEPT !.status = "unknown", !.succeeded = "no"]
    ELSE IF transaction.number = 0 THEN [Told EXCEPT !.status = "pending", !.succeeded = "no"]
    ELSE [Told EXCEPT !.status = "confirmed", !.confirmations = transaction.number,
                      !.block = BlockNumber(transaction.number, got["getblockcount"]),
                      !.succeeded = Succeeded(got["getapplicationlog"])]

EvmStatus(got) ==
    LET receipt == got["eth_getTransactionReceipt"] IN
    IF receipt.state = "ok" THEN
        [Told EXCEPT !.status = "confirmed", !.succeeded = IF receipt.form = "0x1" THEN "yes" ELSE "no",
                     !.block = receipt.number,
                     !.confirmations = Larger(0, got["eth_blockNumber"].number - receipt.number + 1)]
    ELSE [Told EXCEPT !.succeeded = "no",
                      !.status = IF got["eth_getTransactionByHash"].state = "ok" THEN "pending" ELSE "unknown"]

\* parseTransferParticipant(): bytes are turned round.
Participant(log, p) == IF log.form = "ByteString" THEN Reversed(log.parties[p]) ELSE log.parties[p]
EnrichedLog(log) ==
    IF log.state = "empty" THEN Told
    ELSE [Told EXCEPT !.succeeded = Succeeded(log), !.parties = [p \in {"from", "to"} |-> Participant(log, p)]]

Balance(got) ==
    IF Is(got, "getnep17balances", "ok")
    THEN [Told EXCEPT !.neo = got["getnep17balances"].number, !.gas = 1 - got["getnep17balances"].number]
    ELSE [Told EXCEPT !.neo = got["balanceOf NEO"].number, !.gas = got["balanceOf GAS"].number]

Block(ask, got) ==
    [Told EXCEPT !.block = got["getblock"].number,
                 !.validated = ask.root /\ got["getstateroot"].number <= got["getstateheight"].number]

Result(ask, got) ==
    CASE ask.kind = "n3Info"        -> [Told EXCEPT !.height = Larger(0, got["getblockcount"].number - 1)]
      [] ask.kind = "n3Block"       -> Block(ask, got)
      [] ask.kind = "n3Balance"     -> Balance(got)
      [] ask.kind = "n3Transaction" -> [Told EXCEPT !.confirmations = TransactionAnswer(got).number]
      [] ask.kind = "n3Status"      -> Status(got)
      [] ask.kind = "n3Transfers"   -> [Told EXCEPT !.listed = got["getnep17transfers"].number]
      [] ask.kind = "n3Log"         -> EnrichedLog(got["getapplicationlog"])
      [] ask.kind = "xInfo"         -> [Told EXCEPT !.height = got["eth_blockNumber"].number]
      [] ask.kind = "xBlock"        -> [Told EXCEPT !.block = got[BlockLookup(ask)].number]
      [] ask.kind = "xTransaction"  -> Told
      [] ask.kind = "xBalance"      -> [Told EXCEPT !.gas = got["eth_getBalance"].number]
      [] ask.kind = "xStatus"       -> EvmStatus(got)
      [] ask.kind \in {"n3Invoke", "xCall"} -> [Told EXCEPT !.succeeded = "yes"]

\* What a read refuses before it asks.
Refused(ask) ==
    \/ ask.kind = "n3Transfers" /\ ask.from # None /\ ask.to # None /\ ask.from > ask.to
    \/ ask.kind = "xBlock" /\ ask.by = "garbage"

-----------------------------------------------------------------------------

Idle == [pc |-> "idle", ask |-> <<>>, began |-> 0, got |-> <<>>, result |-> Error]

Init ==
    /\ height = 1 /\ mined \in {0, 1} /\ pooled = (mined = 1) /\ halts \in BOOLEAN /\ validated \in 0 .. 1
    /\ read = Idle

Begin(ask) ==
    /\ read' = [Idle EXCEPT !.pc = IF Refused(ask) THEN "done" ELSE "asking", !.ask = ask, !.began = height]
    /\ UNCHANGED <<height, mined, pooled, halts, validated>>

\* One answer arrives: it fails the read, completes it, or leads to further requests.
\* Several requests that are out are answered in any order.
Receive(rpc) ==
    /\ rpc \in Wanted(read.ask, read.got) \ DOMAIN read.got
    /\ \E answer \in Answers(rpc, read.ask) :
         LET got == With(read.got, rpc, answer) IN
         read' = IF Fails(read.ask, rpc, answer) THEN [read EXCEPT !.pc = "done", !.got = got]
                 ELSE IF Wanted(read.ask, got) \subseteq DOMAIN got
                 THEN [read EXCEPT !.pc = "done", !.got = got, !.result = Result(read.ask, got)]
                 ELSE [read EXCEPT !.got = got]
    /\ UNCHANGED <<height, mined, pooled, halts, validated>>

\* The transaction is relayed, the chain makes a block, its roots are signed.
ChainGoesOn ==
    /\ read.pc # "done"
    /\ \/ /\ ~pooled /\ pooled' = TRUE
          /\ UNCHANGED <<height, mined, validated>>
       \/ /\ height < Top /\ height' = height + 1
          /\ mined' \in IF pooled /\ mined = 0 THEN {0, height'} ELSE {mined}
          /\ UNCHANGED <<pooled, validated>>
       \/ /\ validated < height /\ validated' = validated + 1
          /\ UNCHANGED <<height, mined, pooled>>
    /\ UNCHANGED <<halts, read>>

Next ==
    \/ read.pc = "idle" /\ \E ask \in Asks : Begin(ask)
    \/ read.pc = "asking" /\ \E rpc \in Wanted(read.ask, read.got) : Receive(rpc)
    \/ ChainGoesOn

Spec == Init /\ [][Next]_vars

-----------------------------------------------------------------------------
(* Properties.                                                             *)

TypeOK ==
    /\ height \in 1 .. Top /\ mined \in 0 .. height /\ pooled \in BOOLEAN /\ halts \in BOOLEAN
    /\ validated \in 0 .. height
    /\ read.pc \in {"idle", "asking", "done"} /\ (read.pc # "idle" => AskForm(read.ask)) /\ read.began \in 0 .. height
    /\ read.result.outcome \in {"error", "answer"}
    /\ read.result.status \in {"none", "confirmed", "pending", "unknown"}
    /\ read.result.succeeded \in {"yes", "no", "null"}

\* The heights the answers of this read may speak of.
Window == Larger(0, read.began - MaxLag) .. height

\* A node that answers "method not found" to both forms of the question is taken to
\* have said that there is no such transaction.
Mistaken == Is(read.got, "getrawtransaction by query", "unsupported")

StatusWasTrue ==
    LET told == read.result IN
    /\ told.status = "confirmed" =>
         /\ mined > 0 /\ told.confirmations \in 0 .. height - mined + 1
         /\ told.succeeded = "yes" => halts
         /\ told.succeeded = "no" => ~halts
         /\ told.block # None => told.block - mined \in -MaxLag .. MaxLag + height - read.began
    /\ told.status = "pending" => pooled
    /\ told.status \in {"pending", "unknown"} => ~MinedAt(read.began - MaxLag) \/ Mistaken

\* Whatever answers of different endpoints at different times a read was put together
\* from, what it tells was true at some height between the oldest an endpoint may have
\* been at when it began and the present: heights, balances, the depth and the outcome of
\* a transaction, that a state root is validated, and who transferred to whom. A
\* transaction that every endpoint had in a block when the read began is never told to be
\* pending or unknown, an outcome that could not be read is not told, and the history is
\* that of the asked time.
AnswersWereTrue ==
    LET ask == read.ask  told == read.result IN
    told.outcome = "answer" =>
        /\ StatusWasTrue
        /\ told.height # None => told.height \in Window
        /\ told.neo # None => \E h \in Window : told.neo = NeoAt(h)
        /\ told.gas # None => \E h \in Window : told.gas = GasAt(h)
        /\ told.validated => ask.block <= validated
        /\ told.parties # Nobody => told.parties = Parties
        /\ ask.kind = "n3Transfers" =>
             LET from == IF ask.from = None THEN 0 ELSE ask.from
                 to   == IF ask.to = None THEN height ELSE ask.to
             IN  /\ told.listed = 1 => MinedAt(height) /\ mined \in from .. to
                 /\ told.listed = 0 /\ (ask.from # None \/ ask.to # None) =>
                        ~(MinedAt(read.began - MaxLag) /\ mined \in from .. to)
=============================================================================
