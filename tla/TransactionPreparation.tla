------------------------ MODULE TransactionPreparation ------------------------
(***************************************************************************)
(* From a transfer, claim, invocation or deployment to a signed            *)
(* transaction or a fee estimate: src/src/services/neo-service.ts,         *)
(* src/src/contracts/contract-service.ts and                               *)
(* src/src/utils/transaction-preparation.ts.  Every answer of a node is a  *)
(* step, and the chain moves between any two.  What becomes of a signed    *)
(* transaction is in WriteOperations and RpcFailover.                      *)
(***************************************************************************)
EXTENDS Numerals, FiniteSetsExt

CONSTANTS
    Jobs, Requests,     \* the calls of a behaviour, and what they ask for: see Request
    Lifespan,           \* MAX_TRANSACTION_LIFESPAN
    MaxFee,             \* maxTransactionFeeDatos
    MinClaim,           \* the unclaimed GAS worth a claim
    VmMax,              \* the greatest integer of the Neo VM
    GasDecimals,        \* a GAS has 10^GasDecimals datos
    TokenDecimals,      \* of the token that is neither NEO nor GAS
    Fees,               \* what nodes say a script or a witness costs
    Wallets,            \* [gas, neo, unclaimed] the signer may have
    Top                 \* bound on blocks

VARIABLES
    height, wallet,     \* the chain: its last block, and what the signer has
    networkMagic,       \* [Services -> whether the network was verified]
    job                 \* [Jobs -> record]

vars == <<height, wallet, networkMagic, job>>

Services == {"neo", "contracts"}
Kinds == {"transfer", "claimGas", "invoke", "deploy", "estimate"}
ServiceOf(kind) == IF kind = "deploy" THEN "contracts" ELSE "neo"
Rejected == -1
Nothing == [plain |-> FALSE, whole |-> <<>>, fraction |-> <<>>]

\* A request by the outcome of what is looked at in it: an amount is the digits of a
\* decimal, or not one.
Request(r) ==
    /\ r.kind \in Kinds /\ r.sender \in BOOLEAN /\ r.recipient \in BOOLEAN /\ r.attributes \in BOOLEAN
    /\ r.asset \in {"NEO", "GAS", "token", "unknown"}
    /\ r.amount.plain \in BOOLEAN /\ r.amount.whole \in Seq(0 .. 9) /\ r.amount.fraction \in Seq(0 .. 9)
    /\ r.arguments \in BOOLEAN
    /\ r.nef \in {"canonical", "trailing", "oddHex", "looseBase64", "encoding"} /\ r.manifest \in BOOLEAN

ConstantsOK ==
    /\ \A r \in Requests : Request(r)
    /\ Lifespan \in Nat \ {0} /\ MaxFee \in Nat /\ MinClaim \in Nat /\ Top \in Nat
    /\ VmMax \in Nat /\ GasDecimals \in Nat /\ TokenDecimals \in Nat
    /\ Fees \subseteq Nat
    /\ \A w \in Wallets : w.gas \in Nat /\ w.neo \in 0 .. VmMax /\ w.unclaimed \in Nat

Unstarted == [pc |-> "idle", kind |-> "invoke", asset |-> "NEO", amount |-> Nothing, decimals |-> 0,
              scaled |-> 0, validUntilBlock |-> 0, systemFee |-> 0, networkFee |-> 0,
              claim |-> "none", began |-> 0, seen |-> {}, told |-> Nothing]

-----------------------------------------------------------------------------
(* Amounts.                                                                *)

Number(digits) == NumberOf(10, digits)

\* Deviation: the integers of the VM have no end.
ScaledUnbounded(amount, decimals) ==
    IF ~amount.plain \/ decimals \notin 0 .. 255 \/ Len(amount.fraction) > decimals THEN Rejected
    ELSE Number(amount.whole \o amount.fraction \o Zeros(decimals - Len(amount.fraction)))

\* scaleTokenAmount().
Scaled(amount, decimals) ==
    IF ~amount.plain \/ decimals \notin 0 .. 255 \/ Len(amount.fraction) > decimals THEN Rejected
    ELSE LET scaled == Number(amount.whole \o amount.fraction \o Zeros(decimals - Len(amount.fraction)))
         IN  IF scaled \in 1 .. VmMax THEN scaled ELSE Rejected

\* The digits of v, at least n of them.
Digits(v, n) ==
    LET size == CHOOSE k \in n .. n + v : v < Power(10, k) /\ (k = n \/ Power(10, k - 1) <= v)
    IN  DigitsOf(10, v, size)

\* formatDatosAsGas().
FormatDatosAsGas(v) ==
    LET digits   == Digits(v, GasDecimals + 1)
        fraction == SubSeq(digits, Len(digits) - GasDecimals + 1, Len(digits))
        used     == Max({0} \cup {i \in DOMAIN fraction : fraction[i] # 0})
    IN  [plain |-> TRUE, whole |-> SubSeq(digits, 1, Len(digits) - GasDecimals),
         fraction |-> SubSeq(fraction, 1, used)]

\* parseGasAmountToDatos().
ParseGasAmountToDatos(gas) ==
    LET datos == Number(gas.whole) * Power(10, GasDecimals)
                    + Number(gas.fraction \o Zeros(GasDecimals - Len(gas.fraction)))
    IN  IF ~gas.plain \/ (Len(gas.whole) > 1 /\ gas.whole[1] = 0) \/ Len(gas.fraction) > GasDecimals \/ datos = 0
        THEN Rejected ELSE datos

-----------------------------------------------------------------------------
(* Arguments.                                                              *)

\* getAssetHash(), or a script hash as it is.
KnownAsset(asset) == asset # "unknown"

\* Transfers and their estimates: addresses and asset; attributes are not supported.
TransferAccepted(r) == r.sender /\ r.recipient /\ ~r.attributes /\ KnownAsset(r.asset)

\* invokeContract(): hash, operation and arguments that can be formatted.
InvokeAccepted(r) == r.sender /\ r.arguments /\ ~r.attributes

\* parseEncodedNef(): canonical text of a canonical artifact.
NefParses(nef) == nef = "canonical"

\* prepareContractDeployment() up to its request.
DeployAccepted(r) == NefParses(r.nef) /\ r.sender /\ r.manifest

Accepted(r) ==
    CASE r.kind \in {"transfer", "estimate"} -> TransferAccepted(r)
      [] r.kind = "claimGas" -> r.sender
      [] r.kind = "invoke"   -> InvokeAccepted(r)
      [] r.kind = "deploy"   -> DeployAccepted(r)

-----------------------------------------------------------------------------
(* Steps of a job.                                                         *)

Become(j, record) == job' = [job EXCEPT ![j] = record]
Fail(j) == Become(j, [Unstarted EXCEPT !.pc = "failed"])
AtRest(j) == job[j].pc \in {"idle", "failed", "signed", "told"}

\* Where a job goes on once the network is verified.
AfterMagic(kind) ==
    CASE kind \in {"transfer", "estimate"} -> "decimals"
      [] kind = "claimGas" -> "claim"
      [] kind \in {"invoke", "deploy"} -> "count"

\* The arguments are checked; the magic is asked for unless it is known.
Start(j, r) ==
    /\ job[j].pc = "idle"
    /\ IF Accepted(r)
       THEN Become(j, [Unstarted EXCEPT
              !.pc = IF networkMagic[ServiceOf(r.kind)] THEN AfterMagic(r.kind) ELSE "magic",
              !.kind = r.kind, !.asset = IF r.kind = "claimGas" THEN "NEO" ELSE r.asset,
              !.amount = r.amount, !.began = height, !.seen = {wallet}])
       ELSE Fail(j)
    /\ UNCHANGED <<height, wallet, networkMagic>>

\* getNetworkMagic(): one request for all who wait; a failure is forgotten.
MagicAnswers(service, right) ==
    LET waits(j) == job[j].pc = "magic" /\ ServiceOf(job[j].kind) = service
    IN  /\ \E j \in Jobs : waits(j)
        /\ networkMagic' = [networkMagic EXCEPT ![service] = right]
        /\ job' = [j \in Jobs |->
              IF ~waits(j) THEN job[j]
              ELSE IF right THEN [job[j] EXCEPT !.pc = AfterMagic(job[j].kind)]
              ELSE [Unstarted EXCEPT !.pc = "failed"]]
        /\ UNCHANGED <<height, wallet>>

\* The amount is scaled by what the token says of itself, and the script is built.
ScaleBy(j, decimals) ==
    LET scaled == Scaled(job[j].amount, decimals)
    IN  IF scaled = Rejected THEN Fail(j)
        ELSE Become(j, [job[j] EXCEPT !.decimals = decimals, !.scaled = scaled,
                          !.pc = IF job[j].kind = "estimate" THEN "system" ELSE "count"])

DecimalsOf(asset) == CASE asset = "NEO" -> 0 [] asset = "GAS" -> GasDecimals [] OTHER -> TokenDecimals

\* buildNep17TransferScript(): NEO and GAS are known, another token is asked.
DecimalsAnswer(j, decimals) ==
    /\ job[j].pc = "decimals"
    /\ decimals = DecimalsOf(job[j].asset)
    /\ ScaleBy(j, decimals)
    /\ UNCHANGED <<height, wallet, networkMagic>>

\* readClaimableNeoBalance(): of its two requests the unclaimed GAS decides first.
UnclaimedAnswers(j) ==
    /\ job[j].pc = "claim" /\ job[j].claim # "worth"
    /\ IF wallet.unclaimed < MinClaim THEN Fail(j)
       ELSE IF job[j].claim = "counted" THEN Become(j, [job[j] EXCEPT !.pc = "count"])
       ELSE Become(j, [job[j] EXCEPT !.claim = "worth"])
    /\ UNCHANGED <<height, wallet, networkMagic>>

\* The balance is what is moved, if there is one.  Whichever of the two is bad, and
\* whichever comes first, the job fails.
NeoBalanceAnswers(j) ==
    /\ job[j].pc = "claim" /\ job[j].claim # "counted"
    /\ IF wallet.neo = 0 THEN Fail(j)
       ELSE Become(j, [job[j] EXCEPT !.scaled = wallet.neo,
                         !.pc = IF job[j].claim = "worth" THEN "count" ELSE "claim",
                         !.claim = "counted"])
    /\ UNCHANGED <<height, wallet, networkMagic>>

\* Deviation: one block too many.
ValidUntilLate(blockCount) == blockCount + Lifespan
ValidUntil(blockCount) == blockCount + Lifespan - 1

\* getblockcount, from a node that may be a block behind.
CountAnswers(j, behind) ==
    /\ job[j].pc = "count" /\ height >= behind
    /\ Become(j, [job[j] EXCEPT !.validUntilBlock = ValidUntil(height + 1 - behind), !.pc = "system"])
    /\ UNCHANGED <<height, wallet, networkMagic>>

\* calculateSystemFee(): what a run of the script used, unless it faults.
SystemFeeAnswers(j, fee, halts) ==
    /\ job[j].pc = "system"
    /\ IF halts THEN Become(j, [job[j] EXCEPT !.systemFee = fee, !.pc = "network"]) ELSE Fail(j)
    /\ UNCHANGED <<height, wallet, networkMagic>>

\* The configured cap is on both fees together.
WithinCap(record, fee) == record.systemFee + fee <= MaxFee

\* createFeeEstimate(): what is told of the fees.
Estimated(record, fee) ==
    [record EXCEPT !.networkFee = fee, !.pc = "told", !.told = FormatDatosAsGas(record.systemFee)]

\* The transaction is signed for the network that was verified.
Signed(record) == [record EXCEPT !.pc = "signed"]

\* calculateNetworkFee(); an estimate ends here, and a transaction that costs too much.
NetworkFeeAnswers(j, fee) ==
    /\ job[j].pc = "network"
    /\ IF job[j].kind = "estimate"
       THEN Become(j, Estimated(job[j], fee))
       ELSE IF WithinCap(job[j], fee) THEN Become(j, [job[j] EXCEPT !.networkFee = fee, !.pc = "gas"])
       ELSE Fail(j)
    /\ UNCHANGED <<height, wallet, networkMagic>>

\* balanceOf for GAS.
GasBalanceAnswers(j) ==
    /\ job[j].pc = "gas"
    /\ IF wallet.gas < job[j].systemFee + job[j].networkFee THEN Fail(j)
       ELSE Become(j, Signed(job[j]))
    /\ UNCHANGED <<height, wallet, networkMagic>>

\* An answer does not come, or is no number.
RpcFails(j) ==
    /\ ~AtRest(j) /\ job[j].pc # "magic"
    /\ Fail(j)
    /\ UNCHANGED <<height, wallet, networkMagic>>

\* A block is made, in which the wallet may change.
Block(after) ==
    /\ height < Top
    /\ height' = height + 1 /\ wallet' = after
    /\ job' = [j \in Jobs |-> IF AtRest(j) THEN job[j] ELSE [job[j] EXCEPT !.seen = @ \cup {after}]]
    /\ UNCHANGED networkMagic

-----------------------------------------------------------------------------

Init ==
    /\ height \in 0 .. 1 /\ wallet \in Wallets
    /\ networkMagic = [service \in Services |-> FALSE]
    /\ job = [j \in Jobs |-> Unstarted]

Step(j) ==
    \/ \E r \in Requests : Start(j, r)
    \/ \E decimals \in {0, GasDecimals, TokenDecimals} : DecimalsAnswer(j, decimals)
    \/ UnclaimedAnswers(j) \/ NeoBalanceAnswers(j)
    \/ \E behind \in 0 .. 1 : CountAnswers(j, behind)
    \/ \E fee \in Fees, halts \in BOOLEAN : SystemFeeAnswers(j, fee, halts)
    \/ \E fee \in Fees : NetworkFeeAnswers(j, fee)
    \/ GasBalanceAnswers(j) \/ RpcFails(j)

Next ==
    \/ \E j \in Jobs : Step(j)
    \/ \E service \in Services, right \in BOOLEAN : MagicAnswers(service, right)
    \/ \E after \in Wallets : Block(after)

Spec == Init /\ [][Next]_vars

-----------------------------------------------------------------------------
(* Properties.                                                             *)

TypeOK ==
    /\ height \in 0 .. Top /\ wallet \in Wallets
    /\ networkMagic \in [Services -> BOOLEAN]
    /\ \A j \in Jobs :
          /\ job[j].pc \in {"idle", "magic", "decimals", "claim", "count", "system", "network", "gas",
                            "signed", "told", "failed"}
          /\ job[j].kind \in Kinds /\ job[j].claim \in {"none", "worth", "counted"}
          /\ job[j].scaled \in 0 .. VmMax /\ job[j].seen \subseteq Wallets

\* However the chain moves while a transaction is prepared, a signed one is for the
\* verified network; its block limit is one every node that has seen the blocks it was
\* prepared from accepts; its fees are within the cap and were affordable; and it moves
\* the amount asked for, scaled for its asset, or a whole balance the account had while
\* there was something to claim.
SignedIsSound ==
    \A j \in Jobs :
        LET i == job[j] IN
        /\ i.pc = "signed" =>
              /\ networkMagic[ServiceOf(i.kind)]
              /\ i.validUntilBlock \in i.began + Lifespan - 1 .. height + Lifespan
              /\ i.systemFee + i.networkFee <= MaxFee
              /\ \E then \in i.seen : i.systemFee + i.networkFee <= then.gas
              /\ i.kind = "transfer" => i.scaled = Scaled(i.amount, DecimalsOf(i.asset)) /\ i.scaled > 0
              /\ i.kind = "claimGas" =>
                    /\ \E then \in i.seen : then.neo = i.scaled /\ i.scaled > 0
                    /\ \E then \in i.seen : then.unclaimed >= MinClaim

\* A signed transfer moves the digits that were given, and no others; an estimate says
\* its fee to the last digit.
AmountsAreExact ==
    \A j \in Jobs :
        LET i == job[j] IN
        /\ i.pc = "signed" /\ i.kind = "transfer" =>
              Number(i.amount.whole \o i.amount.fraction) * Power(10, i.decimals)
                 = i.scaled * Power(10, Len(i.amount.fraction))
        /\ i.pc = "told" /\ i.systemFee > 0 => ParseGasAmountToDatos(i.told) = i.systemFee
===============================================================================
