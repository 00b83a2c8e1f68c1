------------------------------ MODULE Proposals ------------------------------
(***************************************************************************)
(* Unsigned proposals: src/src/handlers/proposal-tools.ts with the         *)
(* builders of src/src/utils/transaction-proposal.ts.  A proposal for a    *)
(* wallet is made in several steps: the decimals of a token are asked for, *)
(* the call is built, a node runs it, and only then it is proposed.  On    *)
(* Neo X the run, the estimate and the price are asked for at once.  The   *)
(* answers may come from different endpoints, and the chain goes on.       *)
(***************************************************************************)
EXTENDS EvmAbi

CONSTANTS
    ProposalAsks,       \* what is asked for: see AskForm
    NoDecimals,         \* no decimals are given
    GasDecimals,        \* of GAS, as of any other token MaxTokenDecimals at the most
    DecimalsOn,         \* network -> decimals of the token there
    MaxTokenDecimals,   \* 255 in the code
    VmMax               \* the largest integer of the VM

VARIABLES
    services,           \* the networks of Neo N3 that are enabled
    proposal            \* the examined call, what it asked and what it came to
vars == <<services, proposal>>

Networks == {"mainnet", "testnet"}
N3Tools == {"n3_test_invoke", "n3_build_transfer", "n3_build_invoke", "n3_build_vote", "n3_build_nns_operation"}
XTools == {"x_simulate_call", "x_build_transfer", "x_build_contract_call"}

Signers == [account : {"alice", "carol", "garbage"}, form : {"address", "hash"},
            scopes : {"CalledByEntry", "Global"}]

\* amount: the digits before and after the point; signers: <<>> when none are given;
\* detail: the NNS action, or whether the candidate or the arguments are in order; data
\* and arguments: calldata, or a function and its arguments, each a type and a value;
\* value: in wei.
ArgumentForm(type, value) ==
    type \in AbiTypes /\ IF IsNumber(type) THEN value \in Int ELSE value \in Seq(Bytes)
AskForm(ask) ==
    /\ ask.tool \in N3Tools \cup XTools /\ ask.network \in Networks \cup {"none", "other"}
    /\ ask.from \in {"alice", "garbage"} /\ ask.to \in {"bob", "garbage"}
    /\ ask.asset \in {"NEO", "GAS", "token", "unknown"}
    /\ ask.amount.whole \in Seq(0 .. 9) /\ ask.amount.fraction \in Seq(0 .. 9)
    /\ ask.decimals \in {NoDecimals, MaxTokenDecimals + 1} \cup 0 .. MaxTokenDecimals
    /\ ask.data \in {"given", "odd", "function", "none"} /\ ask.value \in -1 .. 2
    /\ ask.data = "function" => ask.tool = "x_build_contract_call"
    /\ Len(ask.arguments) \in Nat /\ DOMAIN ask.arguments = 1 .. Len(ask.arguments)
    /\ \A i \in DOMAIN ask.arguments : ArgumentForm(ask.arguments[i][1], ask.arguments[i][2])
    /\ ask.signers \in Seq(Signers)
    /\ ask.signers # <<>> => ask.tool \in {"n3_test_invoke", "n3_build_invoke"}
    /\ ask.tool = "n3_build_nns_operation" =>
          ask.detail \in {"register", "renew", "set_record", "delete_record", "transfer", "bad"}
ConstantsOK ==
    /\ AbiConstantsOK
    /\ MaxTokenDecimals \in Nat /\ GasDecimals \in 0 .. MaxTokenDecimals
    /\ NoDecimals \notin 0 .. MaxTokenDecimals + 1
    /\ \A ask \in ProposalAsks : AskForm(ask)
Types(ask)  == [i \in DOMAIN ask.arguments |-> ask.arguments[i][1]]
Values(ask) == [i \in DOMAIN ask.arguments |-> ask.arguments[i][2]]

-----------------------------------------------------------------------------
(* Neo N3: what is built.                                                  *)

\* Mainnet unless a network is named: the same for every tool and both chains.
Network(ask) == IF ask.network = "none" THEN "mainnet" ELSE ask.network

\* The service callTool() hands over: mainnet's, or the only one.
ServiceFor(ask) ==
    IF ask.network # "none" THEN ask.network ELSE IF "mainnet" \in services THEN "mainnet" ELSE "testnet"

\* scaleTokenAmount(): the places of the fraction that are not given are zeros.
Scaled(amount, decimals) ==
    NumberOf(10, amount.whole \o amount.fraction) * Power(10, decimals - Len(amount.fraction))
AmountAccepted(amount, decimals) ==
    /\ decimals \in 0 .. MaxTokenDecimals /\ Len(amount.fraction) <= decimals
    /\ Scaled(amount, decimals) \in 1 .. VmMax

\* The decimals of the native tokens are known, those of others given or asked for.
KnownDecimals(ask) ==
    CASE ask.asset = "NEO" -> 0 [] ask.asset = "GAS" -> GasDecimals [] OTHER -> ask.decimals

\* calledByEntrySigner() and simulationRequestFor(): a node takes script hashes.
Signer(account, form, scopes) == [account |-> account, form |-> form, scopes |-> scopes]
RpcSigner(signer) == [signer EXCEPT !.form = "hash"]
OwnSigner(ask) == <<Signer(ask.from, "address", "CalledByEntry")>>
SignersOf(ask) ==
    IF ask.signers = <<>> /\ ask.tool = "n3_build_invoke" THEN OwnSigner(ask) ELSE ask.signers

Call(contract, operation, args, amount, signers) ==
    [contract |-> contract, operation |-> operation, args |-> args, amount |-> amount, signers |-> signers]

\* What handleN3BuildNnsOperation() makes of an action.
NnsCall(ask) ==
    LET nns == "nns " \o Network(ask)
        Nns(operation, args) == Call(nns, operation, args, 0, OwnSigner(ask))
    IN  CASE ask.detail = "register"      -> Nns("register", <<"domain", ask.from>>)
          [] ask.detail = "renew"         -> Nns("renew", <<"domain", "years">>)
          [] ask.detail = "set_record"    -> Nns("setRecord", <<"domain", "type", "data">>)
          [] ask.detail = "delete_record" -> Nns("deleteRecord", <<"domain", "type">>)
          [] ask.detail = "transfer"      -> Nns("transfer", <<ask.to, "domain", "null">>)

\* buildN3TransferProposal() and buildN3InvokeProposal(), as each tool calls them.
Built(ask, decimals) ==
    CASE ask.tool = "n3_build_transfer" ->
            Call(ask.asset, "transfer", <<ask.from, ask.to, "amount", "null">>, Scaled(ask.amount, decimals), OwnSigner(ask))
      [] ask.tool = "n3_build_vote" ->
            Call("NEO", "vote", <<ask.from, IF ask.detail = "unvote" THEN "null" ELSE "candidate">>, 0, OwnSigner(ask))
      [] ask.tool = "n3_build_nns_operation" -> NnsCall(ask)
      [] OTHER -> Call("contract", ask.operation, <<"args">>, 0, SignersOf(ask))

\* What a node is sent: handleN3TestInvoke() leaves addresses as they are.
Sent(ask, built) ==
    IF ask.tool = "n3_test_invoke" THEN built
    ELSE [built EXCEPT !.signers = [i \in DOMAIN @ |-> RpcSigner(@[i])]]

\* The preview must end well: some calls must return true.
NeedsTrue(ask, built) ==
    \/ built.operation = "transfer"
    \/ ask.tool = "n3_build_vote"
    \/ ask.tool = "n3_build_nns_operation" /\ ask.detail = "register"
EndedWell(ask, run) ==
    run.state = "HALT" /\ ~run.exception /\ (NeedsTrue(ask, run.call) => run.value = "true")

\* What is refused before anything is asked, and once the decimals are known.
Refused(ask) ==
    \/ ask.network = "other"
    \/ ask.tool \in N3Tools /\ ask.detail = "bad"
    \/ ask.tool = "n3_build_transfer" /\ ask.asset = "unknown"
    \/ ask.tool \in XTools /\ (ask.from = "garbage" \/ ask.to = "garbage" \/ ask.value < 0)
    \/ ask.tool = "x_build_transfer" /\ ask.value = 0
    \/ ask.tool \in {"x_simulate_call", "x_build_contract_call"} /\ ask.data = "odd"
    \/ ask.tool = "x_build_contract_call" /\ ask.data = "none"
    \/ ask.data = "function" /\ ~ArgumentsAccepted(Types(ask), Values(ask))
Unbuildable(ask, decimals) ==
    \/ ask.tool \in N3Tools \ {"n3_test_invoke"} /\ ask.from = "garbage"
    \/ ask.tool = "n3_build_transfer" /\ (ask.to = "garbage" \/ ~AmountAccepted(ask.amount, decimals))
    \/ ask.tool = "n3_build_invoke" /\ \E i \in DOMAIN ask.signers : ask.signers[i].account = "garbage"

-----------------------------------------------------------------------------
(* Neo X: what is built.                                                   *)

\* encodeFunctionCall() and normalizeCalldata().
Calldata(ask) ==
    CASE ask.tool = "x_build_transfer" -> [selector |-> FunctionSelector("none", <<>>), rest |-> <<>>]
      [] ask.data = "function" -> [selector |-> FunctionSelector("f", Types(ask)),
                                   rest |-> EncodeAbiParameters(Types(ask), Values(ask))]
      [] ask.data = "given"    -> [selector |-> FunctionSelector("given", <<>>), rest |-> <<>>]
      [] OTHER                 -> [selector |-> FunctionSelector("none", <<>>), rest |-> <<>>]

\* buildEvmCallObject(): the one object for eth_call and eth_estimateGas.
CallObject(ask) == [from |-> ask.from, to |-> ask.to, data |-> Calldata(ask), value |-> ask.value]
ChainId(network) == IF network = "testnet" THEN 12227332 ELSE 47763
Priced == {"eth_call", "eth_estimateGas", "eth_gasPrice"}

\* buildEvmTxProposal() out of simulateEvmCall(); the nonce is the wallet's.
EvmTx(ask, got) ==
    [from |-> ask.from, to |-> ask.to, data |-> Calldata(ask), value |-> ask.value,
     chainId |-> ChainId(Network(ask)), gas |-> got["eth_estimateGas"].gas, gasPrice |-> got["eth_gasPrice"].gas]

-----------------------------------------------------------------------------

NoRun == [state |-> "none", exception |-> FALSE, value |-> "none", network |-> "none", call |-> <<>>]
Idle == [pc |-> "idle", ask |-> <<>>, decimals |-> NoDecimals, run |-> NoRun,
         got |-> <<>>, outcome |-> "none", network |-> "none", proposed |-> <<>>]

Init == services \in (SUBSET Networks) \ {{}} /\ proposal = Idle

End(outcome) == [proposal EXCEPT !.pc = "done", !.outcome = outcome]
Propose(what, network) == [End("proposed") EXCEPT !.proposed = what, !.network = network]

Begin(ask) ==
    /\ (ask.tool \in N3Tools => ServiceFor(ask) \in services \cup {"other"})
    /\ LET asks    == ask.tool = "n3_build_transfer" /\ KnownDecimals(ask) = NoDecimals
           refused == Refused(ask) \/ (~asks /\ Unbuildable(ask, KnownDecimals(ask)))
       IN  proposal' = [Idle EXCEPT !.ask = ask,
                                    !.pc = IF refused THEN "done"
                                           ELSE IF ask.tool \in XTools THEN "simulating"
                                           ELSE IF asks THEN "decimals" ELSE "previewing",
                                    !.decimals = KnownDecimals(ask),
                                    !.outcome = IF refused THEN "error" ELSE "none"]
    /\ UNCHANGED services

\* fetchTokenDecimals(): the contract is asked on the service's network.
DecimalsAnswer ==
    /\ proposal.pc = "decimals"
    /\ \E decimals \in {DecimalsOn[ServiceFor(proposal.ask)], NoDecimals} :
         proposal' = IF decimals # NoDecimals /\ ~Unbuildable(proposal.ask, decimals)
                     THEN [proposal EXCEPT !.pc = "previewing", !.decimals = decimals]
                     ELSE End("error")
    /\ UNCHANGED services

\* attachSimulation() and handleN3TestInvoke(): the built call runs, with its signers.
PreviewAnswers ==
    /\ proposal.pc = "previewing"
    /\ \E state \in {"HALT", "FAULT", "failed"}, exception \in BOOLEAN, value \in {"true", "false", "other"} :
         LET ask == proposal.ask
             built == Built(ask, proposal.decimals)
             run == [state |-> state, exception |-> exception, value |-> value, network |-> ServiceFor(ask),
                     call |-> Sent(ask, built)]
         IN  proposal' = [(IF state = "failed" THEN End("error")
                           ELSE IF ask.tool = "n3_test_invoke" THEN End("told")
                           ELSE IF EndedWell(ask, run) THEN Propose(built, Network(ask))
                           ELSE End("error")) EXCEPT !.run = run]
    /\ UNCHANGED services

With(got, rpc, answer) == [r \in DOMAIN got \cup {rpc} |-> IF r = rpc THEN answer ELSE got[r]]

\* simulateEvmCall(): three requests at once; the price must be known, a call or an
\* estimate that fails is a reason to propose nothing.
EvmAnswers(rpc) ==
    /\ proposal.pc = "simulating" /\ rpc \in Priced \ DOMAIN proposal.got
    /\ \E ok \in BOOLEAN, gas \in 1 .. 2 :
         LET got == With(proposal.got, rpc, [ok |-> ok, gas |-> gas, call |-> CallObject(proposal.ask),
                                             network |-> Network(proposal.ask)])
         IN  proposal' = [(IF rpc = "eth_gasPrice" /\ ~ok THEN End("error")
                           ELSE IF DOMAIN got # Priced THEN proposal
                           ELSE IF proposal.ask.tool = "x_simulate_call" THEN End("told")
                           ELSE IF got["eth_call"].ok /\ got["eth_estimateGas"].ok
                           THEN Propose(EvmTx(proposal.ask, got), Network(proposal.ask))
                           ELSE End("error")) EXCEPT !.got = got]
    /\ UNCHANGED services

Next ==
    \/ proposal.pc = "idle" /\ \E ask \in ProposalAsks : Begin(ask)
    \/ DecimalsAnswer
    \/ PreviewAnswers
    \/ \E rpc \in Priced : EvmAnswers(rpc)

Spec == Init /\ [][Next]_vars

-----------------------------------------------------------------------------
(* Properties.                                                             *)

TypeOK ==
    /\ services \in (SUBSET Networks) \ {{}}
    /\ proposal.pc \in {"idle", "decimals", "previewing", "simulating", "done"} 
    /\ proposal.pc # "idle" => AskForm(proposal.ask)
    /\ proposal.outcome \in {"none", "error", "told", "proposed"} /\ DOMAIN proposal.got \subseteq Priced

\* A label the call did not ask for: it named no network, and only the testnet is there.
Mislabelled(ask) == ask.network = "none" /\ "mainnet" \notin services

\* The decimals of the asset, on the network where the transfer was run.
MeantDecimals(ask) ==
    CASE ask.asset = "NEO" -> 0 [] ask.asset = "GAS" -> GasDecimals
      [] ask.asset \notin {"NEO", "GAS"} /\ ask.decimals # NoDecimals -> ask.decimals
      [] OTHER -> DecimalsOn[proposal.run.network]

N3Sound(ask) ==
    LET what == proposal.proposed
        sent == proposal.run.call
    IN
    /\ [sent EXCEPT !.signers = <<>>] = [what EXCEPT !.signers = <<>>] /\ DOMAIN sent.signers = DOMAIN what.signers
    /\ \A i \in DOMAIN what.signers : sent.signers[i] = [what.signers[i] EXCEPT !.form = "hash"]
    /\ proposal.run.network = proposal.network \/ Mislabelled(ask)
    /\ proposal.run.state = "HALT" /\ ~proposal.run.exception
    /\ (what.operation = "transfer" \/ (what.operation \in {"vote", "register"} /\ ask.tool # "n3_build_invoke"))
          => proposal.run.value = "true"
    /\ IF ask.signers # <<>> THEN what.signers = ask.signers
       ELSE \E i \in DOMAIN what.signers : what.signers[i].account = ask.from
    /\ ask.tool = "n3_build_transfer" => what.amount = Scaled(ask.amount, MeantDecimals(ask))

XSound(ask) ==
    LET what == proposal.proposed IN
    /\ \A rpc \in Priced : proposal.got[rpc].ok /\ proposal.got[rpc].network = proposal.network
    /\ \A rpc \in {"eth_call", "eth_estimateGas"}, key \in {"from", "to", "data", "value"} :
          proposal.got[rpc].call[key] = what[key]
    /\ what.gas = proposal.got["eth_estimateGas"].gas /\ what.gasPrice = proposal.got["eth_gasPrice"].gas
    /\ what.chainId = ChainId(proposal.network)

\* Nothing is proposed to a wallet but what a node has just run, in every part the same:
\* contract, operation, arguments, signers in the node's form, network, and on Neo X the
\* value and the calldata; the run ended well, with true where a contract reports its
\* failures that way; the amount is scaled by the decimals of the asset there; and the
\* gas is that of the estimate.
ProposedWasPreviewed ==
    proposal.outcome = "proposed" =>
        IF proposal.ask.tool \in N3Tools THEN N3Sound(proposal.ask) ELSE XSound(proposal.ask)

\* An amount that is proposed is the asked one in the smallest unit, to the last digit;
\* and the contract decodes the proposed calldata to the asked arguments.
EncodedIsExact ==
    proposal.outcome = "proposed" =>
        LET ask == proposal.ask  what == proposal.proposed IN
        /\ ask.tool = "n3_build_transfer" =>
              what.amount * Power(10, Len(ask.amount.fraction))
                 = NumberOf(10, ask.amount.whole \o ask.amount.fraction) * Power(10, MeantDecimals(ask))
        /\ ask.data = "function" =>
              /\ \A i \in DOMAIN Types(ask) : Decoded(what.data.rest, Types(ask), i) = Values(ask)[i]
              /\ (\A i \in DOMAIN Types(ask) : ~Types(ask)[i].alias) => what.data.selector = Meant("f", Types(ask))
=============================================================================
