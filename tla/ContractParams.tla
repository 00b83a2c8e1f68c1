---------------------------- MODULE ContractParams ----------------------------
(***************************************************************************)
(* formatContractParameters() of src/src/utils/contract-params.ts: from    *)
(* JSON arguments to typed contract parameters.  An argument is a tree     *)
(* whose leaves are classes of strings and numbers; an error anywhere      *)
(* refuses the whole call.                                                 *)
(***************************************************************************)
EXTENDS Integers, SequencesExt

CONSTANTS
    Trees,              \* the lists of arguments of a behaviour
    MaxParameterDepth, MaxParameterNodes

VARIABLES callArguments, callParameters
vars == <<callArguments, callParameters>>

ConstantsOK == MaxParameterDepth \in Nat

\* An argument is inferred, and of the kind of its JavaScript value, or it names its
\* type.  The kids of a map and of an object are its keys and values in turn, the kid of
\* a toJson object is what toJson() returns.
Node(kind, value, kids) == [kind |-> kind, value |-> value, kids |-> kids]

-----------------------------------------------------------------------------
(* Leaves.                                                                 *)

\* Strings that are a hash, the same with a prefix and in capitals, and its address; a
\* key in either case; canonical decimals and others; base64, canonical and not.
HashTexts == {"hash", "0xHASH", "address"}
Decimals  == {"0", "1", "vmMax"}
Keys256   == {"key", "KEY"}
Strings   == HashTexts \cup Decimals \cup Keys256 \cup {"base64", "text", "01", "loose"}
Booleans  == {"true", "false"}
Values    == Strings \cup Booleans \cup {"number 1", "number -0", "fraction", "null", "bytes", ""}

\* validationError(), for a value and for an argument.
Invalid == "invalid"
Refused == Node("refused", Invalid, <<>>)
Leaf(type, value) == IF value = Invalid THEN Refused ELSE Node(type, value, <<>>)

\* Safe numbers, of which -0 is one, and canonical decimals of the VM's range.
NormalizeInteger(value) ==
    CASE value \in Decimals -> value
      [] value = "number 1" -> "1"
      [] value = "number -0" -> "0"
      [] OTHER -> Invalid
NormalizeHash160(value) == IF value \in HashTexts THEN "hash" ELSE Invalid
NormalizeHex(value)     == IF value \in Keys256 THEN "key" ELSE Invalid
Only(values, value)     == IF value \in values THEN value ELSE Invalid

FormatString(value) ==
    IF value \in HashTexts THEN Leaf("Hash160", NormalizeHash160(value)) ELSE Leaf("String", Only(Strings, value))

-----------------------------------------------------------------------------
(* Trees.                                                                  *)

MapKeyTypes == {"Boolean", "ByteArray", "Hash160", "Hash256", "Integer", "PublicKey", "String"}
Kinds ==
    MapKeyTypes \cup {"Any", "Array", "Map", "Struct"}
    \cup {"null", "undefined", "string", "number", "bigint", "boolean", "bytes", "array", "toJson", "object", "instance"}

\* The arguments that are nested no deeper than some levels.
Argument[levels \in 0 .. MaxParameterDepth] ==
    [kind : Kinds, value : Values, kids : Seq(IF levels = 0 THEN {} ELSE Argument[levels - 1])]

\* Every entry of a map has a key and a value; keys are of the key types and differ.
Keys(kids) == [i \in 1 .. Len(kids) \div 2 |-> kids[2 * i - 1]]
KeysAccepted(kids) ==
    /\ Len(kids) % 2 = 0
    /\ \A i \in DOMAIN Keys(kids) : Keys(kids)[i].kind \in MapKeyTypes
    /\ \A i, j \in DOMAIN Keys(kids) : Keys(kids)[i] = Keys(kids)[j] => i = j

\* formatContractParameter() and formatTypedParameter(), once the kids are formatted.
FormatNode(kind, value, kids) ==
    LET whole == \A i \in DOMAIN kids : kids[i] # Refused
    IN  CASE kind = "null"        -> Leaf("Any", "null")
          [] kind = "Any"         -> Leaf("Any", Only({"null"}, value))
          [] kind = "string"      -> FormatString(value)
          [] kind = "String"      -> Leaf("String", Only(Strings, value))
          [] kind \in {"number", "bigint", "Integer"} -> Leaf("Integer", NormalizeInteger(value))
          [] kind \in {"boolean", "Boolean"}          -> Leaf("Boolean", Only(Booleans, value))
          [] kind = "bytes"       -> Leaf("ByteArray", "base64")
          [] kind = "ByteArray"   -> Leaf("ByteArray", Only({"base64"}, value))
          [] kind = "Hash160"     -> Leaf("Hash160", NormalizeHash160(value))
          [] kind \in {"Hash256", "PublicKey"}        -> Leaf(kind, NormalizeHex(value))
          [] kind \in {"array", "Array"} /\ whole     -> Node("Array", "", kids)
          [] kind \in {"object", "Map"} /\ whole /\ KeysAccepted(kids) -> Node("Map", "", kids)
          [] kind = "toJson" /\ Len(kids) = 1         -> kids[1]
          [] OTHER -> Refused

\* The kids of a node are formatted in turn, with one level less to go; but the keys of
\* an object are strings, whatever they look like.
FormatContractParameter[levels \in 0 .. MaxParameterDepth] ==
    [node \in Argument[levels] |->
        FormatNode(node.kind, node.value,
            [i \in DOMAIN node.kids |->
                IF node.kind = "object" /\ i % 2 = 1 THEN Leaf("String", Only(Strings, node.kids[i].value))
                ELSE FormatContractParameter[levels - 1][node.kids[i]]])]

\* How many values formatContractParameter() meets.
Nodes[levels \in 0 .. MaxParameterDepth] ==
    [node \in Argument[levels] |->
        LET formed == IF node.kind = "object" THEN [i \in 1 .. Len(node.kids) \div 2 |-> node.kids[2 * i]]
                      ELSE node.kids
        IN  1 + FoldLeft(LAMBDA n, kid : n + Nodes[levels - 1][kid], 0, formed)]

-----------------------------------------------------------------------------

\* formatContractParameters(): one budget of nodes for all arguments of a call.
Unformatted == [accepted |-> FALSE, values |-> <<>>]
FormatContractParameters(list) ==
    LET Formatted(node) == FormatContractParameter[MaxParameterDepth][node]
    IN  IF /\ \A i \in DOMAIN list : list[i] \in Argument[MaxParameterDepth] /\ Formatted(list[i]) # Refused
           /\ FoldLeft(LAMBDA n, node : n + Nodes[MaxParameterDepth][node], 0, list) <= MaxParameterNodes
        THEN [accepted |-> TRUE, values |-> [i \in DOMAIN list |-> Formatted(list[i])]]
        ELSE Unformatted

Init == callArguments \in Trees /\ callParameters = Unformatted
Format ==
    /\ callParameters = Unformatted
    /\ callParameters' = FormatContractParameters(callArguments)
    /\ UNCHANGED callArguments

Spec == Init /\ [][Format]_vars

-----------------------------------------------------------------------------
(* Properties.                                                             *)

\* The parameters of the interface FormattedContractParameter: all of them typed, their
\* leaves in the one form that the node knows, no two keys of a map the same.
CanonicalLeaves ==
    UNION {[kind : {"Any"}, value : {"null"}, kids : {<<>>}], [kind : {"Integer"}, value : Decimals, kids : {<<>>}],
           [kind : {"Hash160"}, value : {"hash"}, kids : {<<>>}], [kind : {"String"}, value : Strings, kids : {<<>>}],
           [kind : {"Hash256", "PublicKey"}, value : {"key"}, kids : {<<>>}],
           [kind : {"Boolean"}, value : Booleans, kids : {<<>>}],
           [kind : {"ByteArray"}, value : {"base64"}, kids : {<<>>}]}
FormattedContractParameter[levels \in 0 .. MaxParameterDepth] ==
    LET within == Seq(IF levels = 0 THEN {} ELSE FormattedContractParameter[levels - 1])
    IN  CanonicalLeaves \cup [kind : {"Array"}, value : {""}, kids : within]
            \cup [kind : {"Map"}, value : {""}, kids : {kids \in within : KeysAccepted(kids)}]

\* Whatever was accepted is typed throughout and within the limits of nesting, no two
\* keys of a map mean the same, and it stays as it is when it is formatted once more, as
\* arguments taken from a proposal are.
FormattedIsCanonical ==
    callParameters.accepted =>
        \A i \in DOMAIN callParameters.values :
            LET root == callParameters.values[i] IN
            /\ root \in FormattedContractParameter[MaxParameterDepth]
            /\ FormatContractParameter[MaxParameterDepth][root] = root
===============================================================================
