-------------------------------- MODULE EvmAbi --------------------------------
(***************************************************************************)
(* The encoder of src/src/utils/evm-abi.ts: arguments of a function to     *)
(* calldata.  A byte has Base values and a word WordBytes bytes; the hash  *)
(* that makes a selector is not modelled, what it is made of is.           *)
(***************************************************************************)
EXTENDS Numerals

CONSTANTS Base, WordBytes, AddressBytes

AbiConstantsOK ==
    /\ Base \in Nat /\ Base > 1
    /\ WordBytes \in Nat \ {0} /\ AddressBytes \in 0 .. WordBytes

\* A type has a size in bytes, uint and bytes without a number of their own among them;
\* alias says that it was written without one.  Numbers are values of numeric types and
\* of bool, sequences of bytes those of the others.
Bytes == 0 .. Base - 1
AbiTypes == [name : {"uint", "int", "bool", "address", "fixedBytes", "bytes", "string"},
             size : Nat, alias : BOOLEAN]
IsNumber(type) == type.name \in {"uint", "int", "bool"}
IsDynamic(type) == type.name \in {"bytes", "string"}

Modulus(size) == Power(Base, size)

\* toBigIntArg(), encodeUint(), encodeInt(), hexArgToBytes(): what is accepted.
InRange(type, number) ==
    CASE type.name = "uint" -> number \in 0 .. Modulus(type.size) - 1
      [] type.name = "int"  -> number \in -(Modulus(type.size) \div 2) .. Modulus(type.size) \div 2 - 1
      [] type.name = "bool" -> number \in 0 .. 1
SizeAccepted(type, bytes) ==
    CASE type.name = "address"    -> Len(bytes) = AddressBytes
      [] type.name = "fixedBytes" -> type.size \in 1 .. WordBytes /\ Len(bytes) = type.size

\* The last WordBytes digits of a number, negative ones in two's complement.
PadLeft(number) ==
    LET unsigned == IF number < 0 THEN number + Modulus(WordBytes) ELSE number
    IN  DigitsOf(Base, unsigned, WordBytes)
Fits(number) == number < Modulus(WordBytes)
PadRight(bytes) ==
    LET remainder == Len(bytes) % WordBytes
    IN  IF remainder = 0 THEN bytes ELSE bytes \o Zeros(WordBytes - remainder)

\* encodeComponent(): a word, or a length and the words of the content.
Component(type, value) ==
    IF IsNumber(type) THEN PadLeft(value)
    ELSE IF IsDynamic(type) THEN PadLeft(Len(value)) \o PadRight(value)
    ELSE IF type.name = "address" THEN Zeros(WordBytes - AddressBytes) \o value
    ELSE PadRight(value)

\* encodeAbiParameters(): a head of words and offsets, and the tail they point into.
TailUpTo(types, values) ==
    Joined([i \in DOMAIN types |-> IF IsDynamic(types[i]) THEN Component(types[i], values[i]) ELSE <<>>])
Offset(types, values, i) == Len(types) * WordBytes + Len(TailUpTo(types, values)[i - 1])
HeadUpTo(types, values) ==
    Joined([i \in DOMAIN types |->
               IF IsDynamic(types[i]) THEN PadLeft(Offset(types, values, i)) ELSE Component(types[i], values[i])])
EncodeAbiParameters(types, values) == HeadUpTo(types, values)[Len(types)] \o TailUpTo(types, values)[Len(types)]

\* What is not refused: padLeft32() refuses a length or an offset that is no word.
ArgumentsAccepted(types, values) ==
    /\ Len(types) = Len(values)
    /\ \A i \in DOMAIN types :
          IF IsNumber(types[i]) THEN types[i].size \in 1 .. WordBytes /\ InRange(types[i], values[i])
          ELSE IF IsDynamic(types[i]) THEN Fits(Len(values[i])) /\ Fits(Offset(types, values, i))
          ELSE SizeAccepted(types[i], values[i])

\* functionSelector(): the name and the types as they were written, without blanks.
FunctionSelector(name, types) == <<name, types>>

-----------------------------------------------------------------------------
(* The contract's view, by the ABI specification.                          *)

WordAt(data, offset) == SubSeq(data, offset + 1, offset + WordBytes)

\* The i-th argument that a function with these types reads; it reverts on a number that
\* its type does not have.
Reverts == Modulus(WordBytes)
Decoded(data, types, i) ==
    LET type   == types[i]
        word   == WordAt(data, WordBytes * (i - 1))
        number == NumberOf(Base, word)
        signed == IF number < Modulus(WordBytes) \div 2 THEN number ELSE number - Modulus(WordBytes)
    IN  CASE type.name = "bool"    -> number
          [] type.name = "uint"    -> IF number < Modulus(type.size) THEN number ELSE Reverts
          [] type.name = "int"     -> IF -Modulus(type.size) <= 2 * signed /\ 2 * signed < Modulus(type.size)
                                      THEN signed ELSE Reverts
          [] type.name = "address" -> SubSeq(word, WordBytes - AddressBytes + 1, WordBytes)
          [] type.name = "fixedBytes" -> SubSeq(word, 1, type.size)
          [] IsDynamic(type)       ->
                SubSeq(data, number + WordBytes + 1, number + WordBytes + NumberOf(Base, WordAt(data, number)))

\* The selector of the function that is meant: its types in full.
Meant(name, types) == <<name, [i \in DOMAIN types |-> [types[i] EXCEPT !.alias = FALSE]]>>
===============================================================================
