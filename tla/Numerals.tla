------------------------------- MODULE Numerals -------------------------------
(***************************************************************************)
(* Numbers and their digits in some base: what BigInt() makes of digits,   *)
(* and the powers 10n ** n that the sources take for scales; and lists of  *)
(* digits one behind the other.                                            *)
(***************************************************************************)
EXTENDS Integers, Sequences

\* What a number becomes when digits are written behind it.
Prefixes(base, start, digits) ==
    LET prefix[i \in 0 .. Len(digits)] == IF i = 0 THEN start ELSE base * prefix[i - 1] + digits[i] IN prefix
Behind(base, start, digits) == Prefixes(base, start, digits)[Len(digits)]

Zeros(n) == [i \in 1 .. n |-> 0]
NumberOf(base, digits) == Behind(base, 0, digits)
Power(base, n) == Behind(base, 1, Zeros(n))

\* The last size digits of a number.
DigitsOf(base, number, size) == [i \in 1 .. size |-> (number \div Power(base, size - i)) % base]

\* For every n, the first n of some pieces in one.
Joined(pieces) ==
    LET joined[i \in 0 .. Len(pieces)] == IF i = 0 THEN <<>> ELSE joined[i - 1] \o pieces[i] IN joined
=============================================================================
