--------------------------- MODULE NumbersAndLists ---------------------------
(***************************************************************************)
(* Lemmas that the proofs about the modules share: induction and recursion *)
(* over the naturals; numbers and their digits (Numerals); and the lists   *)
(* of endpoints that RpcFailover and EvmRpcClient make of a configured     *)
(* one.                                                                    *)
(***************************************************************************)
EXTENDS Numerals, FiniteSetTheorems, WellFoundedInduction, SequenceTheorems, TLAPS

-----------------------------------------------------------------------------
(* The naturals.                                                           *)

\* Less than on the naturals as a set of pairs, which has a least element everywhere.
Less == {pair \in Nat \X Nat : pair[1] < pair[2]}

LEMMA LeastElement ==
    ASSUME NEW T \in SUBSET Nat, T # {}
    PROVE  \E m \in T : \A n \in T : m <= n
  <1>1. OpToRel(<, Nat) = Less
    BY DEF OpToRel, Less
  <1>2. IsWellFoundedOn(OpToRel(<, Nat), Nat)
    BY NatLessThanWellFounded
  <1>3. IsWellFoundedOn(Less, Nat)
    BY <1>1, <1>2
  <1>4. PICK m \in T : \A n \in T : ~(<<n, m>> \in Less)
    BY <1>3, WFMin
  <1>5. ASSUME NEW n \in T
        PROVE  m <= n
    <2>1. m \in Nat /\ n \in Nat /\ <<n, m>> \in Nat \X Nat
      OBVIOUS
    <2>2. <<n, m>>[1] = n /\ <<n, m>>[2] = m
      OBVIOUS
    <2>3. ~(n < m)
      BY <1>4, <2>1, <2>2 DEF Less
    <2> QED
      BY <2>1, <2>3
  <1> QED
    BY <1>5

\* Induction, for a set in place of a predicate.
LEMMA Induction ==
    ASSUME NEW T, 0 \in T, \A n \in Nat : n \in T => n + 1 \in T
    PROVE  \A n \in Nat : n \in T
  <1> DEFINE rest == {n \in Nat : n \notin T}
  <1>1. SUFFICES ASSUME rest # {}
                 PROVE  FALSE
    OBVIOUS
  <1>2. PICK m \in rest : \A n \in rest : m <= n
    BY <1>1, LeastElement
  <1>3. m \in Nat /\ m # 0 /\ m \notin T
    OBVIOUS
  <1>4. m - 1 \in Nat /\ ~(m <= m - 1) /\ (m - 1) + 1 = m
    BY <1>3
  <1>5. m - 1 \in T
    BY <1>2, <1>4
  <1> QED
    BY <1>3, <1>4, <1>5


\* A function on 0 .. n is built up from a start by a step.
RecursBy(f, n, start, step) == f = [i \in 0 .. n |-> IF i = 0 THEN start ELSE step[i][f[i - 1]]]
Closed(V, n, step) == \A i \in 1 .. n, v \in V : step[i][v] \in V

LEMMA Recursion ==
    ASSUME NEW V, NEW start \in V, NEW n \in Nat, NEW step, Closed(V, n, step)
    PROVE  \E f : RecursBy(f, n, start, step) /\ \A i \in 0 .. n : f[i] \in V
  <1> DEFINE Built(f, k) == /\ f = [i \in 0 .. k |-> IF i = 0 THEN start ELSE step[i][f[i - 1]]]
                            /\ \A i \in 0 .. k : f[i] \in V
             T == {k \in Nat : k <= n => \E f : Built(f, k)}
  <1>1. 0 \in T
    <2>1. Built([i \in 0 .. 0 |-> start], 0)
      OBVIOUS
    <2> QED
      BY <2>1
  <1>2. ASSUME NEW k \in Nat, k \in T
        PROVE  k + 1 \in T
    <2>1. SUFFICES ASSUME k + 1 <= n
                   PROVE  \E f : Built(f, k + 1)
      OBVIOUS
    <2>2. PICK f : Built(f, k)
      BY <1>2, <2>1
    <2> DEFINE g == [i \in 0 .. k + 1 |-> IF i = k + 1 THEN step[k + 1][f[k]] ELSE f[i]]
    <2>3. f[k] \in V /\ step[k + 1][f[k]] \in V
      BY <2>1, <2>2 DEF Closed
    <2>4. \A i \in 0 .. k + 1 : g[i] \in V
      BY <2>2, <2>3
    <2>5. ASSUME NEW i \in 0 .. k + 1
          PROVE  g[i] = IF i = 0 THEN start ELSE step[i][g[i - 1]]
      <3>1. CASE i = 0
        BY <2>2, <3>1
      <3>2. CASE i = k + 1
        <4>1. g[i] = step[k + 1][f[k]] /\ g[i - 1] = f[k]
          BY <3>2
        <4> QED
          BY <3>2, <4>1
      <3>3. CASE i # 0 /\ i # k + 1
        <4>1. i \in 0 .. k /\ i - 1 \in 0 .. k + 1 /\ i - 1 # k + 1
          BY <3>3
        <4>2. g[i] = f[i] /\ g[i - 1] = f[i - 1]
          BY <4>1
        <4>3. f[i] = step[i][f[i - 1]]
          BY <2>2, <3>3, <4>1
        <4> QED
          BY <3>3, <4>2, <4>3
      <3> QED
        BY <3>1, <3>2, <3>3
    <2>6. g = [i \in 0 .. k + 1 |-> g[i]]
      OBVIOUS
    <2> HIDE DEF g
    <2>7. g = [i \in 0 .. k + 1 |-> IF i = 0 THEN start ELSE step[i][g[i - 1]]]
      BY <2>5, <2>6
    <2> QED
      BY <2>4, <2>7
  <1> HIDE DEF T
  <1>3. n \in T
    BY <1>1, <1>2, Induction
  <1> QED
    BY <1>3 DEF T, RecursBy

-----------------------------------------------------------------------------
(* Numbers and their digits.                                               *)

LEMMA PrefixesSteps ==
    ASSUME NEW base \in Nat, NEW start \in Nat, NEW digits \in Seq(Nat)
    PROVE  LET prefix == Prefixes(base, start, digits)
           IN  /\ prefix[0] = start
               /\ \A i \in Nat : i < Len(digits) => prefix[i + 1] = base * prefix[i] + digits[i + 1]
               /\ \A i \in Nat : i <= Len(digits) => prefix[i] \in Nat
  <1> DEFINE n == Len(digits)
             step == [i \in 1 .. n |-> [v \in Nat |-> base * v + digits[i]]]
             P == Prefixes(base, start, digits)
  <1>1. n \in Nat /\ \A i \in 1 .. n : digits[i] \in Nat
    OBVIOUS
  <1> HIDE DEF n
  <1>2. \A i \in 1 .. n, v \in Nat : step[i][v] = base * v + digits[i] /\ step[i][v] \in Nat
    BY <1>1
  <1> HIDE DEF step
  <1>3. PICK f : RecursBy(f, n, start, step) /\ \A i \in 0 .. n : f[i] \in Nat
    <2>1. Closed(Nat, n, step)
      BY <1>2 DEF Closed
    <2> QED
      BY <1>1, <2>1, Recursion
  <1>f. f = [i \in 0 .. n |-> IF i = 0 THEN start ELSE base * f[i - 1] + digits[i]]
    <2>1. \A i \in 0 .. n : i # 0 => i \in 1 .. n /\ i - 1 \in 0 .. n
      BY <1>1
    <2>2. \A i \in 0 .. n : (IF i = 0 THEN start ELSE step[i][f[i - 1]])
                               = IF i = 0 THEN start ELSE base * f[i - 1] + digits[i]
      BY <1>2, <1>3, <2>1 DEF RecursBy
    <2> QED
      BY <1>3, <2>2 DEF RecursBy
  <1>4. P = [i \in 0 .. n |-> IF i = 0 THEN start ELSE base * P[i - 1] + digits[i]]
    BY <1>f DEF Prefixes, n
  <1> HIDE DEF P
  <1>5. P[0] = start /\ \A i \in Nat : i < n => P[i + 1] = base * P[i] + digits[i + 1]
    <2>1. \A i \in Nat : i < n => i + 1 \in 0 .. n /\ i + 1 # 0 /\ (i + 1) - 1 = i
      BY <1>1
    <2> QED
      BY <1>1, <1>4, <2>1
  <1>6. \A i \in 0 .. n : P[i] \in Nat
    <2> DEFINE T == {i \in Nat : i <= n => P[i] \in Nat}
    <2>1. 0 \in T
      BY <1>5
    <2>2. ASSUME NEW i \in Nat, i \in T
          PROVE  i + 1 \in T
      <3>1. SUFFICES ASSUME i + 1 <= n
                     PROVE  P[i + 1] \in Nat
        OBVIOUS
      <3>2. digits[i + 1] \in Nat /\ P[i] \in Nat
        <4>1. i + 1 \in 1 .. n /\ i <= n
          BY <1>1, <3>1
        <4> QED
          BY <1>1, <2>2, <4>1
      <3>3. P[i + 1] = base * P[i] + digits[i + 1] /\ base * P[i] \in Nat
        BY <1>1, <1>5, <3>1, <3>2
      <3> QED
        BY <3>2, <3>3
    <2> HIDE DEF T
    <2>3. \A i \in Nat : i \in T
      BY <2>1, <2>2, Induction
    <2> QED
      BY <2>3 DEF T
  <1> QED
    BY <1>1, <1>5, <1>6 DEF P, n

\* The digits of a base, and what comes of them, are natural numbers.
LEMMA PrefixesTyped ==
    ASSUME NEW base \in Nat, NEW start \in Nat, NEW digits \in Seq(Nat)
    PROVE  Behind(base, start, digits) \in Nat
           /\ \A i \in Nat : i <= Len(digits) => Prefixes(base, start, digits)[i] \in Nat
  BY PrefixesSteps DEF Behind

LEMMA DivMod ==
    ASSUME NEW v \in Nat, NEW m \in Nat \ {0}
    PROVE  v \div m \in Nat /\ v % m \in 0 .. m - 1 /\ v = m * (v \div m) + (v % m)
  OBVIOUS
LEMMA MonotoneTimes ==
    ASSUME NEW a \in Int, NEW b \in Int, NEW c \in Nat, a <= b
    PROVE  c * a <= c * b
  OBVIOUS
LEMMA DivUnique ==
    ASSUME NEW v \in Int, NEW m \in Nat \ {0}, NEW p \in Int, NEW t \in 0 .. m - 1, v = m * p + t
    PROVE  v \div m = p /\ v % m = t
  OBVIOUS
LEMMA DivDiv ==
    ASSUME NEW v \in Nat, NEW b \in Nat \ {0}, NEW m \in Nat \ {0}
    PROVE  v \div (b * m) = (v \div m) \div b
  <1> DEFINE q == v \div m
             r == v % m
             p == q \div b
             s == q % b
  <1>1. q \in Nat /\ r \in 0 .. m - 1 /\ v = m * q + r
    BY DivMod
  <1>2. p \in Nat /\ s \in 0 .. b - 1 /\ q = b * p + s
    BY <1>1, DivMod
  <1> HIDE DEF q, r, p, s
  <1>3. b * m \in Nat \ {0} /\ m * s + r \in 0 .. b * m - 1
    <2>1. m * s <= m * (b - 1) /\ m * s >= 0
      BY <1>2, MonotoneTimes
    <2>2. m * (b - 1) = b * m - m /\ b * m > 0 /\ b * m \in Int /\ m * s \in Int
      BY <1>2
    <2> QED
      BY <1>1, <2>1, <2>2
  <1>4. v = (b * m) * p + (m * s + r)
    <2>1. m * q = m * (b * p) + m * s
      BY <1>2
    <2>2. m * (b * p) = (b * m) * p
      BY <1>2
    <2> QED
      BY <1>1, <1>2, <2>1, <2>2
  <1>5. v \div (b * m) = p
    BY <1>2, <1>3, <1>4, DivUnique
  <1> QED
    BY <1>5 DEF p, q

\* Digits that are the same up to a place lead to the same prefixes.
LEMMA PrefixesAgree ==
    ASSUME NEW base \in Nat, NEW start \in Nat, NEW d \in Seq(Nat), NEW e \in Seq(Nat),
           NEW n \in Nat, n <= Len(d), n <= Len(e), \A i \in 1 .. n : d[i] = e[i]
    PROVE  Prefixes(base, start, d)[n] = Prefixes(base, start, e)[n]
  <1> DEFINE P == Prefixes(base, start, d)
             Q == Prefixes(base, start, e)
             T == {i \in Nat : i <= n => P[i] = Q[i]}
  <1>1. P[0] = start /\ \A i \in Nat : i < Len(d) => P[i + 1] = base * P[i] + d[i + 1]
    BY PrefixesSteps
  <1>2. Q[0] = start /\ \A i \in Nat : i < Len(e) => Q[i + 1] = base * Q[i] + e[i + 1]
    BY PrefixesSteps
  <1> HIDE DEF P, Q
  <1>3. 0 \in T
    BY <1>1, <1>2
  <1>4. ASSUME NEW i \in Nat, i \in T
        PROVE  i + 1 \in T
    <2>1. i + 1 <= n => d[i + 1] = e[i + 1] /\ P[i] = Q[i] /\ i < Len(d) /\ i < Len(e)
      BY <1>4
    <2> QED
      BY <1>1, <1>2, <2>1
  <1> HIDE DEF T
  <1>5. \A i \in Nat : i \in T
    BY <1>3, <1>4, Induction
  <1> QED
    BY <1>5 DEF T, P, Q

LEMMA ZerosAre ==
    ASSUME NEW n \in Nat
    PROVE  Zeros(n) \in Seq(Nat) /\ Len(Zeros(n)) = n /\ \A i \in 1 .. n : Zeros(n)[i] = 0
  BY DEF Zeros

LEMMA PowerSteps ==
    ASSUME NEW base \in Nat \ {0}
    PROVE  /\ Power(base, 0) = 1
           /\ \A n \in Nat : Power(base, n + 1) = base * Power(base, n) /\ Power(base, n) \in Nat \ {0}
  <1>1. Power(base, 0) = 1
    <2>1. Prefixes(base, 1, Zeros(0))[0] = 1
      BY ZerosAre, PrefixesSteps
    <2> QED
      BY <2>1, ZerosAre DEF Power, Behind
  <1>2. ASSUME NEW n \in Nat
        PROVE  Power(base, n + 1) = base * Power(base, n) + 0
    <2> DEFINE P == Prefixes(base, 1, Zeros(n + 1))
    <2>1. P[n + 1] = base * P[n] + Zeros(n + 1)[n + 1]
      BY ZerosAre, PrefixesSteps
    <2>2. Zeros(n + 1)[n + 1] = 0 /\ \A i \in 1 .. n : Zeros(n + 1)[i] = Zeros(n)[i]
      BY DEF Zeros
    <2>3. P[n] = Prefixes(base, 1, Zeros(n))[n]
      <3> DEFINE d == Zeros(n + 1)
                 e == Zeros(n)
      <3>1. d \in Seq(Nat) /\ e \in Seq(Nat) /\ n <= Len(d) /\ n <= Len(e) /\ \A i \in 1 .. n : d[i] = e[i]
        BY <2>2, ZerosAre
      <3> HIDE DEF d, e
      <3>2. Prefixes(base, 1, d)[n] = Prefixes(base, 1, e)[n]
        BY <3>1, PrefixesAgree
      <3> QED
        BY <3>2 DEF d, e
    <2> HIDE DEF P
    <2>4. Power(base, n + 1) = P[n + 1] /\ Power(base, n) = Prefixes(base, 1, Zeros(n))[n]
      BY ZerosAre DEF Power, Behind, P
    <2> QED
      BY <2>1, <2>2, <2>3, <2>4
  <1>3. \A n \in Nat : Power(base, n) \in Nat \ {0}
    <2> DEFINE T == {n \in Nat : Power(base, n) \in Nat \ {0}}
    <2>1. 0 \in T
      BY <1>1
    <2>2. \A n \in Nat : n \in T => n + 1 \in T
      BY <1>2
    <2> HIDE DEF T
    <2>3. \A n \in Nat : n \in T
      BY <2>1, <2>2, Induction
    <2> QED
      BY <2>3 DEF T
  <1> QED
    BY <1>1, <1>2, <1>3

LEMMA PowerAdds ==
    ASSUME NEW base \in Nat \ {0}, NEW m \in Nat, NEW n \in Nat
    PROVE  Power(base, m + n) = Power(base, m) * Power(base, n)
  <1> DEFINE T == {i \in Nat : Power(base, m + i) = Power(base, m) * Power(base, i)}
  <1>1. 0 \in T
    BY PowerSteps
  <1>2. ASSUME NEW i \in Nat, i \in T
        PROVE  i + 1 \in T
    <2> DEFINE p == Power(base, m)
               q == Power(base, i)
    <2>1. Power(base, m + i) = p * q /\ p \in Nat /\ q \in Nat
      BY <1>2, PowerSteps
    <2>2. Power(base, i + 1) = base * q /\ Power(base, m + (i + 1)) = base * (p * q)
      <3>1. m + (i + 1) = (m + i) + 1 /\ m + i \in Nat
        OBVIOUS
      <3> QED
        BY <2>1, <3>1, PowerSteps
    <2> HIDE DEF p, q
    <2>3. base * (p * q) = p * (base * q)
      BY <2>1
    <2> QED
      BY <2>2, <2>3 DEF p
  <1> HIDE DEF T
  <1>3. n \in T
    BY <1>1, <1>2, Induction
  <1> QED
    BY <1>3 DEF T

\* A start counts as much as the power of the digits behind it.
LEMMA PrefixesLinear ==
    ASSUME NEW base \in Nat \ {0}, NEW start \in Nat, NEW digits \in Seq(Nat)
    PROVE  Behind(base, start, digits) = start * Power(base, Len(digits)) + NumberOf(base, digits)
  <1> DEFINE P == Prefixes(base, start, digits)
             Q == Prefixes(base, 0, digits)
             T == {i \in Nat : i <= Len(digits) => P[i] = start * Power(base, i) + Q[i]}
  <1>1. P[0] = start /\ \A i \in Nat : i < Len(digits) => P[i + 1] = base * P[i] + digits[i + 1]
    BY PrefixesSteps
  <1>2. Q[0] = 0 /\ \A i \in Nat : i < Len(digits) => Q[i + 1] = base * Q[i] + digits[i + 1]
    BY PrefixesSteps
  <1>3. \A i \in Nat : i <= Len(digits) => P[i] \in Nat /\ Q[i] \in Nat
    BY PrefixesSteps
  <1> HIDE DEF P, Q
  <1>4. 0 \in T
    <2>1. P[0] = start * Power(base, 0) + Q[0]
      BY <1>1, <1>2, PowerSteps
    <2> QED
      BY <2>1
  <1>5. ASSUME NEW i \in Nat, i \in T
        PROVE  i + 1 \in T
    <2>1. SUFFICES ASSUME i + 1 <= Len(digits)
                   PROVE  P[i + 1] = start * Power(base, i + 1) + Q[i + 1]
      OBVIOUS
    <2> DEFINE p == Power(base, i)
    <2>2. p \in Nat /\ Power(base, i + 1) = base * p
      BY PowerSteps
    <2>3. digits[i + 1] \in Nat /\ Q[i] \in Nat /\ P[i] = start * p + Q[i]
      BY <1>3, <1>5, <2>1
    <2> HIDE DEF p
    <2>4. base * (start * p + Q[i]) = start * (base * p) + base * Q[i]
      BY <2>2, <2>3
    <2>5. start * (base * p) \in Nat /\ base * Q[i] \in Nat
      BY <2>2, <2>3
    <2>6. P[i + 1] = base * P[i] + digits[i + 1] /\ Q[i + 1] = base * Q[i] + digits[i + 1]
      BY <1>1, <1>2, <2>1
    <2> QED
      BY <2>2, <2>3, <2>4, <2>5, <2>6
  <1> HIDE DEF T
  <1>6. Len(digits) \in T
    BY <1>4, <1>5, Induction
  <1> QED
    BY <1>6 DEF T, P, Q, Behind, NumberOf

LEMMA PrefixesJoin ==
    ASSUME NEW base \in Nat \ {0}, NEW start \in Nat, NEW d \in Seq(Nat), NEW e \in Seq(Nat)
    PROVE  Behind(base, start, d \o e) = Behind(base, Behind(base, start, d), e)
  <1> DEFINE c == d \o e
             P == Prefixes(base, start, c)
             middle == Behind(base, start, d)
             Q == Prefixes(base, middle, e)
             T == {i \in Nat : i <= Len(e) => P[Len(d) + i] = Q[i]}
  <1>1. /\ c \in Seq(Nat) /\ Len(c) = Len(d) + Len(e) /\ Len(d) \in Nat /\ Len(e) \in Nat
        /\ \A i \in 1 .. Len(d) : c[i] = d[i]
        /\ \A i \in 1 .. Len(e) : c[Len(d) + i] = e[i]
    OBVIOUS
  <1> HIDE DEF c
  <1>middle. middle \in Nat
    BY PrefixesTyped
  <1>2. \A i \in Nat : i < Len(c) => P[i + 1] = base * P[i] + c[i + 1]
    <2>1. c \in Seq(Nat)
      BY <1>1
    <2> QED
      BY <2>1, PrefixesSteps
  <1> HIDE DEF middle
  <1>3. Q[0] = middle /\ \A i \in Nat : i < Len(e) => Q[i + 1] = base * Q[i] + e[i + 1]
    BY <1>middle, PrefixesSteps
  <1>4. P[Len(d)] = middle
    <2> DEFINE n == Len(d)
    <2>1. c \in Seq(Nat) /\ n \in Nat /\ n <= Len(c) /\ n <= Len(d) /\ \A i \in 1 .. n : c[i] = d[i]
      BY <1>1
    <2> HIDE DEF n
    <2>2. Prefixes(base, start, c)[n] = Prefixes(base, start, d)[n]
      BY <2>1, PrefixesAgree
    <2> QED
      BY <2>2 DEF Behind, n, middle
  <1> HIDE DEF P, Q
  <1>5. 0 \in T
    <2>1. P[Len(d) + 0] = Q[0]
      BY <1>1, <1>3, <1>4
    <2> QED
      BY <2>1
  <1>6. ASSUME NEW i \in Nat, i \in T
        PROVE  i + 1 \in T
    <2>1. SUFFICES ASSUME i + 1 <= Len(e)
                   PROVE  P[Len(d) + (i + 1)] = Q[i + 1]
      OBVIOUS
    <2>2. c[Len(d) + (i + 1)] = e[i + 1] /\ P[Len(d) + i] = Q[i]
      BY <1>1, <1>6, <2>1
    <2>3. Len(d) + (i + 1) = (Len(d) + i) + 1 /\ Len(d) + i \in Nat /\ Len(d) + i < Len(c) /\ i < Len(e)
      BY <1>1, <2>1
    <2>4. P[(Len(d) + i) + 1] = base * P[Len(d) + i] + c[(Len(d) + i) + 1]
      BY <1>2, <2>3
    <2>5. Q[i + 1] = base * Q[i] + e[i + 1]
      BY <1>3, <2>3
    <2> QED
      BY <2>2, <2>3, <2>4, <2>5
  <1> HIDE DEF T
  <1>7. Len(e) \in T
    BY <1>1, <1>5, <1>6, Induction
  <1> QED
    BY <1>1, <1>7 DEF T, P, Q, middle, Behind, c

\* Digits behind digits.
LEMMA NumberJoins ==
    ASSUME NEW base \in Nat \ {0}, NEW d \in Seq(Nat), NEW e \in Seq(Nat)
    PROVE  NumberOf(base, d \o e) = NumberOf(base, d) * Power(base, Len(e)) + NumberOf(base, e)
  <1>1. NumberOf(base, d \o e) = Behind(base, NumberOf(base, d), e)
    BY PrefixesJoin DEF NumberOf
  <1>2. NumberOf(base, d) \in Nat
    BY PrefixesTyped DEF NumberOf
  <1> QED
    BY <1>1, <1>2, PrefixesLinear

LEMMA NumberTyped ==
    ASSUME NEW base \in Nat \ {0}, NEW d \in Seq(Nat)
    PROVE  NumberOf(base, d) \in Nat
  BY PrefixesSteps DEF NumberOf, Behind

LEMMA ZerosAreNought ==
    ASSUME NEW base \in Nat \ {0}, NEW n \in Nat
    PROVE  NumberOf(base, Zeros(n)) = 0
  <1> DEFINE P == Prefixes(base, 0, Zeros(n))
             T == {i \in Nat : i <= n => P[i] = 0}
  <1>1. P[0] = 0 /\ \A i \in Nat : i < n => P[i + 1] = base * P[i] + Zeros(n)[i + 1]
    BY ZerosAre, PrefixesSteps
  <1> HIDE DEF P
  <1>2. 0 \in T /\ \A i \in Nat : i \in T => i + 1 \in T
    <2>1. \A i \in Nat : i + 1 <= n => Zeros(n)[i + 1] = 0
      BY ZerosAre
    <2>2. base * 0 + 0 = 0
      OBVIOUS
    <2> QED
      BY <1>1, <2>1, <2>2
  <1> HIDE DEF T
  <1>3. n \in T
    BY <1>2, Induction
  <1> QED
    BY <1>3, ZerosAre DEF T, P, NumberOf, Behind

\* Zeros behind digits scale.
LEMMA ZerosScale ==
    ASSUME NEW base \in Nat \ {0}, NEW d \in Seq(Nat), NEW n \in Nat
    PROVE  NumberOf(base, d \o Zeros(n)) = NumberOf(base, d) * Power(base, n)
  <1>1. NumberOf(base, d) \in Nat /\ Power(base, n) \in Nat
    BY NumberTyped, PowerSteps
  <1>2. NumberOf(base, d) * Power(base, n) \in Nat
    BY <1>1
  <1> QED
    BY <1>2, ZerosAre, ZerosAreNought, NumberJoins

LEMMA DigitsAre ==
    ASSUME NEW base \in Nat \ {0}, NEW v \in Nat, NEW size \in Nat
    PROVE  /\ DigitsOf(base, v, size) \in Seq(0 .. base - 1) /\ DigitsOf(base, v, size) \in Seq(Nat)
           /\ Len(DigitsOf(base, v, size)) = size
           /\ \A i \in 1 .. size : DigitsOf(base, v, size)[i] = (v \div Power(base, size - i)) % base
  <1>1. ASSUME NEW i \in 1 .. size
        PROVE  (v \div Power(base, size - i)) % base \in 0 .. base - 1
    <2>1. Power(base, size - i) \in Nat \ {0}
      BY PowerSteps
    <2> QED
      BY <2>1, DivMod
  <1> QED
    BY <1>1 DEF DigitsOf

\* A number that fits is the number of its digits.
LEMMA DigitsExact ==
    ASSUME NEW base \in Nat \ {0}, NEW v \in Nat, NEW size \in Nat, v < Power(base, size)
    PROVE  NumberOf(base, DigitsOf(base, v, size)) = v
  <1> DEFINE digits == DigitsOf(base, v, size)
             P == Prefixes(base, 0, digits)
             T == {i \in Nat : i <= size => P[i] = v \div Power(base, size - i)}
  <1>2. /\ Len(digits) = size /\ digits \in Seq(Nat)
        /\ \A i \in 1 .. size : digits[i] = (v \div Power(base, size - i)) % base
    BY DigitsAre
  <1>1. P[0] = 0 /\ \A i \in Nat : i < Len(digits) => P[i + 1] = base * P[i] + digits[i + 1]
    <2> HIDE DEF digits
    <2>1. digits \in Seq(Nat)
      BY <1>2
    <2> QED
      BY <2>1, PrefixesSteps
  <1> HIDE DEF P, digits
  <1>3. 0 \in T
    <2>1. Power(base, size) \in Nat \ {0} /\ size - 0 = size
      BY PowerSteps
    <2>2. v \div Power(base, size) = 0
      BY <2>1, DivUnique
    <2> QED
      BY <1>1, <2>1, <2>2
  <1>4. ASSUME NEW i \in Nat, i \in T
        PROVE  i + 1 \in T
    <2>1. SUFFICES ASSUME i + 1 <= size
                   PROVE  P[i + 1] = v \div Power(base, size - (i + 1))
      OBVIOUS
    <2> DEFINE m == Power(base, size - (i + 1))
               q == v \div m
    <2>2. size - (i + 1) \in Nat /\ (size - (i + 1)) + 1 = size - i
      BY <2>1
    <2>3. m \in Nat \ {0} /\ Power(base, size - i) = base * m
      BY <2>2, PowerSteps
    <2>4. digits[i + 1] = q % base
      BY <1>2, <2>1
    <2>5. P[i] = v \div Power(base, size - i)
      BY <1>4, <2>1
    <2> HIDE DEF m
    <2>6. P[i] = q \div base
      BY <2>3, <2>5, DivDiv
    <2>7. q \in Nat /\ q = base * (q \div base) + (q % base)
      BY <2>3, DivMod
    <2> HIDE DEF q
    <2>8. P[i + 1] = q
      <3>1. P[i + 1] = base * P[i] + digits[i + 1]
        BY <1>1, <1>2, <2>1
      <3> QED
        BY <2>4, <2>6, <2>7, <3>1
    <2> QED
      BY <2>8 DEF q, m
  <1> HIDE DEF T
  <1>5. size \in T
    BY <1>3, <1>4, Induction
  <1>6. P[size] = v \div Power(base, size - size)
    BY <1>5 DEF T
  <1>7. Power(base, size - size) = 1 /\ v \div 1 = v
    BY PowerSteps
  <1> QED
    BY <1>2, <1>6, <1>7 DEF P, digits, NumberOf, Behind

\* Digits of the base stay below the power of their number.
LEMMA NumberBounded ==
    ASSUME NEW base \in Nat \ {0}, NEW digits \in Seq(0 .. base - 1)
    PROVE  NumberOf(base, digits) \in 0 .. Power(base, Len(digits)) - 1
  <1> DEFINE P == Prefixes(base, 0, digits)
             T == {i \in Nat : i <= Len(digits) => P[i] \in Nat /\ P[i] < Power(base, i)}
  <1>digits. digits \in Seq(Nat)
    OBVIOUS
  <1>1. P[0] = 0 /\ \A i \in Nat : i < Len(digits) => P[i + 1] = base * P[i] + digits[i + 1]
    BY <1>digits, PrefixesSteps
  <1> HIDE DEF P
  <1>2. 0 \in T
    <2>1. P[0] \in Nat /\ P[0] < Power(base, 0)
      BY <1>1, PowerSteps
    <2> QED
      BY <2>1
  <1>3. ASSUME NEW i \in Nat, i \in T
        PROVE  i + 1 \in T
    <2>1. SUFFICES ASSUME i + 1 <= Len(digits)
                   PROVE  P[i + 1] \in Nat /\ P[i + 1] < Power(base, i + 1)
      OBVIOUS
    <2> DEFINE p == Power(base, i)
    <2>2. p \in Nat \ {0} /\ Power(base, i + 1) = base * p
      BY PowerSteps
    <2>3. digits[i + 1] \in 0 .. base - 1 /\ P[i] \in Nat /\ P[i] < p
      BY <1>3, <2>1
    <2> HIDE DEF p
    <2>4. P[i] <= p - 1 /\ P[i] \in Int /\ p - 1 \in Int
      BY <2>2, <2>3
    <2>5. base * P[i] <= base * (p - 1)
      BY <2>4, MonotoneTimes
    <2>6. base * (p - 1) = base * p - base /\ base * P[i] \in Nat /\ base * p \in Nat
      BY <2>2, <2>3
    <2>7. P[i + 1] = base * P[i] + digits[i + 1]
      BY <1>1, <2>1
    <2>8. base * P[i] <= base * p - base
      BY <2>5, <2>6
    <2>9. digits[i + 1] \in Nat /\ digits[i + 1] <= base - 1 /\ Power(base, i + 1) = base * p
      BY <2>2, <2>3
    <2> DEFINE a == base * P[i]
               b == base * p
    <2>10. a \in Nat /\ b \in Nat /\ a <= b - base /\ P[i + 1] = a + digits[i + 1] /\ Power(base, i + 1) = b
      BY <2>6, <2>7, <2>8, <2>9
    <2> HIDE DEF a, b
    <2> QED
      BY <2>9, <2>10
  <1> HIDE DEF T
  <1>4. Len(digits) \in T
    BY <1>2, <1>3, Induction
  <1>5. P[Len(digits)] \in Nat /\ P[Len(digits)] < Power(base, Len(digits)) /\ Power(base, Len(digits)) \in Nat
    BY <1>4, PowerSteps DEF T
  <1> QED
    BY <1>5 DEF P, NumberOf, Behind

\* Powers outgrow their exponents.
LEMMA PowerGrows ==
    ASSUME NEW base \in Nat, base > 1
    PROVE  \A n \in Nat : Power(base, n) \in Nat /\ n < Power(base, n)
  <1> DEFINE T == {n \in Nat : Power(base, n) \in Nat /\ n < Power(base, n)}
  <1>1. 0 \in T
    BY PowerSteps
  <1>2. ASSUME NEW n \in Nat, n \in T
        PROVE  n + 1 \in T
    <2> DEFINE p == Power(base, n)
    <2>1. Power(base, n + 1) = base * p /\ p \in Nat /\ n < p
      BY <1>2, PowerSteps
    <2> HIDE DEF p
    <2>2. p * 2 <= p * base /\ p * base = base * p /\ p * 2 = p + p
      BY <2>1, MonotoneTimes
    <2>3. base * p \in Nat /\ n + 1 < base * p
      BY <2>1, <2>2
    <2> QED
      BY <2>1, <2>3
  <1> HIDE DEF T
  <1>3. \A n \in Nat : n \in T
    BY <1>1, <1>2, Induction
  <1> QED
    BY <1>3 DEF T

\* A number has as many digits as it needs.
LEMMA SizeExists ==
    ASSUME NEW base \in Nat, base > 1, NEW v \in Nat, NEW n \in Nat
    PROVE  \E k \in n .. n + v : v < Power(base, k) /\ (k = n \/ Power(base, k - 1) <= v)
  <1> DEFINE T == {k \in Nat : n <= k /\ v < Power(base, k)}
  <1>1. n + v \in T
    <2>1. n + v \in Nat /\ n + v < Power(base, n + v) /\ Power(base, n + v) \in Nat
      BY PowerGrows
    <2> QED
      BY <2>1
  <1>2. PICK k \in T : \A i \in T : k <= i
    <2>1. T \in SUBSET Nat /\ T # {}
      BY <1>1
    <2> HIDE DEF T
    <2> QED
      BY <2>1, LeastElement
  <1>3. k \in n .. n + v /\ v < Power(base, k)
    BY <1>1, <1>2
  <1>4. ASSUME k # n
        PROVE  Power(base, k - 1) <= v
    <2>1. k - 1 \in Nat /\ n <= k - 1 /\ ~(k <= k - 1)
      BY <1>3, <1>4
    <2>2. ~(v < Power(base, k - 1))
      BY <1>2, <2>1
    <2> QED
      BY <2>1, <2>2, PowerGrows
  <1> QED
    BY <1>3, <1>4

\* The first of them is not nought.
LEMMA LeadingDigit ==
    ASSUME NEW base \in Nat, base > 1, NEW v \in Nat, NEW k \in Nat \ {0},
           v < Power(base, k), Power(base, k - 1) <= v
    PROVE  DigitsOf(base, v, k)[1] # 0
  <1> DEFINE p == Power(base, k - 1)
             q == v \div p
  <1>1. p \in Nat \ {0} /\ Power(base, k) = base * p
    <2>1. k - 1 \in Nat /\ (k - 1) + 1 = k
      OBVIOUS
    <2> QED
      BY <2>1, PowerSteps
  <1>2. DigitsOf(base, v, k)[1] = q % base
    BY DigitsAre
  <1> HIDE DEF p
  <1>3. p <= v /\ v < base * p
    BY <1>1 DEF p
  <1>4. q \in Nat /\ v % p \in 0 .. p - 1 /\ v = p * q + (v % p)
    BY <1>1, DivMod
  <1> HIDE DEF q
  <1>5. q # 0
    BY <1>1, <1>3, <1>4
  <1>6. q < base
    <2>1. SUFFICES ASSUME base <= q
                   PROVE  FALSE
      BY <1>4
    <2>2. p * base <= p * q /\ p * base = base * p
      BY <1>1, <1>4, <2>1, MonotoneTimes
    <2>3. p * q \in Nat /\ base * p \in Nat
      BY <1>1, <1>4
    <2> QED
      BY <1>1, <1>3, <1>4, <2>2, <2>3
  <1>7. q % base = q
    BY <1>4, <1>6
  <1> QED
    BY <1>2, <1>5, <1>7

\* A bounded set of naturals has a greatest element.
LEMMA GreatestElement ==
    ASSUME NEW T \in SUBSET Nat, T # {}, NEW bound \in Nat, \A i \in T : i <= bound
    PROVE  \E m \in T : \A i \in T : i <= m
  <1> DEFINE U == {m \in Nat : \A i \in T : i <= m}
  <1>1. PICK m \in U : \A i \in U : m <= i
    <2>1. U \in SUBSET Nat /\ U # {}
      OBVIOUS
    <2> HIDE DEF U
    <2> QED
      BY <2>1, LeastElement
  <1>2. m \in Nat /\ \A i \in T : i <= m
    BY <1>1
  <1>3. m \in T
    <2>1. SUFFICES ASSUME m \notin T
                   PROVE  FALSE
      OBVIOUS
    <2>2. m # 0
      <3>1. PICK i \in T : TRUE
        OBVIOUS
      <3>2. i \in Nat /\ i <= m /\ i # m
        BY <1>2, <2>1
      <3> QED
        BY <1>2, <3>2
    <2>3. m - 1 \in Nat /\ ~(m <= m - 1)
      BY <1>2, <2>2
    <2>4. ASSUME NEW i \in T
          PROVE  i <= m - 1
      <3>1. i \in Nat /\ i <= m /\ i # m
        BY <1>2, <2>1
      <3> QED
        BY <1>2, <3>1
    <2>5. m - 1 \in U
      BY <2>3, <2>4
    <2> HIDE DEF U
    <2> QED
      BY <1>1, <2>3, <2>5
  <1> QED
    BY <1>2, <1>3

\* Digits without the noughts at their end.
LEMMA EndInZeros ==
    ASSUME NEW d \in Seq(Nat), NEW used \in 0 .. Len(d), \A i \in 1 .. Len(d) : i > used => d[i] = 0
    PROVE  SubSeq(d, 1, used) \o Zeros(Len(d) - used) = d
  <1> DEFINE l == Len(d)
             s == SubSeq(d, 1, used)
             z == Zeros(l - used)
  <1>1. l \in Nat /\ l - used \in Nat /\ used \in Nat /\ used <= l
    OBVIOUS
  <1>2. s \in Seq(Nat) /\ Len(s) = used /\ \A i \in 1 .. used : s[i] = d[i]
    BY <1>1
  <1>3. z \in Seq(Nat) /\ Len(z) = l - used /\ \A i \in 1 .. l - used : z[i] = 0
    BY <1>1, ZerosAre
  <1> HIDE DEF s, z
  <1>4. Len(s \o z) = l /\ s \o z \in Seq(Nat)
    <2>1. s \o z \in Seq(Nat) /\ Len(s \o z) = Len(s) + Len(z)
      BY <1>2, <1>3
    <2> QED
      BY <1>1, <1>2, <1>3, <2>1
  <1>5. ASSUME NEW i \in 1 .. l
        PROVE  (s \o z)[i] = d[i]
    <2>1. CASE i <= used
      BY <1>1, <1>2, <1>3, <2>1
    <2>2. CASE ~(i <= used)
      <3>1. (s \o z)[i] = z[i - used] /\ i - used \in 1 .. l - used
        BY <1>1, <1>2, <1>3, <2>2
      <3>2. d[i] = 0
        BY <1>1, <2>2
      <3> QED
        BY <1>3, <3>1, <3>2
    <2> QED
      BY <2>1, <2>2
  <1>6. s \o z = d
    <2> DEFINE c == s \o z
    <2>1. c \in Seq(Nat) /\ Len(c) = l /\ \A i \in 1 .. l : c[i] = d[i]
      BY <1>4, <1>5
    <2> HIDE DEF c
    <2>2. c = d
      BY <2>1
    <2> QED
      BY <2>2 DEF c
  <1> QED
    BY <1>6 DEF s, z

\* A power is no less than one with a smaller exponent.
LEMMA PowerMonotone ==
    ASSUME NEW base \in Nat \ {0}, NEW m \in Nat, NEW n \in Nat, m <= n
    PROVE  Power(base, m) <= Power(base, n)
  <1> DEFINE p == Power(base, m)
             q == Power(base, n - m)
  <1>1. n - m \in Nat /\ m + (n - m) = n
    OBVIOUS
  <1>2. p \in Nat \ {0} /\ q \in Nat \ {0}
    BY <1>1, PowerSteps
  <1>3. Power(base, m + (n - m)) = p * q
    BY <1>1, PowerAdds
  <1> HIDE DEF p, q
  <1>4. p * 1 <= p * q /\ p * 1 = p
    BY <1>2, MonotoneTimes
  <1> QED
    BY <1>1, <1>3, <1>4 DEF p

-----------------------------------------------------------------------------
(* Pieces one behind the other.                                            *)

\* The pieces that are joined so far, and with one more.
LEMMA JoinedSteps ==
    ASSUME NEW X, NEW pieces \in Seq(Seq(X))
    PROVE  LET joined == Joined(pieces)
           IN  /\ joined[0] = <<>>
               /\ \A i \in Nat : i < Len(pieces) => joined[i + 1] = joined[i] \o pieces[i + 1]
               /\ \A i \in Nat : i <= Len(pieces) => joined[i] \in Seq(X)
  <1> DEFINE n == Len(pieces)
             V == Seq(X)
             step == [i \in 1 .. n |-> [s \in V |-> s \o pieces[i]]]
             J == Joined(pieces)
  <1>1. n \in Nat /\ \A i \in 1 .. n : pieces[i] \in Seq(X)
    OBVIOUS
  <1> HIDE DEF n
  <1>2. \A i \in 1 .. n, s \in V : step[i][s] = s \o pieces[i] /\ step[i][s] \in V
    BY <1>1
  <1>start. <<>> \in V
    OBVIOUS
  <1> HIDE DEF step, V
  <1>3. PICK f : RecursBy(f, n, <<>>, step) /\ \A i \in 0 .. n : f[i] \in V
    <2>1. Closed(V, n, step)
      BY <1>2 DEF Closed
    <2> QED
      BY <1>1, <1>start, <2>1, Recursion
  <1>f. f = [i \in 0 .. n |-> IF i = 0 THEN <<>> ELSE f[i - 1] \o pieces[i]]
    <2>1. \A i \in 0 .. n : i # 0 => i \in 1 .. n /\ i - 1 \in 0 .. n
      BY <1>1
    <2>2. \A i \in 0 .. n : (IF i = 0 THEN <<>> ELSE step[i][f[i - 1]])
                               = IF i = 0 THEN <<>> ELSE f[i - 1] \o pieces[i]
      BY <1>2, <1>3, <2>1 DEF RecursBy
    <2> QED
      BY <1>3, <2>2 DEF RecursBy
  <1>4. J = [i \in 0 .. n |-> IF i = 0 THEN <<>> ELSE J[i - 1] \o pieces[i]]
    BY <1>f DEF Joined, n
  <1> HIDE DEF J
  <1>5. J[0] = <<>> /\ \A i \in Nat : i < n => J[i + 1] = J[i] \o pieces[i + 1]
    <2>1. ASSUME NEW i \in Nat, i < n
          PROVE  J[i + 1] = J[i] \o pieces[i + 1]
      <3>1. i + 1 \in 0 .. n /\ i + 1 # 0 /\ (i + 1) - 1 = i
        BY <1>1, <2>1
      <3>2. J[i + 1] = J[(i + 1) - 1] \o pieces[i + 1]
        BY <1>4, <3>1
      <3> QED
        BY <3>1, <3>2
    <2>2. 0 \in 0 .. n
      BY <1>1
    <2>3. J[0] = <<>>
      BY <1>4, <2>2
    <2> QED
      BY <2>1, <2>3
  <1>6. \A i \in Nat : i <= n => J[i] \in Seq(X)
    <2> DEFINE T == {i \in Nat : i <= n => J[i] \in Seq(X)}
    <2>1. 0 \in T
      BY <1>5, <1>start DEF V
    <2>2. ASSUME NEW i \in Nat, i \in T
          PROVE  i + 1 \in T
      <3>1. SUFFICES ASSUME i + 1 <= n
                     PROVE  J[i + 1] \in Seq(X)
        BY <2>2
      <3>2. J[i] \in Seq(X) /\ i + 1 \in 1 .. n /\ i < n
        BY <1>1, <2>2, <3>1
      <3>3. J[i + 1] = J[i] \o pieces[i + 1] /\ pieces[i + 1] \in Seq(X)
        BY <1>1, <1>5, <3>2
      <3> QED
        BY <3>2, <3>3
    <2> HIDE DEF T
    <2>3. \A i \in Nat : i \in T
      BY <2>1, <2>2, Induction
    <2> QED
      BY <2>3 DEF T
  <1> QED
    BY <1>1, <1>5, <1>6 DEF J, n

\* The concatenation of lists, as an operator that the provers do not look into.
Concat(a, b) == a \o b

LEMMA ConcatTyped ==
    ASSUME NEW X, NEW a \in Seq(X), NEW b \in Seq(X)
    PROVE  Concat(a, b) \in Seq(X) /\ Len(Concat(a, b)) = Len(a) + Len(b)
           /\ Concat(a, <<>>) = a /\ Concat(<<>>, a) = a
  BY DEF Concat

LEMMA ConcatRegroups ==
    ASSUME NEW X, NEW a \in Seq(X), NEW b \in Seq(X), NEW c \in Seq(X)
    PROVE  Concat(Concat(a, b), c) = Concat(a, Concat(b, c))
  BY ConcatAssociative DEF Concat

\* Every piece is where those before it end.
LEMMA JoinedHolds ==
    ASSUME NEW X, NEW pieces \in Seq(Seq(X)), NEW i \in 1 .. Len(pieces)
    PROVE  /\ Joined(pieces)[i - 1] \in Seq(X) /\ pieces[i] \in Seq(X)
           /\ \E rest \in Seq(X) : 
                                    Joined(pieces)[Len(pieces)] = Concat(Joined(pieces)[i - 1], Concat(pieces[i], rest))
  <1> DEFINE n == Len(pieces)
             J == Joined(pieces)
             Held(k) == \E rest \in Seq(X) : J[i + k] = Concat(J[i - 1], Concat(pieces[i], rest))
             T == {k \in Nat : i + k <= n => Held(k)}
  <1>1. /\ n \in Nat /\ i - 1 \in Nat /\ i \in Nat /\ i - 1 < n /\ (i - 1) + 1 = i /\ i <= n /\ i + 0 = i
        /\ \A k \in 1 .. n : pieces[k] \in Seq(X)
    OBVIOUS
  <1>2. /\ \A k \in Nat : k < n => J[k + 1] = Concat(J[k], pieces[k + 1])
        /\ \A k \in Nat : k <= n => J[k] \in Seq(X)
    BY JoinedSteps DEF Concat
  <1> HIDE DEF n, J
  <1>3. J[i - 1] \in Seq(X) /\ pieces[i] \in Seq(X)
    BY <1>1, <1>2
  <1>4. 0 \in T
    <2>1. J[i] = Concat(J[i - 1], pieces[i])
      BY <1>1, <1>2
    <2>2. Concat(pieces[i], <<>>) = pieces[i] /\ <<>> \in Seq(X)
      <3>1. <<>> \in Seq(X)
        OBVIOUS
      <3> QED
        BY <1>3, <3>1, ConcatTyped
    <2>3. J[i + 0] = Concat(J[i - 1], Concat(pieces[i], <<>>))
      BY <1>1, <2>1, <2>2
    <2>4. Held(0)
      BY <2>2, <2>3
    <2> QED
      BY <2>4
  <1>5. ASSUME NEW k \in Nat, k \in T
        PROVE  k + 1 \in T
    <2>1. SUFFICES ASSUME i + (k + 1) <= n
                   PROVE  Held(k + 1)
      <3> HIDE DEF Held
      <3> QED
        OBVIOUS
    <2>2. i + k \in Nat /\ i + k < n /\ i + k <= n /\ (i + k) + 1 = i + (k + 1) /\ (i + k) + 1 \in 1 .. n
      BY <1>1, <2>1
    <2>3. PICK rest \in Seq(X) : J[i + k] = Concat(J[i - 1], Concat(pieces[i], rest))
      BY <1>5, <2>2
    <2> DEFINE piece == pieces[(i + k) + 1]
    <2>4. J[i + (k + 1)] = Concat(J[i + k], piece) /\ piece \in Seq(X)
      BY <1>1, <1>2, <2>2
    <2> HIDE DEF piece
    <2>5. Concat(pieces[i], rest) \in Seq(X) /\ Concat(rest, piece) \in Seq(X)
      BY <1>3, <2>4, ConcatTyped
    <2>6. /\ Concat(Concat(J[i - 1], Concat(pieces[i], rest)), piece)
                = Concat(J[i - 1], Concat(Concat(pieces[i], rest), piece))
          /\ Concat(Concat(pieces[i], rest), piece) = Concat(pieces[i], Concat(rest, piece))
      BY <1>3, <2>4, <2>5, ConcatRegroups
    <2>7. J[i + (k + 1)] = Concat(J[i - 1], Concat(pieces[i], Concat(rest, piece)))
      BY <2>3, <2>4, <2>6
    <2> QED
      BY <2>5, <2>7
  <1> HIDE DEF T
  <1>6. n - i \in T /\ n - i \in Nat /\ i + (n - i) = n
    <2>1. n - i \in Nat /\ i + (n - i) = n
      BY <1>1
    <2> QED
      BY <1>4, <1>5, <2>1, Induction
  <1>7. Held(n - i)
    <2> HIDE DEF Held
    <2> QED
      BY <1>1, <1>6 DEF T
  <1> QED
    BY <1>3, <1>6, <1>7 DEF J, n

\* Pieces of one size.
LEMMA JoinedEven ==
    ASSUME NEW X, NEW pieces \in Seq(Seq(X)), NEW size \in Nat, \A i \in 1 .. Len(pieces) : Len(pieces[i]) = size
    PROVE  \A i \in Nat : i <= Len(pieces) => Len(Joined(pieces)[i]) = i * size
  <1> DEFINE n == Len(pieces)
             J == Joined(pieces)
             T == {i \in Nat : i <= n => Len(J[i]) = i * size}
  <1>1. n \in Nat /\ \A k \in 1 .. n : pieces[k] \in Seq(X) /\ Len(pieces[k]) = size
    OBVIOUS
  <1>2. /\ J[0] = <<>> /\ \A k \in Nat : k < n => J[k + 1] = J[k] \o pieces[k + 1]
        /\ \A k \in Nat : k <= n => J[k] \in Seq(X)
    BY JoinedSteps
  <1> HIDE DEF n, J
  <1>3. 0 \in T
    <2>1. Len(J[0]) = 0 * size
      BY <1>2
    <2> QED
      BY <2>1
  <1>4. ASSUME NEW i \in Nat, i \in T
        PROVE  i + 1 \in T
    <2>1. SUFFICES ASSUME i + 1 <= n
                   PROVE  Len(J[i + 1]) = (i + 1) * size
      OBVIOUS
    <2>2. i < n /\ i <= n /\ i + 1 \in 1 .. n /\ Len(J[i]) = i * size
      BY <1>1, <1>4, <2>1
    <2>3. J[i + 1] = J[i] \o pieces[i + 1] /\ J[i] \in Seq(X) /\ pieces[i + 1] \in Seq(X) /\ Len(pieces[i + 1]) = size
      BY <1>1, <1>2, <2>2
    <2>4. Len(J[i + 1]) = i * size + size
      <3> DEFINE a == J[i]
                 b == pieces[i + 1]
      <3>1. a \in Seq(X) /\ b \in Seq(X) /\ Len(a) = i * size /\ Len(b) = size
        BY <2>2, <2>3
      <3> HIDE DEF a, b
      <3>2. Len(a \o b) = Len(a) + Len(b)
        BY <3>1, ConcatTyped DEF Concat
      <3> QED
        BY <2>3, <3>1, <3>2 DEF a, b
    <2>5. (i + 1) * size = i * size + size
      OBVIOUS
    <2> QED
      BY <2>4, <2>5
  <1> HIDE DEF T
  <1>5. \A i \in Nat : i \in T
    BY <1>3, <1>4, Induction
  <1> QED
    BY <1>5 DEF T, J, n

\* A part of a list by what is before and behind it.
LEMMA MiddlePart ==
    ASSUME NEW X, NEW a \in Seq(X), NEW b \in Seq(X), NEW c \in Seq(X)
    PROVE  SubSeq(Concat(a, Concat(b, c)), Len(a) + 1, Len(a) + Len(b)) = b
  <1> DEFINE d == a \o (b \o c)
             s == SubSeq(d, Len(a) + 1, Len(a) + Len(b))
  <1>1. Len(a) \in Nat /\ Len(b) \in Nat /\ Len(c) \in Nat /\ b \o c \in Seq(X) /\ Len(b \o c) = Len(b) + Len(c)
    OBVIOUS
  <1>2. d \in Seq(X) /\ Len(d) = Len(a) + (Len(b) + Len(c))
    BY <1>1
  <1>3. \A i \in 1 .. Len(b) : d[Len(a) + i] = b[i]
    <2> TAKE i \in 1 .. Len(b)
    <2>1. (b \o c)[i] = b[i]
      OBVIOUS
    <2>2. i \in 1 .. Len(b \o c) /\ Len(a) + i \in 1 .. Len(a) + Len(b \o c) /\ Len(a) + i > Len(a)
      BY <1>1
    <2> DEFINE e == b \o c
    <2>3. e \in Seq(X)
      BY <1>1
    <2> HIDE DEF e
    <2>4. (a \o e)[Len(a) + i] = e[i]
      BY <1>1, <2>2, <2>3 DEF e
    <2> QED
      BY <2>1, <2>4 DEF e
  <1> HIDE DEF d
  <1>4. s \in Seq(X) /\ Len(s) = Len(b) /\ \A i \in 1 .. Len(b) : s[i] = d[Len(a) + i]
    <2> DEFINE l == Len(a)
               m == Len(b)
    <2>1. l \in Nat /\ m \in Nat /\ l + m <= Len(d)
      BY <1>1, <1>2
    <2> HIDE DEF l, m
    <2>2. s = SubSeq(d, l + 1, l + m)
      BY DEF l, m
    <2>3. Len(SubSeq(d, l + 1, l + m)) = m /\ SubSeq(d, l + 1, l + m) \in Seq(X)
      BY <1>2, <2>1
    <2>4. \A i \in 1 .. m : SubSeq(d, l + 1, l + m)[i] = d[l + i]
      BY <1>2, <2>1
    <2> QED
      BY <2>2, <2>3, <2>4 DEF l, m
  <1> HIDE DEF s
  <1>5. s = b
    BY <1>3, <1>4
  <1> QED
    BY <1>5 DEF s, d, Concat

-----------------------------------------------------------------------------
(* Ranked lists: the entries at some positions, in the order of the        *)
(* positions.                                                              *)

\* The entries of a list at the kept positions.
KeptInOrder(list, kept) ==
    [n \in 1 .. Cardinality(kept) |->
        list[CHOOSE i \in kept : Cardinality({j \in kept : j <= i}) = n]]

\* Every rank up to the size of a set of positions is the rank of a member.
LEMMA Ranked ==
    ASSUME NEW l \in Nat, NEW kept \in SUBSET (1 .. l), NEW n \in 1 .. Cardinality(kept)
    PROVE  \E i \in kept : Cardinality({j \in kept : j <= i}) = n
  <1> DEFINE upto(i) == {j \in kept : j <= i}
             T == {i \in Nat : Cardinality(upto(i)) >= n}
  <1>0. IsFiniteSet(1 .. l)
    BY FS_Interval
  <1>1. IsFiniteSet(kept) /\ Cardinality(kept) \in Nat /\ n \in Nat \ {0}
    <2>1. IsFiniteSet(kept)
      BY <1>0, FS_Subset
    <2>2. Cardinality(kept) \in Nat
      BY <2>1, FS_CardinalityType
    <2> QED
      BY <2>1, <2>2
  <1>members. \A j \in kept : j \in Nat \ {0} /\ j <= l
    OBVIOUS
  <1>2. \A i \in Nat : IsFiniteSet(upto(i)) /\ Cardinality(upto(i)) \in Nat
    BY <1>1, FS_Subset, FS_CardinalityType
  <1>3. upto(l) = kept /\ upto(0) = {}
    <2>1. \A j \in kept : j <= l /\ ~(j <= 0)
      BY <1>members
    <2> QED
      BY <2>1
  <1>4. ASSUME NEW i \in Nat \ {0}
        PROVE  /\ i \in kept => upto(i) = upto(i - 1) \cup {i} /\ i \notin upto(i - 1)
               /\ i \notin kept => upto(i) = upto(i - 1)
    <2>1. \A j \in kept : (j <= i <=> j <= i - 1 \/ j = i) /\ ~(i <= i - 1)
      BY <1>members
    <2> QED
      BY <2>1
  <1>5. l \in T /\ 0 \notin T
    <2>1. Cardinality(upto(l)) >= n /\ ~(Cardinality(upto(0)) >= n)
      BY <1>1, <1>3, FS_EmptySet
    <2> HIDE DEF upto
    <2> QED
      BY <2>1
  <1>6. PICK m \in T : \A i \in T : m <= i
    <2>1. T \in SUBSET Nat /\ T # {}
      BY <1>5
    <2> HIDE DEF T
    <2> QED
      BY <2>1, LeastElement
  <1>7. m \in Nat \ {0} /\ m - 1 \in Nat /\ m - 1 \notin T
    <2>1. m \in Nat /\ m # 0
      BY <1>5
    <2> HIDE DEF T
    <2>2. m \in Nat \ {0} /\ m - 1 \in Nat /\ ~(m <= m - 1)
      BY <2>1
    <2> QED
      BY <1>6, <2>2
  <1>8. Cardinality(upto(m)) >= n /\ ~(Cardinality(upto(m - 1)) >= n)
    BY <1>7
  <1> HIDE DEF upto
  <1>9. m \in kept
    BY <1>4, <1>7, <1>8
  <1>10. Cardinality(upto(m)) = Cardinality(upto(m - 1)) + 1
    BY <1>2, <1>4, <1>7, <1>9, FS_AddElement
  <1>11. Cardinality(upto(m)) = n
    BY <1>1, <1>2, <1>7, <1>8, <1>10
  <1> QED
    BY <1>9, <1>11 DEF upto

\* The list has an entry of every kept position, and entries that differ stay so.
LEMMA KeptListed ==
    ASSUME NEW list, NEW l \in Nat, NEW kept \in SUBSET (1 .. l), NEW S, \A i \in kept : list[i] \in S,
           \A i, k \in kept : list[i] = list[k] => i = k
    PROVE  LET urls == KeptInOrder(list, kept)
           IN  /\ urls \in Seq(S) /\ Len(urls) \in Nat /\ DOMAIN urls = 1 .. Len(urls)
               /\ \A m, n \in 1 .. Len(urls) : urls[m] = urls[n] => m = n
               /\ \A n \in 1 .. Len(urls) : \E i \in kept : urls[n] = list[i]
               /\ urls # <<>> => Len(urls) \in Nat \ {0}
  <1> DEFINE rank(i) == Cardinality({j \in kept : j <= i})
             place(n) == CHOOSE i \in kept : rank(i) = n
             size == Cardinality(kept)
  <1>1. size \in Nat
    <2>1. IsFiniteSet(1 .. l)
      BY FS_Interval
    <2>2. IsFiniteSet(kept)
      BY <2>1, FS_Subset
    <2> QED
      BY <2>2, FS_CardinalityType
  <1>2. KeptInOrder(list, kept) = [n \in 1 .. size |-> list[place(n)]]
    BY DEF KeptInOrder
  <1>3. ASSUME NEW n \in 1 .. size
        PROVE  \E i \in kept : rank(i) = n
    BY Ranked
  <1> HIDE DEF rank, size
  <1>4. \A n \in 1 .. size : place(n) \in kept /\ rank(place(n)) = n
    BY <1>3
  <1> HIDE DEF place
  <1> DEFINE urls == [n \in 1 .. size |-> list[place(n)]]
  <1>5. urls \in Seq(S) /\ Len(urls) = size /\ DOMAIN urls = 1 .. size
    <2>1. urls \in [1 .. size -> S]
      BY <1>4
    <2> QED
      BY <1>1, <2>1
  <1>6. \A m, n \in 1 .. size : urls[m] = urls[n] => m = n
    BY <1>4
  <1>7. \A n \in 1 .. size : \E i \in kept : urls[n] = list[i]
    BY <1>4
  <1>8. size = 0 => urls = <<>>
    BY <1>1
  <1> HIDE DEF urls
  <1> QED
    BY <1>1, <1>2, <1>5, <1>6, <1>7, <1>8 DEF urls
=============================================================================
