----------------------- MODULE SignedTransactionsProofs -----------------------
(***************************************************************************)
(* A transaction has one encoding, the node reads out of what is posted    *)
(* who signed it and who pays, and what it costs: for all bases of bytes   *)
(* and widths of fields, all prices of gas, all bodies and all raw         *)
(* transactions from elsewhere.                                            *)
(*                                                                         *)
(* First the digits of numbers, by induction; then each kind of field      *)
(* there and back; then whole transactions; then the invariant.            *)
(***************************************************************************)
EXTENDS SignedTransactions, TLAPS, FiniteSetTheorems, WellFoundedInduction

-----------------------------------------------------------------------------
(***************************************************************************)
(* Induction, as the least counterexample.                                 *)
(***************************************************************************)
\* A set of numbers that is not empty has a least member.
LEMMA LeastNumber ==
  ASSUME NEW T \in SUBSET Nat, T # {}
  PROVE  \E n \in T : \A m \in T : n <= m
<1>1. IsWellFoundedOn(OpToRel(<, Nat), Nat)
  BY NatLessThanWellFounded
<1>2. PICK n \in T : \A m \in T : ~ (<<m, n>> \in OpToRel(<, Nat))
  BY <1>1, WFMin
<1>3. \A m \in T : ~ (m < n)
  BY <1>2 DEF OpToRel
<1> QED
  BY <1>3

\* A set of numbers that holds every number below which it holds all, holds all.
LEMMA AllNumbers ==
  ASSUME NEW S, \A n \in Nat : (\A m \in Nat : m < n => m \in S) => n \in S
  PROVE  Nat \subseteq S
<1> DEFINE T == Nat \ S
<1>1. SUFFICES ASSUME T # {} PROVE FALSE
  OBVIOUS
<1>2. T \in SUBSET Nat
  OBVIOUS
<1>3. PICK n \in T : \A m \in T : n <= m
  <2> HIDE DEF T
  <2> QED
    BY <1>1, <1>2, LeastNumber
<1>4. \A m \in Nat : m < n => m \in S
  BY <1>3
<1> QED
  BY <1>3, <1>4

\* Division by the base.
LEMMA Division ==
  ASSUME NEW n \in Nat
  PROVE  /\ n \div Base \in Nat /\ n % Base \in Byte
         /\ n = Base * (n \div Base) + (n % Base)
         /\ n # 0 => n \div Base < n
<1>1. Base \in Nat /\ Base > 1
  BY RlpAssumption
<1>2. n \div Base \in Nat /\ n % Base \in Byte
  BY <1>1, Z3 DEF Byte
<1>3. n = Base * (n \div Base) + (n % Base)
  BY <1>1, Z3
<1>4. ASSUME n # 0 PROVE n \div Base < n
  <2> DEFINE q == n \div Base
             r == n % Base
  <2>1. q \in Nat /\ r \in Nat /\ n = Base * q + r
    BY <1>1, <1>2, <1>3 DEF Byte
  <2> HIDE DEF q, r
  <2> DEFINE bq == Base * q
  <2>2. bq \in Nat /\ bq >= 2 * q
    BY <1>1, <2>1
  <2> HIDE DEF bq
  <2>3. n = bq + r
    BY <2>1 DEF bq
  <2>4. q < n
    BY <1>4, <2>1, <2>2, <2>3
  <2> QED
    BY <2>4 DEF q
<1> QED
  BY <1>2, <1>3, <1>4

\* A quotient and a rest are those of the number that they make.
LEMMA DivisionIsUnique ==
  ASSUME NEW q \in Nat, NEW r \in Byte
  PROVE  (Base * q + r) \div Base = q /\ (Base * q + r) % Base = r
<1> DEFINE n == Base * q + r
           p == n \div Base
           s == n % Base
<1>1. Base \in Nat /\ Base > 1 /\ r \in 0 .. Base - 1
  BY RlpAssumption DEF Byte
<1>2. n \in Nat
  BY <1>1
<1>3. p \in Nat /\ s \in 0 .. Base - 1 /\ n = Base * p + s
  <2> HIDE DEF n
  <2> QED
    BY <1>2, Division DEF Byte
<1>4. Base * q + r = Base * p + s
  BY <1>3
<1> HIDE DEF p, s
<1>5. ~ q < p
  <2>1. SUFFICES ASSUME q + 1 <= p PROVE FALSE
    BY <1>3
  <2>2. Base * (q + 1) <= Base * p
    BY <1>1, <1>3, <2>1, Z3
  <2>3. Base * (q + 1) = Base * q + Base
    BY <1>1, Z3
  <2> QED
    BY <1>1, <1>3, <1>4, <2>2, <2>3
<1>6. ~ p < q
  <2>1. SUFFICES ASSUME p + 1 <= q PROVE FALSE
    BY <1>3
  <2>2. Base * (p + 1) <= Base * q
    BY <1>1, <1>3, <2>1, Z3
  <2>3. Base * (p + 1) = Base * p + Base
    BY <1>1, <1>3, Z3
  <2> QED
    BY <1>1, <1>3, <1>4, <2>2, <2>3
<1>7. p = q
  BY <1>3, <1>5, <1>6
<1>8. s = r
  BY <1>1, <1>3, <1>4, <1>7
<1> QED
  BY <1>7, <1>8 DEF p, s

-----------------------------------------------------------------------------
\* The equation that the digits of the numbers up to n are defined by has a solution.
LEMMA BytesExist ==
  ASSUME NEW n \in Nat
  PROVE  \E f : f = [m \in 0 .. n |-> IF m = 0 THEN <<>>
                                      ELSE Append(f[m \div Base], m % Base)]
<1> DEFINE P(k) == \E f : f = [m \in 0 .. k |-> IF m = 0 THEN <<>>
                                      ELSE Append(f[m \div Base], m % Base)]
           S == {k \in Nat : P(k)}
<1>1. ASSUME NEW k \in Nat, \A j \in Nat : j < k => j \in S PROVE k \in S
  <2>1. CASE k = 0
    <3> DEFINE f == [m \in 0 .. 0 |-> <<>>]
    <3>1. f = [m \in 0 .. 0 |-> IF m = 0 THEN <<>> ELSE Append(f[m \div Base], m % Base)]
      OBVIOUS
    <3>2. P(0)
      BY <3>1
    <3> HIDE DEF P
    <3> QED
      BY <2>1, <3>2
  <2>2. CASE k # 0
    <3>1. k - 1 \in Nat /\ k - 1 < k
      BY <2>2
    <3>2. P(k - 1)
      BY <1>1, <3>1
    <3>3. PICK g : g = [m \in 0 .. k - 1 |-> IF m = 0 THEN <<>>
                                      ELSE Append(g[m \div Base], m % Base)]
      BY <3>2
    <3> DEFINE f == [m \in 0 .. k |-> IF m = k THEN Append(g[k \div Base], k % Base) ELSE g[m]]
    <3>4. ASSUME NEW m \in 0 .. k
          PROVE  f[m] = IF m = 0 THEN <<>> ELSE Append(f[m \div Base], m % Base)
      <4>1. m \div Base \in Nat /\ (m # 0 => m \div Base < m)
        BY Division
      <4>2. ASSUME m # 0 PROVE f[m \div Base] = g[m \div Base]
        BY <4>1, <4>2
      <4>3. CASE m = k
        BY <2>2, <4>2, <4>3
      <4>4. CASE m # k
        <5>1. m \in 0 .. k - 1
          BY <4>4
        <5>2. g[m] = IF m = 0 THEN <<>> ELSE Append(g[m \div Base], m % Base)
          BY <3>3, <5>1
        <5> QED
          BY <4>2, <4>4, <5>2
      <4> QED
        BY <4>3, <4>4
    <3>5. f = [m \in 0 .. k |-> f[m]]
      OBVIOUS
    <3> HIDE DEF f
    <3>6. f = [m \in 0 .. k |-> IF m = 0 THEN <<>> ELSE Append(f[m \div Base], m % Base)]
      BY <3>4, <3>5
    <3>7. P(k)
      BY <3>6
    <3> HIDE DEF P
    <3> QED
      BY <3>7
  <2> QED
    BY <2>1, <2>2
<1>2. Nat \subseteq S
  <2> HIDE DEF S
  <2> QED
    BY <1>1, AllNumbers
<1>3. P(n)
  <2> HIDE DEF P
  <2> QED
    BY <1>2
<1> QED
  BY <1>3

\* The function that BytesOf uses, for a number.
BytesUpTo(n) == CHOOSE f : f = [m \in 0 .. n |-> IF m = 0 THEN <<>>
                                      ELSE Append(f[m \div Base], m % Base)]

\* It holds of what BytesOf takes the digits from.
LEMMA BytesEquation ==
  ASSUME NEW n \in Nat
  PROVE  /\ BytesOf(n) = BytesUpTo(n)[n]
         /\ \A m \in 0 .. n :
              BytesUpTo(n)[m] = IF m = 0 THEN <<>>
                                ELSE Append(BytesUpTo(n)[m \div Base], m % Base)
<1> DEFINE Q(f) == f = [m \in 0 .. n |-> IF m = 0 THEN <<>>
                                      ELSE Append(f[m \div Base], m % Base)]
<1>1. \E f : Q(f)
  BY BytesExist
<1>2. BytesUpTo(n) = CHOOSE f : Q(f)
  BY DEF BytesUpTo
<1>3. Q(CHOOSE f : Q(f))
  <2> HIDE DEF Q
  <2> QED
    BY <1>1
<1>4. Q(BytesUpTo(n))
  BY <1>2, <1>3
<1>5. BytesOf(n) = (CHOOSE f : Q(f))[n]
  BY DEF BytesOf
<1> QED
  BY <1>2, <1>4, <1>5

\* The digits of a number do not depend on the numbers that they are computed with.
LEMMA BytesAgree ==
  ASSUME NEW n \in Nat, NEW k \in Nat, NEW m \in Nat, m <= n, m <= k
  PROVE  BytesUpTo(n)[m] = BytesUpTo(k)[m]
<1> DEFINE S == {i \in Nat : i <= n /\ i <= k => BytesUpTo(n)[i] = BytesUpTo(k)[i]}
<1>1. ASSUME NEW i \in Nat, \A j \in Nat : j < i => j \in S PROVE i \in S
  <2>1. SUFFICES ASSUME i <= n, i <= k PROVE BytesUpTo(n)[i] = BytesUpTo(k)[i]
    OBVIOUS
  <2>2. /\ BytesUpTo(n)[i] = IF i = 0 THEN <<>> ELSE Append(BytesUpTo(n)[i \div Base], i % Base)
        /\ BytesUpTo(k)[i] = IF i = 0 THEN <<>> ELSE Append(BytesUpTo(k)[i \div Base], i % Base)
    <3>1. i \in 0 .. n /\ i \in 0 .. k
      BY <2>1
    <3> QED
      BY <3>1, BytesEquation
  <2>3. ASSUME i # 0 PROVE BytesUpTo(n)[i \div Base] = BytesUpTo(k)[i \div Base]
    <3>1. i \div Base \in Nat /\ i \div Base < i
      BY <2>3, Division
    <3>2. i \div Base \in S
      BY <1>1, <3>1
    <3> QED
      BY <2>1, <3>1, <3>2
  <2> QED
    BY <2>2, <2>3
<1>2. Nat \subseteq S
  <2> HIDE DEF S
  <2> QED
    BY <1>1, AllNumbers
<1> QED
  BY <1>2

\* The digits of a number: those of its quotient, and its rest.
LEMMA DigitsOf ==
  ASSUME NEW n \in Nat
  PROVE  BytesOf(n) = IF n = 0 THEN <<>> ELSE Append(BytesOf(n \div Base), n % Base)
<1>1. CASE n = 0
  <2>1. n \in 0 .. n
    OBVIOUS
  <2> QED
    BY <1>1, <2>1, BytesEquation
<1>2. CASE n # 0
  <2>1. n \div Base \in Nat /\ n \div Base < n
    BY <1>2, Division
  <2>2. BytesOf(n) = Append(BytesUpTo(n)[n \div Base], n % Base)
    <3>1. n \in 0 .. n
      OBVIOUS
    <3> QED
      BY <1>2, <3>1, BytesEquation
  <2>3. BytesUpTo(n)[n \div Base] = BytesUpTo(n \div Base)[n \div Base]
    BY <2>1, BytesAgree
  <2> QED
    BY <1>2, <2>1, <2>2, <2>3, BytesEquation
<1> QED
  BY <1>1, <1>2

-----------------------------------------------------------------------------
\* The equation that the values of the beginnings of a buffer are defined by has a solution.
LEMMA ValueExists ==
  ASSUME NEW b \in Buffer
  PROVE  \E f : f = [i \in 0 .. Len(b) |-> IF i = 0 THEN 0 ELSE Base * f[i - 1] + b[i]]
<1> DEFINE P(k) == \E f : f = [i \in 0 .. k |-> IF i = 0 THEN 0 ELSE Base * f[i - 1] + b[i]]
           S == {k \in Nat : P(k)}
<1>1. ASSUME NEW k \in Nat, \A j \in Nat : j < k => j \in S PROVE k \in S
  <2>1. CASE k = 0
    <3> DEFINE f == [i \in 0 .. 0 |-> 0]
    <3>1. f = [i \in 0 .. 0 |-> IF i = 0 THEN 0 ELSE Base * f[i - 1] + b[i]]
      OBVIOUS
    <3>2. P(0)
      BY <3>1
    <3> HIDE DEF P
    <3> QED
      BY <2>1, <3>2
  <2>2. CASE k # 0
    <3>1. k - 1 \in Nat /\ k - 1 < k
      BY <2>2
    <3>2. P(k - 1)
      BY <1>1, <3>1
    <3>3. PICK g : g = [i \in 0 .. k - 1 |-> IF i = 0 THEN 0 ELSE Base * g[i - 1] + b[i]]
      BY <3>2
    <3> DEFINE f == [i \in 0 .. k |-> IF i = k THEN Base * g[k - 1] + b[k] ELSE g[i]]
    <3>4. ASSUME NEW i \in 0 .. k PROVE f[i] = IF i = 0 THEN 0 ELSE Base * f[i - 1] + b[i]
      <4>1. i # 0 => f[i - 1] = g[i - 1]
        OBVIOUS
      <4>2. CASE i = k
        BY <2>2, <4>1, <4>2
      <4>3. CASE i # k
        <5>1. i \in 0 .. k - 1 /\ f[i] = g[i]
          BY <4>3
        <5>2. g[i] = IF i = 0 THEN 0 ELSE Base * g[i - 1] + b[i]
          BY <3>3, <5>1
        <5> QED
          BY <4>1, <5>1, <5>2
      <4> QED
        BY <4>2, <4>3
    <3>5. f = [i \in 0 .. k |-> f[i]]
      OBVIOUS
    <3> HIDE DEF f
    <3>6. f = [i \in 0 .. k |-> IF i = 0 THEN 0 ELSE Base * f[i - 1] + b[i]]
      BY <3>4, <3>5
    <3>7. P(k)
      BY <3>6
    <3> HIDE DEF P
    <3> QED
      BY <3>7
  <2> QED
    BY <2>1, <2>2
<1>2. Nat \subseteq S
  <2> HIDE DEF S
  <2> QED
    BY <1>1, AllNumbers
<1>3. P(Len(b))
  <2>1. Len(b) \in Nat
    BY DEF Buffer
  <2> HIDE DEF P
  <2> QED
    BY <1>2, <2>1
<1> QED
  BY <1>3

\* The function that Value uses, for a buffer.
ValueUpTo(b) == CHOOSE f : f = [i \in 0 .. Len(b) |-> IF i = 0 THEN 0
                                                      ELSE Base * f[i - 1] + b[i]]

\* It holds of what Value takes the value from.
LEMMA ValueEquation ==
  ASSUME NEW b \in Buffer
  PROVE  /\ Value(b) = ValueUpTo(b)[Len(b)]
         /\ ValueUpTo(b)[0] = 0
         /\ \A i \in 1 .. Len(b) : ValueUpTo(b)[i] = Base * ValueUpTo(b)[i - 1] + b[i]
<1> DEFINE Q(f) == f = [i \in 0 .. Len(b) |-> IF i = 0 THEN 0 ELSE Base * f[i - 1] + b[i]]
           v == ValueUpTo(b)
<1>0. Len(b) \in Nat
  BY DEF Buffer
<1>1. \E f : Q(f)
  BY ValueExists
<1>2. v = CHOOSE f : Q(f)
  BY DEF ValueUpTo
<1>3. Q(CHOOSE f : Q(f))
  <2> HIDE DEF Q
  <2> QED
    BY <1>1
<1>4. Q(v)
  BY <1>2, <1>3
<1>5. Value(b) = (CHOOSE f : Q(f))[Len(b)]
  BY DEF Value
<1>6. v[0] = 0 /\ \A i \in 1 .. Len(b) : v[i] = Base * v[i - 1] + b[i]
  <2> HIDE DEF v
  <2>1. \A i \in 0 .. Len(b) : v[i] = IF i = 0 THEN 0 ELSE Base * v[i - 1] + b[i]
    BY <1>4
  <2> QED
    BY <1>0, <2>1
<1> QED
  BY <1>2, <1>5, <1>6

\* The value of a buffer and of what comes before its last byte.
LEMMA ValueOfAppend ==
  /\ Value(<<>>) = 0
  /\ \A b \in Buffer, d \in Byte : Value(Append(b, d)) = Base * Value(b) + d
<1>1. Value(<<>>) = 0
  <2>1. <<>> \in Buffer /\ Len(<<>>) = 0
    BY DEF Buffer
  <2> QED
    BY <2>1, ValueEquation
<1>2. ASSUME NEW b \in Buffer, NEW d \in Byte PROVE Value(Append(b, d)) = Base * Value(b) + d
  <2> DEFINE c == Append(b, d)
             N == Len(b)
             S == {i \in Nat : i <= N => ValueUpTo(c)[i] = ValueUpTo(b)[i]}
  <2>1. /\ c \in Buffer /\ N \in Nat /\ Len(c) = N + 1 /\ c[N + 1] = d
        /\ \A i \in 1 .. N : c[i] = b[i]
    BY DEF Buffer
  <2>2. /\ ValueUpTo(b)[0] = 0
        /\ \A i \in 1 .. N : ValueUpTo(b)[i] = Base * ValueUpTo(b)[i - 1] + b[i]
    BY ValueEquation
  <2> HIDE DEF c
  <2>3. /\ Value(c) = ValueUpTo(c)[N + 1]
        /\ ValueUpTo(c)[0] = 0
        /\ \A i \in 1 .. N + 1 : ValueUpTo(c)[i] = Base * ValueUpTo(c)[i - 1] + c[i]
    BY <2>1, ValueEquation
  <2> HIDE DEF N
  <2>4. ASSUME NEW i \in Nat, \A j \in Nat : j < i => j \in S PROVE i \in S
    <3>1. CASE i = 0
      BY <2>2, <2>3, <3>1
    <3>2. CASE i # 0
      <4>1. SUFFICES ASSUME i <= N PROVE ValueUpTo(c)[i] = ValueUpTo(b)[i]
        OBVIOUS
      <4>2. ValueUpTo(c)[i - 1] = ValueUpTo(b)[i - 1]
        <5>1. i - 1 \in Nat /\ i - 1 < i
          BY <3>2
        <5>2. i - 1 \in S
          BY <2>4, <5>1
        <5> QED
          BY <2>1, <4>1, <5>1, <5>2
      <4>3. i \in 1 .. N /\ i \in 1 .. N + 1
        BY <2>1, <3>2, <4>1
      <4> QED
        BY <2>1, <2>2, <2>3, <4>2, <4>3
    <3> QED
      BY <3>1, <3>2
  <2>5. Nat \subseteq S
    <3> HIDE DEF S
    <3> QED
      BY <2>4, AllNumbers
  <2>6. ValueUpTo(c)[N] = ValueUpTo(b)[N]
    BY <2>1, <2>5
  <2>7. N + 1 \in 1 .. N + 1 /\ (N + 1) - 1 = N
    BY <2>1
  <2>8. Value(b) = ValueUpTo(b)[N]
    BY ValueEquation DEF N
  <2>9. ValueUpTo(c)[N + 1] = Base * ValueUpTo(c)[(N + 1) - 1] + c[N + 1]
    BY <2>3, <2>7
  <2> QED
    BY <2>1, <2>3, <2>6, <2>7, <2>8, <2>9 DEF c
<1> QED
  BY <1>1, <1>2

\* A buffer is empty, or a buffer and its last byte.
LEMMA BufferEnds ==
  ASSUME NEW b \in Buffer, b # <<>>
  PROVE  \E c \in Buffer, d \in Byte : b = Append(c, d) /\ Len(b) = Len(c) + 1
<1> DEFINE c == [i \in 1 .. Len(b) - 1 |-> b[i]]
           d == b[Len(b)]
<1>1. Len(b) \in Nat \ {0} /\ d \in Byte
  BY DEF Buffer
<1>2. c \in Buffer /\ Len(c) = Len(b) - 1
  BY <1>1 DEF Buffer
<1>3. b = Append(c, d)
  BY <1>1 DEF Buffer
<1>4. Len(b) = Len(c) + 1
  BY <1>1, <1>2
<1> QED
  BY <1>1, <1>2, <1>3, <1>4

\* The digits of a number are bytes, the first of which is not zero, and give it back.
LEMMA ValueOfDigits ==
  ASSUME NEW n \in Nat
  PROVE  BytesOf(n) \in Buffer /\ ~ HasLeadingZero(BytesOf(n)) /\ Value(BytesOf(n)) = n
<1> DEFINE P(k) == BytesOf(k) \in Buffer /\ ~ HasLeadingZero(BytesOf(k)) /\ Value(BytesOf(k)) = k
           S == {k \in Nat : P(k)}
<1>1. ASSUME NEW k \in Nat, \A j \in Nat : j < k => j \in S PROVE k \in S
  <2>1. CASE k = 0
    <3>1. BytesOf(k) = <<>>
      BY <2>1, DigitsOf
    <3>2. <<>> \in Buffer /\ ~ HasLeadingZero(<<>>) /\ Value(<<>>) = k
      BY <2>1, ValueOfAppend DEF Buffer, HasLeadingZero
    <3> QED
      BY <3>1, <3>2
  <2>2. CASE k # 0
    <3> DEFINE q == k \div Base
               r == k % Base
               b == BytesOf(q)
    <3>1. q \in Nat /\ q < k /\ r \in Byte /\ k = Base * q + r
      BY <2>2, Division
    <3>2. q \in S
      BY <1>1, <3>1
    <3>3. BytesOf(k) = Append(b, r)
      BY <2>2, DigitsOf
    <3>4. b \in Buffer /\ ~ HasLeadingZero(b) /\ Value(b) = q
      BY <3>2
    <3>5. b = <<>> => r # 0
      <4>1. b = <<>> => q = 0
        BY <3>4, ValueOfAppend
      <4> HIDE DEF b
      <4>2. q = 0 => k = r
        BY <3>1, RlpAssumption DEF Byte
      <4> QED
        BY <2>2, <4>1, <4>2
    <3> HIDE DEF b, q, r
    <3>6. Append(b, r) \in Buffer /\ ~ HasLeadingZero(Append(b, r))
      BY <3>1, <3>4, <3>5 DEF Buffer, HasLeadingZero
    <3>7. Value(Append(b, r)) = k
      BY <3>1, <3>4, ValueOfAppend
    <3> QED
      BY <3>3, <3>6, <3>7
  <2> QED
    BY <2>1, <2>2
<1>2. Nat \subseteq S
  <2> HIDE DEF S
  <2> QED
    BY <1>1, AllNumbers
<1> QED
  BY <1>2

\* A buffer whose first byte is not zero is the digits of its value.
LEMMA DigitsOfValue ==
  ASSUME NEW b \in Buffer
  PROVE  Value(b) \in Nat /\ (~ HasLeadingZero(b) => BytesOf(Value(b)) = b)
<1> DEFINE P(c) == Value(c) \in Nat /\ (~ HasLeadingZero(c) => BytesOf(Value(c)) = c)
           S == {k \in Nat : \A c \in Buffer : Len(c) = k => P(c)}
<1>1. ASSUME NEW k \in Nat, \A j \in Nat : j < k => j \in S PROVE k \in S
  <2>1. SUFFICES ASSUME NEW c \in Buffer, Len(c) = k PROVE P(c)
    OBVIOUS
  <2>2. CASE c = <<>>
    <3>1. 0 \in Nat /\ BytesOf(0) = <<>>
      BY DigitsOf
    <3> QED
      BY <2>2, <3>1, ValueOfAppend
  <2>3. CASE c # <<>>
    <3>1. PICK e \in Buffer, d \in Byte : c = Append(e, d) /\ Len(c) = Len(e) + 1
      BY <2>3, BufferEnds
    <3>2. P(e)
      <4>1. Len(e) \in Nat /\ Len(e) < k
        BY <2>1, <3>1 DEF Buffer
      <4>2. Len(e) \in S
        BY <1>1, <4>1
      <4> QED
        BY <4>2
    <3> DEFINE v == Value(e)
    <3>3. Value(c) = Base * v + d
      BY <3>1, ValueOfAppend
    <3>4. v \in Nat /\ d \in Nat /\ Base \in Nat
      BY <3>2, RlpAssumption DEF Byte
    <3>5. Value(c) \in Nat
      <4> HIDE DEF v
      <4> QED
        BY <3>3, <3>4
    <3>6. ASSUME ~ HasLeadingZero(c) PROVE BytesOf(Value(c)) = c
      <4>1. ~ HasLeadingZero(e)
        BY <3>1, <3>6 DEF HasLeadingZero, Buffer
      <4>2. BytesOf(v) = e
        BY <3>2, <4>1
      <4>3. e = <<>> => d # 0
        BY <3>1, <3>6 DEF HasLeadingZero, Buffer
      <4>4. v = 0 => e = <<>>
        BY <4>2, DigitsOf
      <4> HIDE DEF v
      <4>5. Value(c) # 0
        <5>1. v # 0 => Base * v >= Base
          BY <3>4
        <5> QED
          BY <3>3, <3>4, <4>3, <4>4, <5>1, RlpAssumption
      <4>6. BytesOf(Value(c)) = Append(BytesOf(Value(c) \div Base), Value(c) % Base)
        BY <3>5, <4>5, DigitsOf
      <4>7. Value(c) \div Base = v /\ Value(c) % Base = d
        BY <3>3, <3>4, DivisionIsUnique
      <4> QED
        BY <3>1, <4>2, <4>6, <4>7
    <3> QED
      BY <3>5, <3>6
  <2> QED
    BY <2>2, <2>3
<1>2. Nat \subseteq S
  <2> HIDE DEF S
  <2> QED
    BY <1>1, AllNumbers
<1>3. Len(b) \in S
  BY <1>2 DEF Buffer
<1> QED
  BY <1>3

-----------------------------------------------------------------------------
(***************************************************************************)
(* The kinds of fields, there and back.                                    *)
(***************************************************************************)
\* Of numbers up to a length, the largest that satisfies something.
LEMMA Largest ==
  ASSUME NEW n \in Nat, NEW T \in SUBSET (1 .. n), T # {}
  PROVE  \E p \in T : \A i \in T : i <= p
<1> DEFINE D == {n - i : i \in T}
<1>1. D \in SUBSET Nat /\ D # {}
  <2>1. \A i \in T : n - i \in Nat
    OBVIOUS
  <2> QED
    BY <2>1
<1>2. PICK d \in D : \A e \in D : d <= e
  <2> HIDE DEF D
  <2> QED
    BY <1>1, LeastNumber
<1>3. PICK p \in T : d = n - p
  OBVIOUS
<1>4. \A i \in T : n - p <= n - i
  BY <1>2, <1>3
<1>5. \A i \in T : i <= p
  <2> TAKE i \in T
  <2>1. i \in Nat /\ p \in Nat /\ n - p <= n - i
    BY <1>4
  <2> QED
    BY <2>1
<1> QED
  BY <1>5

\* The significant bytes of a buffer are all from the first that is not zero.
LEMMA SignificantBytes ==
  ASSUME NEW b \in Buffer
  PROVE  \/ /\ \A i \in DOMAIN b : b[i] = 0
            /\ Cardinality({i \in DOMAIN b : \E j \in 1 .. i : b[j] # 0}) = 0
         \/ \E p \in DOMAIN b :
              /\ b[p] # 0 /\ \A i \in 1 .. p - 1 : b[i] = 0
              /\ Cardinality({i \in DOMAIN b : \E j \in 1 .. i : b[j] # 0}) = Len(b) - p + 1
<1> DEFINE N == Len(b)
           T == {i \in 1 .. N : b[i] # 0}
           significant == {i \in DOMAIN b : \E j \in 1 .. i : b[j] # 0}
<1>1. N \in Nat /\ DOMAIN b = 1 .. N
  BY DEF Buffer
<1>2. CASE T = {}
  <2>1. \A i \in DOMAIN b : b[i] = 0
    BY <1>1, <1>2
  <2>2. significant = {}
    BY <1>1, <2>1
  <2> QED
    BY <2>1, <2>2, FS_EmptySet
<1>3. CASE T # {}
  <2>1. PICK p \in T : \A i \in T : p <= i
    <3>1. T \in SUBSET Nat
      BY <1>1
    <3> HIDE DEF T
    <3> QED
      BY <1>3, <3>1, LeastNumber
  <2>2. p \in 1 .. N /\ b[p] # 0 /\ \A i \in 1 .. p - 1 : b[i] = 0
    BY <1>1, <2>1
  <2>3. significant = p .. N
    BY <1>1, <2>2
  <2>4. Cardinality(p .. N) = N - p + 1
    BY <1>1, <2>2, FS_Interval
  <2> QED
    BY <1>1, <2>2, <2>3, <2>4
<1> QED
  BY <1>2, <1>3

\* A hexadecimal string is packed into bytes, with a prefix, with what is taken for
\* it, or into none.
LEMMA HexBlobIsBuffer ==
  ASSUME NEW h \in Hex
  PROVE  HexBlobData(h) \in Buffer /\ h.rest \in Buffer
<1>1. h.rest \in Buffer
  BY DEF Hex
<1>2. <<>> \in Buffer
  BY DEF Buffer
<1> QED
  BY <1>1, <1>2 DEF HexBlobData

\* Bytes are unpacked to a string that packs to them.
LEMMA HexBlobIsHex ==
  ASSUME NEW b \in Buffer
  PROVE  /\ HexBlobBuffer(b) \in Hex /\ HexBlobBuffer(b).head = "0x"
         /\ HexBlobBuffer(b).rest = b /\ HexBlobData(HexBlobBuffer(b)) = b
BY DEF HexBlobBuffer, HexBlobData, Hex, Heads, Prefixes

\* What is packed of a string with a prefix and no sign is read as that string.
LEMMA HexBlobReadBack ==
  ASSUME NEW h \in Hex, h.head = "0x"
  PROVE  HexBlobBuffer(HexBlobData(h)) = h
<1>1. h = [head |-> h.head, rest |-> h.rest]
  BY DEF Hex
<1>2. HexBlobData(h) = h.rest
  BY DEF HexBlobData
<1> QED
  BY <1>1, <1>2 DEF HexBlobBuffer

\* A buffer that is packed compactly comes back without the zeros put before it.
LEMMA CompactRoundTrip ==
  ASSUME NEW w \in Nat, NEW b \in Buffer, CompactBufferOk(b, w)
  PROVE  /\ CompactBuffer(b, w) \in Hex
         /\ CompactBuffer(b, w).head = "0x" /\ Len(CompactBuffer(b, w).rest) = w
         /\ CompactData(CompactBuffer(b, w)) = b
<1> DEFINE N == Len(b)
           zeros == [i \in 1 .. w - N |-> 0]
           c == zeros \o b
           significant == {i \in DOMAIN c : \E j \in 1 .. i : c[j] # 0}
<1>1. N \in Nat /\ N <= w /\ b \in Seq(Byte) /\ 0 \in Byte
  BY RlpAssumption DEF Buffer, CompactBufferOk, Byte
<1>2. zeros \in Seq(Byte) /\ Len(zeros) = w - N
  BY <1>1
<1>3. /\ c \in Seq(Byte) /\ Len(c) = w
      /\ \A i \in 1 .. w : c[i] = IF i <= w - N THEN 0 ELSE b[i - (w - N)]
  <2> HIDE DEF zeros
  <2>1. c \in Seq(Byte) /\ Len(c) = w
    BY <1>1, <1>2
  <2>2. ASSUME NEW i \in 1 .. w PROVE c[i] = IF i <= w - N THEN 0 ELSE b[i - (w - N)]
    <3>1. i <= w - N => zeros[i] = 0
      BY <1>1 DEF zeros
    <3> QED
      BY <1>1, <1>2, <3>1
  <2> QED
    BY <2>1, <2>2
<1>4. CompactBuffer(b, w) = [head |-> "0x", rest |-> c]
  BY DEF CompactBuffer, HexBlobBuffer
<1>5. CompactBuffer(b, w) \in Hex
  <2> HIDE DEF c
  <2> QED
    BY <1>3, <1>4, HexBlobIsHex DEF HexBlobBuffer, Buffer
<1>6. HexBlobData(CompactBuffer(b, w)) = c
  <2> HIDE DEF c
  <2> QED
    BY <1>4 DEF HexBlobData
<1>7. Cardinality(significant) = N
  <2>1. CASE N = 0
    <3>1. \A i \in DOMAIN c : c[i] = 0
      <4> HIDE DEF c
      <4> QED
        BY <1>1, <1>3, <2>1
    <3>2. \A i \in DOMAIN c : 1 .. i \subseteq DOMAIN c
      <4> HIDE DEF c
      <4> QED
        BY <1>1, <1>3
    <3> HIDE DEF c
    <3>3. significant = {}
      BY <3>1, <3>2
    <3> QED
      BY <2>1, <3>3, FS_EmptySet
  <2>2. CASE N # 0
    <3> HIDE DEF c
    <3>1. b # <<>> /\ b[1] # 0
      BY <1>1, <2>2 DEF CompactBufferOk, HasLeadingZero
    <3>2. c[w - N + 1] # 0 /\ w - N + 1 \in 1 .. w
      BY <1>1, <1>3, <2>2, <3>1
    <3>3. DOMAIN c = 1 .. w
      BY <1>1, <1>3
    <3>4. \A i \in 1 .. w - N : c[i] = 0
      BY <1>1, <1>3
    <3>5. significant = w - N + 1 .. w
      BY <1>1, <3>2, <3>3, <3>4
    <3>6. Cardinality(w - N + 1 .. w) = N
      BY <1>1, <2>2, FS_Interval
    <3> QED
      BY <3>5, <3>6
  <2> QED
    BY <2>1, <2>2
<1>8. CompactData(CompactBuffer(b, w)) = SubSeq(c, w + 1 - N, w)
  <2>1. CompactData(CompactBuffer(b, w))
          = SubSeq(c, Len(c) + 1 - Cardinality(significant), Len(c))
    <3> HIDE DEF c
    <3> QED
      BY <1>6 DEF CompactData
  <2> HIDE DEF c, significant
  <2> QED
    BY <1>3, <1>7, <2>1
<1>9. SubSeq(c, w + 1 - N, w) = b
  <2> HIDE DEF c
  <2> DEFINE d == SubSeq(c, w + 1 - N, w)
  <2>1. /\ d \in Seq(Byte) /\ Len(d) = N
        /\ \A i \in 1 .. N : d[i] = c[w + 1 - N + i - 1]
    BY <1>1, <1>3
  <2>2. \A i \in 1 .. N : d[i] = b[i]
    <3> TAKE i \in 1 .. N
    <3>1. w + 1 - N + i - 1 \in 1 .. w /\ ~ (w + 1 - N + i - 1 <= w - N)
      BY <1>1
    <3>2. (w + 1 - N + i - 1) - (w - N) = i
      BY <1>1
    <3>3. d[i] = c[w + 1 - N + i - 1]
      BY <2>1
    <3> HIDE DEF d
    <3> QED
      BY <1>3, <3>1, <3>2, <3>3
  <2> HIDE DEF d
  <2> QED
    BY <1>1, <2>1, <2>2
<1>10. CompactBuffer(b, w).head = "0x"
  BY DEF CompactBuffer, HexBlobBuffer
<1>11. Len(CompactBuffer(b, w).rest) = w
  <2> HIDE DEF c
  <2>1. CompactBuffer(b, w).rest = c
    BY <1>4
  <2> QED
    BY <1>3, <2>1
<1> QED
  BY <1>5, <1>8, <1>9, <1>10, <1>11

\* What is packed compactly fits where it came from, and the profile takes it.
LEMMA CompactFits ==
  ASSUME NEW h \in Hex
  PROVE  /\ CompactData(h) \in Buffer
         /\ CompactBufferOk(CompactData(h), Len(HexBlobData(h)))
<1> DEFINE b == HexBlobData(h)
           N == Len(b)
           significant == {i \in DOMAIN b : \E j \in 1 .. i : b[j] # 0}
           first == N + 1 - Cardinality(significant)
<1>1. b \in Seq(Byte) /\ N \in Nat
  BY HexBlobIsBuffer DEF Buffer
<1>2. CompactData(h) = SubSeq(b, first, N)
  BY DEF CompactData
<1>3. \/ Cardinality(significant) = 0
      \/ \E p \in DOMAIN b : b[p] # 0 /\ Cardinality(significant) = N - p + 1
  <2> HIDE DEF b
  <2> QED
    BY <1>1, SignificantBytes DEF Buffer
<1> HIDE DEF b, significant
<1>4. CASE Cardinality(significant) = 0
  <2>1. first = N + 1
    BY <1>1, <1>4
  <2>2. SubSeq(b, first, N) = <<>>
    BY <1>1, <2>1
  <2>3. CompactData(h) = <<>>
    BY <1>2, <2>2
  <2>4. <<>> \in Buffer /\ CompactBufferOk(<<>>, N)
    BY <1>1 DEF CompactBufferOk, HasLeadingZero, Buffer
  <2> QED
    BY <2>3, <2>4 DEF b
<1>5. CASE \E p \in DOMAIN b : b[p] # 0 /\ Cardinality(significant) = N - p + 1
  <2>1. PICK p \in 1 .. N : b[p] # 0 /\ Cardinality(significant) = N - p + 1
    BY <1>1, <1>5
  <2>2. first = p
    BY <1>1, <2>1
  <2> DEFINE d == SubSeq(b, p, N)
  <2>3. d \in Seq(Byte) /\ Len(d) = N - p + 1 /\ d[1] = b[p]
    BY <1>1, <2>1
  <2>4. CompactData(h) = d
    BY <1>2, <2>2
  <2> HIDE DEF d
  <2>5. Len(d) <= N /\ d[1] # 0
    BY <1>1, <2>1, <2>3
  <2>6. d \in Buffer /\ CompactBufferOk(d, N)
    BY <2>3, <2>5 DEF CompactBufferOk, HasLeadingZero, Buffer
  <2> QED
    BY <2>4, <2>6 DEF b
<1> QED
  BY <1>3, <1>4, <1>5

\* The second of two sequences put together.
LEMMA SecondPart ==
  ASSUME NEW S, NEW x \in Seq(S), NEW y \in Seq(S), NEW i \in Nat,
         i > Len(x), i <= Len(x) + Len(y)
  PROVE  (x \o y)[i] = y[i - Len(x)]
OBVIOUS

\* What is packed compactly is read as it was given: the zeros are put back.
LEMMA CompactReadBack ==
  ASSUME NEW h \in Hex, NEW w \in Nat, h.head = "0x", Len(h.rest) = w
  PROVE  CompactBuffer(CompactData(h), w) = h
<1> DEFINE b == h.rest
           k == Cardinality({i \in DOMAIN b : \E j \in 1 .. i : b[j] # 0})
           d == SubSeq(b, w + 1 - k, w)
           zeros == [i \in 1 .. w - k |-> 0]
           c == zeros \o d
<1>1. b \in Buffer /\ b \in Seq(Byte) /\ Len(b) = w /\ DOMAIN b = 1 .. w /\ 0 \in Byte
  BY HexBlobIsBuffer, RlpAssumption DEF Buffer, Byte
<1>2. HexBlobData(h) = b
  BY DEF HexBlobData
<1>3. CompactData(h) = d
  BY <1>1, <1>2 DEF CompactData
<1>4. \/ (\A i \in DOMAIN b : b[i] = 0) /\ k = 0
      \/ \E p \in DOMAIN b : k = w - p + 1 /\ \A i \in 1 .. p - 1 : b[i] = 0
  <2> HIDE DEF b
  <2> QED
    BY <1>1, SignificantBytes
<1> HIDE DEF b, k
<1>5. k \in 0 .. w /\ \A i \in 1 .. w - k : b[i] = 0
  BY <1>1, <1>4
<1>6. d \in Seq(Byte) /\ Len(d) = k /\ \A i \in 1 .. k : d[i] = b[w - k + i]
  <2>1. d \in Seq(Byte) /\ Len(d) = k
    BY <1>1, <1>5
  <2>2. ASSUME NEW i \in 1 .. k PROVE d[i] = b[w - k + i]
    <3>1. d[i] = b[w + 1 - k + i - 1] /\ w + 1 - k + i - 1 = w - k + i
      BY <1>1, <1>5
    <3> HIDE DEF d
    <3> QED
      BY <3>1
  <2> QED
    BY <2>1, <2>2
<1>7. zeros \in Seq(Byte) /\ Len(zeros) = w - k
  BY <1>1, <1>5
<1> HIDE DEF d
<1>8. c \in Seq(Byte) /\ Len(c) = w
  <2> HIDE DEF zeros
  <2>1. c \in Seq(Byte) /\ Len(c) = (w - k) + k
    BY <1>6, <1>7
  <2> QED
    BY <1>5, <2>1
<1>9. ASSUME NEW i \in 1 .. w PROVE c[i] = b[i]
  <2>1. CASE i <= w - k
    <3>1. zeros[i] = 0 /\ b[i] = 0
      BY <1>5, <2>1
    <3> HIDE DEF zeros
    <3> QED
      BY <1>5, <1>6, <1>7, <2>1, <3>1
  <2>2. CASE ~ (i <= w - k)
    <3>1. i - (w - k) \in 1 .. k /\ w - k + (i - (w - k)) = i
      BY <1>5, <2>2
    <3>2. c[i] = d[i - (w - k)]
      <4> HIDE DEF zeros
      <4>1. i \in Nat /\ i > Len(zeros) /\ i <= Len(zeros) + Len(d)
        BY <1>5, <1>6, <1>7, <2>2
      <4>2. c[i] = d[i - Len(zeros)]
        BY <1>6, <1>7, <4>1, SecondPart
      <4> QED
        BY <1>7, <4>2
    <3> QED
      BY <1>6, <3>1, <3>2
  <2> QED
    BY <2>1, <2>2
<1>10. CompactBuffer(d, w) = HexBlobBuffer(c)
  BY <1>6 DEF CompactBuffer
<1> HIDE DEF c
<1>11. c = b
  BY <1>1, <1>8, <1>9
<1> QED
  BY <1>2, <1>3, <1>10, <1>11, HexBlobReadBack

\* An optional field, there and back.
LEMMA OptionalRoundTrip ==
  ASSUME NEW b \in Buffer
  PROVE  OptionalBuffer(b) \in Hex \union {Null} /\ OptionalData(OptionalBuffer(b)) = b
<1>1. HexBlobBuffer(b) \in Hex /\ HexBlobData(HexBlobBuffer(b)) = b
  BY HexBlobIsHex
<1>2. Null \notin Hex
  BY NullAssumption
<1>3. CASE b = <<>>
  BY <1>3 DEF OptionalBuffer, OptionalData
<1>4. CASE b # <<>>
  BY <1>1, <1>2, <1>4 DEF OptionalBuffer, OptionalData
<1> QED
  BY <1>3, <1>4

\* What is left of a list ends in a buffer that is not empty; what is gone is empty.
LEMMA TrimmedList ==
  ASSUME NEW list \in Seq(Buffer)
  PROVE  \E m \in 0 .. Len(list) :
           /\ Trimmed(list) = SubSeq(list, 1, m)
           /\ m # 0 => list[m] # <<>>
           /\ \A i \in m + 1 .. Len(list) : list[i] = <<>>
<1> DEFINE N == Len(list)
           T == {i \in 1 .. N : list[i] # <<>>}
           kept == {i \in DOMAIN list : \E j \in i .. N : list[j] # <<>>}
<1>1. N \in Nat /\ DOMAIN list = 1 .. N
  OBVIOUS
<1>2. CASE T = {}
  <2>1. kept = {}
    BY <1>1, <1>2
  <2>2. Cardinality(kept) = 0
    BY <2>1, FS_EmptySet
  <2>3. \A i \in 0 + 1 .. N : list[i] = <<>>
    BY <1>1, <1>2
  <2>4. 0 \in 0 .. N
    BY <1>1
  <2> QED
    BY <2>2, <2>3, <2>4 DEF Trimmed
<1>3. CASE T # {}
  <2>1. PICK m \in T : \A i \in T : i <= m
    <3>1. T \in SUBSET (1 .. N)
      OBVIOUS
    <3> HIDE DEF T
    <3> QED
      BY <1>1, <1>3, <3>1, Largest
  <2>2. m \in 1 .. N /\ list[m] # <<>> /\ \A i \in m + 1 .. N : list[i] = <<>>
    BY <1>1, <2>1
  <2>3. kept = 1 .. m
    BY <1>1, <2>2
  <2>4. Cardinality(1 .. m) = m
    BY <1>1, <2>2, FS_Interval
  <2>5. Trimmed(list) = SubSeq(list, 1, m)
    BY <2>3, <2>4 DEF Trimmed
  <2>6. m \in 0 .. N
    BY <1>1, <2>2
  <2> QED
    BY <2>2, <2>5, <2>6
<1> QED
  BY <1>2, <1>3

\* A number that is unpacked, and packed again if its first byte was not zero.
LEMMA NumericRoundTrip ==
  ASSUME NEW b \in Buffer
  PROVE  /\ NumericBuffer(b) \in Numeric /\ NumericBuffer(b).n = Value(b) /\ Value(b) \in Nat
         /\ ~ HasLeadingZero(b) => NumericData(NumericBuffer(b)) = b
<1>1. Value(b) \in Nat /\ (~ HasLeadingZero(b) => BytesOf(Value(b)) = b)
  BY DigitsOfValue
<1>2. NumericBuffer(b) \in Numeric
  BY <1>1 DEF NumericBuffer, Numeric
<1>3. NumericBuffer(b).n = Value(b)
  BY DEF NumericBuffer
<1> QED
  BY <1>1, <1>2, <1>3 DEF NumericData

\* What packs a number is taken back, with the number.
LEMMA NumericTaken ==
  ASSUME NEW d \in Numeric, NEW w \in Nat, NumericOk(d, w)
  PROVE  /\ NumericData(d) \in Buffer
         /\ NumericBufferOk(NumericData(d), w)
         /\ NumericBuffer(NumericData(d)) \in Numeric
         /\ NumericBuffer(NumericData(d)).n = d.n
<1>1. d.n \in Nat /\ Len(BytesOf(d.n)) <= w
  BY DEF Numeric, NumericOk
<1>2. BytesOf(d.n) \in Buffer /\ ~ HasLeadingZero(BytesOf(d.n)) /\ Value(BytesOf(d.n)) = d.n
  BY <1>1, ValueOfDigits
<1>3. /\ NumericBuffer(BytesOf(d.n)) \in Numeric
      /\ NumericBuffer(BytesOf(d.n)).n = d.n
  BY <1>2, NumericRoundTrip
<1> QED
  BY <1>1, <1>2, <1>3 DEF NumericData, NumericBufferOk

\* What is unpacked can be packed.
LEMMA NumericUnpacked ==
  ASSUME NEW b \in Buffer, NEW w \in Nat, NumericBufferOk(b, w)
  PROVE  NumericOk(NumericBuffer(b), w)
<1>1. Value(b) \in Nat /\ BytesOf(Value(b)) = b
  BY DigitsOfValue DEF NumericBufferOk
<1>2. NumericBuffer(b).n = Value(b) /\ (NumericBuffer(b).text <=> Value(b) > MaxSafe)
  BY DEF NumericBuffer
<1>3. ~ NumericBuffer(b).text => NumericBuffer(b).n <= MaxSafe
  <2>1. ~ (Value(b) > MaxSafe) => Value(b) <= MaxSafe
    BY <1>1, RlpAssumption
  <2> QED
    BY <1>2, <2>1
<1>4. Len(b) <= w
  BY DEF NumericBufferOk
<1>5. NumericBuffer(b).n >= 0
  BY <1>1, <1>2
<1>6. Len(BytesOf(NumericBuffer(b).n)) <= w
  BY <1>1, <1>2, <1>4
<1> QED
  BY <1>3, <1>5, <1>6 DEF NumericOk

-----------------------------------------------------------------------------
\* The reserved field, from a list to its values and back.
LEMMA ReservedRoundTrip ==
  ASSUME NEW list \in Seq(Buffer), ReservedOk(list)
  PROVE  /\ DecodedFeatures(list) \in Numeric
         /\ NumericOk(DecodedFeatures(list), Width.features)
         /\ SubSeq(list, 2, Len(list)) \in Seq(Buffer)
         /\ Trimmed(<<NumericData(DecodedFeatures(list))>> \o SubSeq(list, 2, Len(list))) = list
<1> DEFINE first == IF list = <<>> THEN <<>> ELSE list[1]
           rest == SubSeq(list, 2, Len(list))
           long == <<first>> \o rest
<1>1. first \in Buffer /\ NumericBufferOk(first, Width.features) /\ Width.features \in Nat
  <2>1. Width.features \in Nat
    BY SignedTransactionsAssumption
  <2>2. <<>> \in Buffer /\ NumericBufferOk(<<>>, Width.features)
    BY <2>1 DEF Buffer, NumericBufferOk, HasLeadingZero
  <2>3. list # <<>> => list[1] \in Buffer /\ NumericBufferOk(list[1], Width.features)
    BY DEF ReservedOk
  <2> QED
    BY <2>1, <2>2, <2>3
<1>2. DecodedFeatures(list) = NumericBuffer(first)
  BY DEF DecodedFeatures
<1>3. rest \in Seq(Buffer) /\ Len(rest) = IF list = <<>> THEN 0 ELSE Len(list) - 1
  BY DEF Buffer
<1>4. NumericData(DecodedFeatures(list)) = first
  <2> HIDE DEF first
  <2> QED
    BY <1>1, <1>2, NumericRoundTrip DEF NumericBufferOk
<1>5. Trimmed(long) = list
  <2>1. <<first>> \in Seq(Buffer) /\ <<first>>[1] = first /\ Len(<<first>>) = 1
    <3> HIDE DEF first
    <3> QED
      BY <1>1
  <2>2. long \in Seq(Buffer) /\ Len(long) = 1 + Len(rest) /\ long[1] = first
    <3> HIDE DEF first, rest
    <3> QED
      BY <1>3, <2>1
  <2>3. PICK m \in 0 .. Len(long) :
          /\ Trimmed(long) = SubSeq(long, 1, m)
          /\ m # 0 => long[m] # <<>>
          /\ \A i \in m + 1 .. Len(long) : long[i] = <<>>
    <3> HIDE DEF long
    <3> QED
      BY <2>2, TrimmedList
  <2>4. CASE list = <<>>
    <3>1. Len(long) = 1 /\ long[1] = <<>>
      BY <1>3, <2>2, <2>4
    <3>2. m = 0
      <4> HIDE DEF long
      <4> QED
        BY <2>3, <3>1
    <3>3. SubSeq(long, 1, 0) = <<>>
      <4> HIDE DEF long
      <4> QED
        BY <2>2
    <3> QED
      BY <2>3, <2>4, <3>2, <3>3
  <2>5. CASE list # <<>>
    <3>1. Len(list) \in Nat \ {0} /\ list[Len(list)] # <<>>
      BY <2>5 DEF ReservedOk
    <3>2. long = list
      <4>1. Len(long) = Len(list)
        BY <1>3, <2>2, <2>5, <3>1
      <4>2. ASSUME NEW i \in 1 .. Len(list) PROVE long[i] = list[i]
        <5>1. CASE i = 1
          BY <2>2, <2>5, <5>1
        <5>2. CASE i # 1
          <6>1. long[i] = rest[i - 1] /\ i - 1 \in 1 .. Len(rest)
            <7> HIDE DEF first, rest
            <7> QED
              BY <1>3, <2>1, <2>5, <3>1, <5>2
          <6>2. rest[i - 1] = list[i]
            BY <2>5, <3>1, <5>2
          <6> QED
            BY <6>1, <6>2
        <5> QED
          BY <5>1, <5>2
      <4> HIDE DEF long
      <4> QED
        BY <2>2, <3>1, <4>1, <4>2
    <3> HIDE DEF long
    <3>3. m = Len(list)
      <4>1. ASSUME m # Len(list) PROVE FALSE
        <5>1. Len(list) \in m + 1 .. Len(long)
          BY <2>3, <3>1, <3>2, <4>1
        <5> QED
          BY <2>3, <3>1, <3>2, <5>1
      <4> QED
        BY <4>1
    <3>4. SubSeq(list, 1, Len(list)) = list
      BY <3>1
    <3> QED
      BY <2>3, <3>2, <3>3, <3>4
  <2> QED
    BY <2>4, <2>5
<1>6. DecodedFeatures(list) \in Numeric /\ NumericOk(DecodedFeatures(list), Width.features)
  <2> HIDE DEF first
  <2> QED
    BY <1>1, <1>2, NumericRoundTrip, NumericUnpacked
<1> QED
  BY <1>3, <1>4, <1>5, <1>6

\* The reserved field of a body is taken back, with its features.
LEMMA ReservedTaken ==
  ASSUME NEW features \in Numeric, NEW unused \in Seq(Buffer),
         NumericOk(features, Width.features)
  PROVE  LET list == Trimmed(<<NumericData(features)>> \o unused)
         IN  /\ list \in Seq(Buffer)
             /\ ReservedOk(list)
             /\ DecodedFeatures(list).n = features.n
             /\ SubSeq(list, 2, Len(list)) = Trimmed(unused)
<1> DEFINE first == NumericData(features)
           long == <<first>> \o unused
<1>0. Width.features \in Nat
  BY SignedTransactionsAssumption
<1>1. first \in Buffer /\ NumericBufferOk(first, Width.features)
      /\ NumericBuffer(first).n = features.n
  BY <1>0, NumericTaken
<1> HIDE DEF first
<1>2. long \in Seq(Buffer) /\ Len(long) \in Nat /\ Len(long) >= 1 /\ long[1] = first
  BY <1>1
<1> HIDE DEF long
<1>3. PICK m \in 0 .. Len(long) :
        /\ Trimmed(long) = SubSeq(long, 1, m)
        /\ m # 0 => long[m] # <<>>
        /\ \A i \in m + 1 .. Len(long) : long[i] = <<>>
  BY <1>2, TrimmedList
<1>6. /\ Len(long) = Len(unused) + 1 /\ Len(unused) \in Nat
      /\ \A i \in 1 .. Len(unused) : long[i + 1] = unused[i]
  BY <1>1 DEF long
<1>7. PICK k \in 0 .. Len(unused) :
        /\ Trimmed(unused) = SubSeq(unused, 1, k)
        /\ k # 0 => unused[k] # <<>>
        /\ \A i \in k + 1 .. Len(unused) : unused[i] = <<>>
  BY TrimmedList
<1>8. k = IF m = 0 THEN 0 ELSE m - 1
  <2>1. k # 0 => long[k + 1] # <<>> /\ k + 1 \in 1 .. Len(long)
    BY <1>6, <1>7
  <2>2. k # 0 => k + 1 <= m
    BY <1>3, <1>6, <2>1
  <2>3. m > 1 => unused[m - 1] # <<>> /\ m - 1 \in 1 .. Len(unused)
    <3>1. ASSUME m > 1 PROVE unused[m - 1] # <<>> /\ m - 1 \in 1 .. Len(unused)
      <4>1. m - 1 \in 1 .. Len(unused) /\ (m - 1) + 1 = m
        BY <1>6, <3>1
      <4> QED
        BY <1>3, <1>6, <3>1, <4>1
    <3> QED
      BY <3>1
  <2>4. m > 1 => m - 1 <= k
    BY <1>6, <1>7, <2>3
  <2> QED
    BY <1>2, <1>7, <2>2, <2>4
<1>4. CASE m = 0
  <2>1. Trimmed(long) = <<>>
    BY <1>2, <1>3, <1>4
  <2>2. first = <<>>
    BY <1>2, <1>3, <1>4
  <2>3. <<>> \in Seq(Buffer) /\ ReservedOk(<<>>)
    BY DEF ReservedOk
  <2>4. DecodedFeatures(<<>>) = NumericBuffer(first)
    BY <2>2 DEF DecodedFeatures
  <2>5. Trimmed(unused) = <<>> /\ SubSeq(<<>>, 2, Len(<<>>)) = <<>>
    BY <1>4, <1>7, <1>8
  <2> QED
    BY <1>1, <2>1, <2>3, <2>4, <2>5 DEF long, first
<1>5. CASE m # 0
  <2> DEFINE list == SubSeq(long, 1, m)
  <2>1. list \in Seq(Buffer) /\ Len(list) = m /\ list[1] = first /\ list[m] = long[m]
    BY <1>2, <1>3, <1>5
  <2>2. list # <<>> /\ list[Len(list)] # <<>>
    <3> HIDE DEF list
    <3> QED
      BY <1>3, <1>5, <2>1
  <2> HIDE DEF list
  <2>3. ReservedOk(list)
    BY <1>1, <2>1, <2>2 DEF ReservedOk
  <2>4. DecodedFeatures(list) = NumericBuffer(first)
    BY <2>1, <2>2 DEF DecodedFeatures
  <2>5. Trimmed(long) = list
    BY <1>3 DEF list
  <2>6. SubSeq(list, 2, Len(list)) = Trimmed(unused)
    <3> DEFINE x == SubSeq(list, 2, m)
               y == SubSeq(unused, 1, m - 1)
    <3>1. \A i \in 1 .. m : list[i] = long[i]
      BY <1>2, <1>3 DEF list
    <3>2. /\ x \in Seq(Buffer) /\ Len(x) = m - 1
          /\ \A i \in 1 .. m - 1 : x[i] = list[2 + i - 1] /\ 2 + i - 1 = i + 1
      BY <1>5, <2>1
    <3>3. /\ y \in Seq(Buffer) /\ Len(y) = m - 1
          /\ \A i \in 1 .. m - 1 : y[i] = unused[1 + i - 1] /\ 1 + i - 1 = i
      BY <1>3, <1>5, <1>6
    <3> HIDE DEF x, y
    <3>4. \A i \in 1 .. m - 1 : x[i] = y[i]
      BY <1>3, <1>5, <1>6, <3>1, <3>2, <3>3
    <3>5. x = y
      BY <3>2, <3>3, <3>4
    <3>6. Trimmed(unused) = y
      BY <1>5, <1>7, <1>8 DEF y
    <3> QED
      BY <2>1, <3>5, <3>6 DEF x
  <2> QED
    BY <1>1, <2>1, <2>3, <2>4, <2>5, <2>6 DEF long, first
<1> QED
  BY <1>4, <1>5

\* A field of a width, packed, is that many bytes, or none if it is negative.
LEMMA FixedData ==
  ASSUME NEW h \in Hex, NEW w \in Nat, FixedOk(h, w)
  PROVE  Len(HexBlobData(h)) = IF h.head = "-0x" THEN 0 ELSE w
<1>1. Len(h.rest) = w
  BY DEF FixedOk
<1> QED
  BY <1>1 DEF HexBlobData

\* An optional field is taken back, and is the same if it is well formed.
LEMMA OptionalTaken ==
  ASSUME NEW h \in Hex \union {Null}, NEW w \in Nat \ {0}, OptionalOk(h, w)
  PROVE  /\ OptionalData(h) \in Buffer /\ OptionalBufferOk(OptionalData(h), w)
         /\ SameHex(h, OptionalBuffer(OptionalData(h)))
<1>1. CASE h = Null
  <2>1. OptionalData(h) = <<>> /\ OptionalBuffer(<<>>) = Null
    BY <1>1 DEF OptionalData, OptionalBuffer
  <2>2. <<>> \in Buffer /\ OptionalBufferOk(<<>>, w)
    BY DEF OptionalBufferOk, Buffer
  <2> QED
    BY <1>1, <2>1, <2>2 DEF SameHex
<1>2. CASE h # Null
  <2>1. h \in Hex /\ FixedOk(h, w)
    BY <1>2 DEF OptionalOk
  <2>2. OptionalData(h) = HexBlobData(h)
    BY <1>2 DEF OptionalData
  <2>3. HexBlobData(h) \in Buffer /\ Len(HexBlobData(h)) \in {0, w}
    BY <2>1, HexBlobIsBuffer, FixedData
  <2>4. ASSUME h.head = "0x" PROVE OptionalBuffer(HexBlobData(h)) = h
    <3>1. Len(HexBlobData(h)) = w
      BY <2>1, <2>4, FixedData
    <3>2. HexBlobData(h) # <<>>
      BY <3>1
    <3> QED
      BY <2>1, <2>4, <3>2, HexBlobReadBack DEF OptionalBuffer
  <2> QED
    BY <1>2, <2>2, <2>3, <2>4 DEF OptionalBufferOk, SameHex
<1> QED
  BY <1>1, <1>2

\* What is unpacked of an optional field can be packed.
LEMMA OptionalUnpacked ==
  ASSUME NEW b \in Buffer, NEW w, OptionalBufferOk(b, w)
  PROVE  OptionalOk(OptionalBuffer(b), w)
<1>1. CASE b = <<>>
  BY <1>1 DEF OptionalBuffer, OptionalOk
<1>2. CASE b # <<>>
  <2>1. Len(b) = w
    BY <1>2 DEF OptionalBufferOk, Buffer
  <2>2. HexBlobBuffer(b).rest = b /\ HexBlobBuffer(b).head = "0x"
    BY HexBlobIsHex
  <2> QED
    BY <1>2, <2>1, <2>2 DEF OptionalBuffer, OptionalOk, FixedOk
<1> QED
  BY <1>1, <1>2

\* Clauses, from a list and back.
LEMMA ClausesRoundTrip ==
  ASSUME NEW list \in Seq(Buffer \X Buffer \X Buffer),
         \A i \in DOMAIN list :
           OptionalBufferOk(list[i][1], Width.to) /\ NumericBufferOk(list[i][2], Width.value)
  PROVE  /\ DecodedClauses(list) \in Seq(Clause)
         /\ \A i \in DOMAIN DecodedClauses(list) : ClauseOk(DecodedClauses(list)[i])
         /\ EncodeClauses(DecodedClauses(list)) = list
<1> DEFINE cs == DecodedClauses(list)
<1>1. cs = [i \in 1 .. Len(list) |->
              [to |-> OptionalBuffer(list[i][1]), value |-> NumericBuffer(list[i][2]),
               data |-> HexBlobBuffer(list[i][3])]]
  BY DEF DecodedClauses
<1>2. ASSUME NEW i \in 1 .. Len(list)
      PROVE  /\ cs[i] \in Clause /\ ClauseOk(cs[i])
             /\ <<OptionalData(cs[i].to), NumericData(cs[i].value), HexBlobData(cs[i].data)>>
                  = list[i]
  <2> DEFINE to    == list[i][1]
             value == list[i][2]
             data  == list[i][3]
  <2>1. /\ to \in Buffer /\ value \in Buffer /\ data \in Buffer
        /\ list[i] = <<to, value, data>>
        /\ OptionalBufferOk(to, Width.to) /\ NumericBufferOk(value, Width.value)
    OBVIOUS
  <2>2. /\ cs[i].to = OptionalBuffer(to) /\ cs[i].value = NumericBuffer(value)
        /\ cs[i].data = HexBlobBuffer(data)
        /\ cs[i] = [to |-> OptionalBuffer(to), value |-> NumericBuffer(value),
                    data |-> HexBlobBuffer(data)]
    BY <1>1
  <2> HIDE DEF to, value, data, cs
  <2>3. OptionalBuffer(to) \in Hex \union {Null} /\ OptionalData(OptionalBuffer(to)) = to
    BY <2>1, OptionalRoundTrip
  <2>4. /\ NumericBuffer(value) \in Numeric /\ NumericData(NumericBuffer(value)) = value
        /\ NumericOk(NumericBuffer(value), Width.value)
    <3>1. Width.value \in Nat /\ ~ HasLeadingZero(value)
      BY <2>1, SignedTransactionsAssumption DEF NumericBufferOk
    <3> QED
      BY <2>1, <3>1, NumericRoundTrip, NumericUnpacked
  <2>5. HexBlobBuffer(data) \in Hex /\ HexBlobData(HexBlobBuffer(data)) = data
    BY <2>1, HexBlobIsHex
  <2>6. cs[i] \in Clause
    BY <2>2, <2>3, <2>4, <2>5 DEF Clause
  <2>7. OptionalOk(OptionalBuffer(to), Width.to)
    BY <2>1, OptionalUnpacked
  <2>8. ClauseOk(cs[i])
    BY <2>2, <2>3, <2>4, <2>7, NameAssumption DEF ClauseOk
  <2> QED
    BY <2>1, <2>2, <2>3, <2>4, <2>5, <2>6, <2>8
<1>3. Len(list) \in Nat /\ DOMAIN cs = 1 .. Len(list)
  BY <1>1
<1>4. cs \in Seq(Clause)
  <2>1. cs \in [1 .. Len(list) -> Clause]
    <3>1. cs = [i \in 1 .. Len(list) |-> cs[i]]
      BY <1>1
    <3> HIDE DEF cs
    <3> QED
      BY <1>2, <3>1
  <2> HIDE DEF cs
  <2> QED
    BY <1>3, <2>1
<1>5. EncodeClauses(cs) = list
  <2> HIDE DEF cs
  <2>1. EncodeClauses(cs) = [i \in 1 .. Len(list) |-> list[i]]
    BY <1>2, <1>3 DEF EncodeClauses
  <2> QED
    BY <2>1
<1> QED
  BY <1>2, <1>3, <1>4, <1>5

\* Clauses that can be encoded are taken back, as many and as they were.
LEMMA ClausesTaken ==
  ASSUME NEW clauses \in Seq(Clause), \A i \in DOMAIN clauses : ClauseOk(clauses[i])
  PROVE  /\ EncodeClauses(clauses) \in Seq(Buffer \X Buffer \X Buffer)
         /\ DOMAIN EncodeClauses(clauses) = DOMAIN clauses
         /\ \A i \in DOMAIN clauses :
              /\ OptionalBufferOk(EncodeClauses(clauses)[i][1], Width.to)
              /\ NumericBufferOk(EncodeClauses(clauses)[i][2], Width.value)
              /\ SameClause(clauses[i], DecodedClauses(EncodeClauses(clauses))[i])
<1> DEFINE list == EncodeClauses(clauses)
<1>1. list = [i \in DOMAIN clauses |->
                <<OptionalData(clauses[i].to), NumericData(clauses[i].value),
                  HexBlobData(clauses[i].data)>>]
  BY DEF EncodeClauses
<1>2. DOMAIN list = DOMAIN clauses
  BY <1>1
<1>3. ASSUME NEW i \in DOMAIN clauses
      PROVE  /\ list[i] \in Buffer \X Buffer \X Buffer
             /\ OptionalBufferOk(list[i][1], Width.to)
             /\ NumericBufferOk(list[i][2], Width.value)
             /\ SameClause(clauses[i], DecodedClauses(list)[i])
  <2> DEFINE c == clauses[i]
  <2>1. c \in Clause /\ ClauseOk(c)
    OBVIOUS
  <2>2. list[i] = <<OptionalData(c.to), NumericData(c.value), HexBlobData(c.data)>>
    BY <1>1
  <2>3. /\ DecodedClauses(list)[i].to = OptionalBuffer(list[i][1])
        /\ DecodedClauses(list)[i].value = NumericBuffer(list[i][2])
        /\ DecodedClauses(list)[i].data = HexBlobBuffer(list[i][3])
    BY <1>2 DEF DecodedClauses
  <2> HIDE DEF c, list
  <2>4. c.to \in Hex \union {Null} /\ c.value \in Numeric /\ c.data \in Hex
    BY <2>1 DEF Clause, ClauseOk
  <2>5. /\ OptionalData(c.to) \in Buffer /\ OptionalBufferOk(OptionalData(c.to), Width.to)
        /\ SameHex(c.to, OptionalBuffer(OptionalData(c.to)))
    BY <2>1, <2>4, OptionalTaken, SignedTransactionsAssumption DEF ClauseOk
  <2>6. /\ NumericData(c.value) \in Buffer
        /\ NumericBufferOk(NumericData(c.value), Width.value)
        /\ NumericBuffer(NumericData(c.value)).n = c.value.n
    BY <2>1, <2>4, NumericTaken, SignedTransactionsAssumption DEF ClauseOk
  <2>7. HexBlobData(c.data) \in Buffer /\ SameHex(c.data, HexBlobBuffer(HexBlobData(c.data)))
    <3>1. c.data # Null
      BY <2>4, NullAssumption
    <3> QED
      BY <2>4, <3>1, HexBlobIsBuffer, HexBlobReadBack DEF SameHex
  <2>8. SameClause(c, DecodedClauses(list)[i])
    BY <2>2, <2>3, <2>5, <2>6, <2>7 DEF SameClause
  <2> QED
    BY <2>2, <2>5, <2>6, <2>7, <2>8 DEF c
<1>4. list \in Seq(Buffer \X Buffer \X Buffer)
  <2>1. list \in [1 .. Len(clauses) -> Buffer \X Buffer \X Buffer] /\ Len(clauses) \in Nat
    <3>1. list = [i \in 1 .. Len(clauses) |-> list[i]]
      BY <1>1
    <3>2. DOMAIN clauses = 1 .. Len(clauses) /\ Len(clauses) \in Nat
      OBVIOUS
    <3> DEFINE B == Buffer \X Buffer \X Buffer
    <3>3. \A i \in 1 .. Len(clauses) : list[i] \in B
      BY <1>3, <3>2
    <3> HIDE DEF list, B
    <3>4. list \in [1 .. Len(clauses) -> B]
      BY <3>1, <3>3
    <3> QED
      BY <3>2, <3>4 DEF B
  <2> HIDE DEF list
  <2> QED
    BY <2>1
<1> QED
  BY <1>2, <1>3, <1>4

-----------------------------------------------------------------------------
(***************************************************************************)
(* Whole transactions.                                                     *)
(***************************************************************************)
\* The parts of an unsigned raw transaction.
LEMMA UnsignedParts ==
  ASSUME NEW u \in Unsigned
  PROVE  /\ u = <<u[1], u[2], u[3], u[4], u[5], u[6], u[7], u[8], u[9]>>
         /\ \A i \in {1, 2, 3, 5, 6, 7, 8} : u[i] \in Buffer
         /\ u[4] \in Seq(Buffer \X Buffer \X Buffer)
         /\ u[9] \in Seq(Buffer)
BY DEF Unsigned

\* A function on the numbers up to n is a sequence as long.
LEMMA FunctionIsSequence ==
  ASSUME NEW S, NEW n \in Nat, NEW f \in [1 .. n -> S]
  PROVE  f \in Seq(S) /\ Len(f) = n
OBVIOUS

\* A sequence with one more at its end.
LEMMA Appended ==
  ASSUME NEW S, NEW q \in Seq(S), NEW s \in S
  PROVE  /\ Append(q, s) \in Seq(S) /\ Len(Append(q, s)) = Len(q) + 1
         /\ Append(q, s)[Len(q) + 1] = s
         /\ \A i \in 1 .. Len(q) : Append(q, s)[i] = q[i]
         /\ SubSeq(Append(q, s), 1, Len(q)) = q
<1> DEFINE r == Append(q, s)
           n == Len(q)
<1>1. r \in Seq(S) /\ Len(r) = n + 1 /\ r[n + 1] = s /\ \A i \in 1 .. n : r[i] = q[i]
  OBVIOUS
<1>2. n \in Nat
  OBVIOUS
<1> HIDE DEF r
<1>3. SubSeq(r, 1, n) = q
  <2>1. SubSeq(r, 1, n) \in Seq(S) /\ Len(SubSeq(r, 1, n)) = n
    BY <1>1, <1>2
  <2>2. \A i \in 1 .. n : SubSeq(r, 1, n)[i] = r[i]
    BY <1>1, <1>2
  <2> QED
    BY <1>1, <1>2, <2>1, <2>2
<1> QED
  BY <1>1, <1>3 DEF r

\* With a signature behind it, it is the same.
LEMMA SignedParts ==
  ASSUME NEW u \in Unsigned, NEW s
  PROVE  /\ Len(u) = 9
         /\ Len(Append(u, s)) = 10 /\ Append(u, s)[10] = s
         /\ SubSeq(Append(u, s), 1, 9) = u
         /\ \A i \in 1 .. 9 : Append(u, s)[i] = u[i]
<1> DEFINE T == {u[i] : i \in 1 .. 9} \union {s}
<1>1. u \in [1 .. 9 -> T]
  <2>1. u = [i \in 1 .. 9 |-> u[i]]
    BY DEF Unsigned
  <2> QED
    BY <2>1
<1>2. s \in T
  OBVIOUS
<1> HIDE DEF T
<1>3. u \in Seq(T) /\ Len(u) = 9
  <2>1. 9 \in Nat
    OBVIOUS
  <2> QED
    BY <1>1, <2>1, FunctionIsSequence
<1>4. /\ Len(Append(u, s)) = Len(u) + 1
      /\ Append(u, s)[Len(u) + 1] = s
      /\ \A i \in 1 .. Len(u) : Append(u, s)[i] = u[i]
      /\ SubSeq(Append(u, s), 1, Len(u)) = u
  <2>1. ASSUME NEW W, NEW q \in Seq(W), NEW x \in W
        PROVE  /\ Len(Append(q, x)) = Len(q) + 1
               /\ Append(q, x)[Len(q) + 1] = x
               /\ \A i \in 1 .. Len(q) : Append(q, x)[i] = q[i]
               /\ SubSeq(Append(q, x), 1, Len(q)) = q
    BY Appended
  <2> QED
    BY <1>2, <1>3, <2>1, Zenon
<1> QED
  BY <1>3, <1>4

\* What is decoded of a raw transaction is in its first nine parts.
LEMMA DecodedOfParts ==
  ASSUME NEW r, NEW u \in Unsigned, \A i \in 1 .. 9 : r[i] = u[i]
  PROVE  /\ DecodedBody(r) = DecodedBody(u)
         /\ Unpackable(r) <=> Unpackable(u)
         /\ ReservedOk(r[9]) <=> ReservedOk(u[9])
<1>1. /\ r[1] = u[1] /\ r[2] = u[2] /\ r[3] = u[3] /\ r[4] = u[4] /\ r[5] = u[5]
      /\ r[6] = u[6] /\ r[7] = u[7] /\ r[8] = u[8] /\ r[9] = u[9]
  OBVIOUS
<1>2. DecodedBody(r) = DecodedBody(u)
  BY <1>1 DEF DecodedBody
<1>3. ASSUME NEW f \in {<<1, "chainTag">>, <<3, "expiration">>, <<5, "gasPriceCoef">>,
                        <<6, "gas">>, <<8, "nonce">>}
      PROVE  NumericBufferOk(r[f[1]], Width[f[2]]) <=> NumericBufferOk(u[f[1]], Width[f[2]])
  <2>1. f[1] \in 1 .. 9
    OBVIOUS
  <2>2. r[f[1]] = u[f[1]]
    BY <2>1
  <2> QED
    BY <2>2
<1>4. Unpackable(r) <=> Unpackable(u)
  BY <1>1, <1>3 DEF Unpackable
<1> QED
  BY <1>1, <1>2, <1>4

\* What the profile takes of an unsigned raw transaction, part by part.
LEMMA UnpackableParts ==
  ASSUME NEW u
  PROVE  Unpackable(u) <=>
           /\ NumericBufferOk(u[1], Width.chainTag) /\ NumericBufferOk(u[3], Width.expiration)
           /\ NumericBufferOk(u[5], Width.gasPriceCoef) /\ NumericBufferOk(u[6], Width.gas)
           /\ NumericBufferOk(u[8], Width.nonce)
           /\ CompactBufferOk(u[2], Width.blockRef)
           /\ OptionalBufferOk(u[7], Width.dependsOn)
           /\ \A i \in DOMAIN u[4] :
                OptionalBufferOk(u[4][i][1], Width.to) /\ NumericBufferOk(u[4][i][2], Width.value)
<1> DEFINE F == {<<1, "chainTag">>, <<3, "expiration">>, <<5, "gasPriceCoef">>, <<6, "gas">>,
                 <<8, "nonce">>}
           Ok(i, w) == NumericBufferOk(u[i], w)
<1>1. (\A f \in F : Ok(f[1], Width[f[2]])) <=>
        /\ Ok(1, Width["chainTag"]) /\ Ok(3, Width["expiration"]) /\ Ok(5, Width["gasPriceCoef"])
        /\ Ok(6, Width["gas"]) /\ Ok(8, Width["nonce"])
  <2> HIDE DEF Ok
  <2> QED
    OBVIOUS
<1> QED
  BY <1>1 DEF Unpackable

\* A transaction has one encoding.
LEMMA DecodedIsWhole ==
  ASSUME NEW u \in Unsigned, Unpackable(u), ReservedOk(u[9])
  PROVE  /\ DecodedBody(u) \in Body
         /\ Encodable(DecodedBody(u))
         /\ \A f \in Required : DecodedBody(u)[f] # Absent
         /\ Encode(DecodedBody(u)) = u
<1> DEFINE b == DecodedBody(u)
<1>1. /\ u = <<u[1], u[2], u[3], u[4], u[5], u[6], u[7], u[8], u[9]>>
      /\ u[1] \in Buffer /\ u[2] \in Buffer /\ u[3] \in Buffer /\ u[5] \in Buffer
      /\ u[6] \in Buffer /\ u[7] \in Buffer /\ u[8] \in Buffer
      /\ u[4] \in Seq(Buffer \X Buffer \X Buffer) /\ u[9] \in Seq(Buffer)
  BY UnsignedParts
<1>2. /\ NumericBufferOk(u[1], Width.chainTag) /\ NumericBufferOk(u[3], Width.expiration)
      /\ NumericBufferOk(u[5], Width.gasPriceCoef) /\ NumericBufferOk(u[6], Width.gas)
      /\ NumericBufferOk(u[8], Width.nonce)
      /\ CompactBufferOk(u[2], Width.blockRef)
      /\ OptionalBufferOk(u[7], Width.dependsOn)
      /\ \A i \in DOMAIN u[4] :
           OptionalBufferOk(u[4][i][1], Width.to) /\ NumericBufferOk(u[4][i][2], Width.value)
  BY UnpackableParts
<1>3. /\ b.chainTag = NumericBuffer(u[1]) /\ b.blockRef = CompactBuffer(u[2], Width.blockRef)
      /\ b.expiration = NumericBuffer(u[3]) /\ b.clauses = DecodedClauses(u[4])
      /\ b.gasPriceCoef = NumericBuffer(u[5]) /\ b.gas = NumericBuffer(u[6])
      /\ b.dependsOn = OptionalBuffer(u[7]) /\ b.nonce = NumericBuffer(u[8])
      /\ b.features = DecodedFeatures(u[9]) /\ b.unused = SubSeq(u[9], 2, Len(u[9]))
      /\ b = [chainTag |-> b.chainTag, blockRef |-> b.blockRef, expiration |-> b.expiration,
              clauses |-> b.clauses, gasPriceCoef |-> b.gasPriceCoef, gas |-> b.gas,
              dependsOn |-> b.dependsOn, nonce |-> b.nonce, features |-> b.features,
              unused |-> b.unused]
  BY DEF DecodedBody
<1> HIDE DEF b
<1>4. /\ Width.chainTag \in Nat /\ Width.expiration \in Nat /\ Width.gasPriceCoef \in Nat
      /\ Width.gas \in Nat /\ Width.nonce \in Nat /\ Width.blockRef \in Nat
      /\ Width.dependsOn \in Nat /\ Width.features \in Nat
  BY SignedTransactionsAssumption
<1>5. ASSUME NEW c \in Buffer, NEW w \in Nat, NumericBufferOk(c, w)
      PROVE  /\ NumericBuffer(c) \in Numeric /\ NumericData(NumericBuffer(c)) = c
             /\ NumericOk(NumericBuffer(c), w)
  BY <1>5, NumericRoundTrip, NumericUnpacked DEF NumericBufferOk
<1>6. /\ b.chainTag \in Numeric /\ NumericData(b.chainTag) = u[1]
      /\ NumericOk(b.chainTag, Width.chainTag)
  BY <1>1, <1>2, <1>3, <1>4, <1>5
<1>7. /\ b.expiration \in Numeric /\ NumericData(b.expiration) = u[3]
      /\ NumericOk(b.expiration, Width.expiration)
  BY <1>1, <1>2, <1>3, <1>4, <1>5
<1>8. /\ b.gasPriceCoef \in Numeric /\ NumericData(b.gasPriceCoef) = u[5]
      /\ NumericOk(b.gasPriceCoef, Width.gasPriceCoef)
  BY <1>1, <1>2, <1>3, <1>4, <1>5
<1>9. /\ b.gas \in Numeric /\ NumericData(b.gas) = u[6] /\ NumericOk(b.gas, Width.gas)
  BY <1>1, <1>2, <1>3, <1>4, <1>5
<1>10. /\ b.nonce \in Numeric /\ NumericData(b.nonce) = u[8] /\ NumericOk(b.nonce, Width.nonce)
  BY <1>1, <1>2, <1>3, <1>4, <1>5
<1>11. /\ b.blockRef \in Hex /\ CompactData(b.blockRef) = u[2]
       /\ FixedOk(b.blockRef, Width.blockRef)
  <2> DEFINE h == CompactBuffer(u[2], Width.blockRef)
  <2>1. h \in Hex /\ h.head = "0x" /\ Len(h.rest) = Width.blockRef /\ CompactData(h) = u[2]
    BY <1>1, <1>2, <1>4, CompactRoundTrip
  <2> HIDE DEF h
  <2>2. FixedOk(h, Width.blockRef)
    BY <2>1 DEF FixedOk
  <2> QED
    BY <1>3, <2>1, <2>2 DEF h
<1>12. /\ b.dependsOn \in Hex \union {Null} /\ OptionalData(b.dependsOn) = u[7]
       /\ OptionalOk(b.dependsOn, Width.dependsOn)
  BY <1>1, <1>2, <1>3, <1>4, OptionalRoundTrip, OptionalUnpacked
<1>13. /\ b.clauses \in Seq(Clause) /\ EncodeClauses(b.clauses) = u[4]
       /\ \A i \in DOMAIN b.clauses : ClauseOk(b.clauses[i])
  BY <1>1, <1>2, <1>3, ClausesRoundTrip
<1>14. /\ b.features \in Numeric /\ NumericOk(b.features, Width.features)
       /\ b.unused \in Seq(Buffer) /\ EncodeReservedField(b) = u[9]
  BY <1>1, <1>3, ReservedRoundTrip DEF EncodeReservedField
<1>15. b \in Body
  BY <1>3, <1>6, <1>7, <1>8, <1>9, <1>10, <1>11, <1>12, <1>13, <1>14 DEF Body
<1>16. Encodable(b)
  BY <1>6, <1>7, <1>8, <1>9, <1>10, <1>11, <1>12, <1>13, <1>14 DEF Encodable
<1>17. \A f \in Required : b[f] # Absent
  BY <1>6, <1>7, <1>8, <1>9, <1>10, <1>11, <1>12, <1>13, AbsentAssumption DEF Required
<1>18. Encode(b) = u
  BY <1>1, <1>6, <1>7, <1>8, <1>9, <1>10, <1>11, <1>12, <1>13, <1>14 DEF Encode
<1> QED
  BY <1>15, <1>16, <1>17, <1>18 DEF b

\* A body that is read as it was given.
SameBody(given, got) ==
  /\ Len(got.clauses) = Len(given.clauses)
  /\ \A i \in DOMAIN given.clauses : SameClause(given.clauses[i], got.clauses[i])
  /\ got.chainTag.n = given.chainTag.n /\ got.expiration.n = given.expiration.n
  /\ got.gasPriceCoef.n = given.gasPriceCoef.n /\ got.gas.n = given.gas.n
  /\ got.nonce.n = given.nonce.n /\ got.features.n = given.features.n
  /\ got.blockRef = given.blockRef
  /\ SameHex(given.dependsOn, got.dependsOn)
  /\ got.unused = Trimmed(given.unused)

\* What a body is encoded to is taken back, and is the same transaction.
LEMMA EncodingTaken ==
  ASSUME NEW b \in Body, IsValidBody(b), Encodable(b)
  PROVE  /\ Encode(b) \in Unsigned
         /\ Unpackable(Encode(b)) /\ ReservedOk(Encode(b)[9])
         /\ IsValidBody(DecodedBody(Encode(b)))
         /\ SameBody(b, DecodedBody(Encode(b)))
<1> DEFINE u == Encode(b)
           d == DecodedBody(u)
<1>1. /\ b.chainTag \in Numeric /\ b.blockRef \in Hex /\ b.expiration \in Numeric
      /\ b.clauses \in Seq(Clause) /\ b.gasPriceCoef \in Numeric /\ b.gas \in Numeric
      /\ b.dependsOn \in Hex \union {Null} /\ b.nonce \in Numeric
      /\ b.features \in Numeric /\ b.unused \in Seq(Buffer)
  BY DEF Body, IsValidBody, Required
<1>2. /\ NumericOk(b.chainTag, Width.chainTag) /\ NumericOk(b.expiration, Width.expiration)
      /\ NumericOk(b.gasPriceCoef, Width.gasPriceCoef) /\ NumericOk(b.gas, Width.gas)
      /\ NumericOk(b.nonce, Width.nonce) /\ NumericOk(b.features, Width.features)
      /\ FixedOk(b.blockRef, Width.blockRef) /\ OptionalOk(b.dependsOn, Width.dependsOn)
      /\ \A i \in DOMAIN b.clauses : ClauseOk(b.clauses[i])
  BY DEF Encodable
<1>3. /\ Width.chainTag \in Nat /\ Width.expiration \in Nat /\ Width.gasPriceCoef \in Nat
      /\ Width.gas \in Nat /\ Width.nonce \in Nat /\ Width.blockRef \in Nat
      /\ Width.dependsOn \in Nat /\ Width.features \in Nat
  BY SignedTransactionsAssumption
<1>4. /\ u = <<u[1], u[2], u[3], u[4], u[5], u[6], u[7], u[8], u[9]>>
      /\ u[1] = NumericData(b.chainTag) /\ u[2] = CompactData(b.blockRef)
      /\ u[3] = NumericData(b.expiration) /\ u[4] = EncodeClauses(b.clauses)
      /\ u[5] = NumericData(b.gasPriceCoef) /\ u[6] = NumericData(b.gas)
      /\ u[7] = OptionalData(b.dependsOn) /\ u[8] = NumericData(b.nonce)
      /\ u[9] = EncodeReservedField(b)
  BY DEF Encode
<1>5. /\ d.chainTag = NumericBuffer(u[1]) /\ d.blockRef = CompactBuffer(u[2], Width.blockRef)
      /\ d.expiration = NumericBuffer(u[3]) /\ d.clauses = DecodedClauses(u[4])
      /\ d.gasPriceCoef = NumericBuffer(u[5]) /\ d.gas = NumericBuffer(u[6])
      /\ d.dependsOn = OptionalBuffer(u[7]) /\ d.nonce = NumericBuffer(u[8])
      /\ d.features = DecodedFeatures(u[9]) /\ d.unused = SubSeq(u[9], 2, Len(u[9]))
  BY DEF DecodedBody
<1> HIDE DEF u, d
<1>6. ASSUME NEW c \in Numeric, NEW w \in Nat, NumericOk(c, w)
      PROVE  /\ NumericData(c) \in Buffer /\ NumericBufferOk(NumericData(c), w)
             /\ NumericBuffer(NumericData(c)).n = c.n
  BY <1>6, NumericTaken
<1>7. u[1] \in Buffer /\ NumericBufferOk(u[1], Width.chainTag) /\ d.chainTag.n = b.chainTag.n
  BY <1>1, <1>2, <1>3, <1>4, <1>5, <1>6
<1>8. u[3] \in Buffer /\ NumericBufferOk(u[3], Width.expiration) /\ d.expiration.n = b.expiration.n
  BY <1>1, <1>2, <1>3, <1>4, <1>5, <1>6
<1>9. /\ u[5] \in Buffer /\ NumericBufferOk(u[5], Width.gasPriceCoef)
      /\ d.gasPriceCoef.n = b.gasPriceCoef.n
  BY <1>1, <1>2, <1>3, <1>4, <1>5, <1>6
<1>10. u[6] \in Buffer /\ NumericBufferOk(u[6], Width.gas) /\ d.gas.n = b.gas.n
  BY <1>1, <1>2, <1>3, <1>4, <1>5, <1>6
<1>11. u[8] \in Buffer /\ NumericBufferOk(u[8], Width.nonce) /\ d.nonce.n = b.nonce.n
  BY <1>1, <1>2, <1>3, <1>4, <1>5, <1>6
<1>12. /\ u[2] \in Buffer /\ CompactBufferOk(u[2], Width.blockRef)
       /\ d.blockRef = b.blockRef
       /\ d.blockRef.head \in Prefixes /\ Len(HexBlobData(d.blockRef)) = Width.blockRef
  <2>1. /\ b.blockRef.head \in Prefixes /\ Len(HexBlobData(b.blockRef)) = Width.blockRef
        /\ Width.blockRef # 0
    BY SignedTransactionsAssumption DEF IsValidBody
  <2>2. b.blockRef.head = "0x"
    <3>1. b.blockRef.head # "-0x"
      BY <1>1, <1>2, <1>3, <2>1, FixedData
    <3> QED
      BY <2>1, <3>1 DEF Prefixes
  <2>3. u[2] \in Buffer /\ CompactBufferOk(u[2], Width.blockRef)
    BY <1>1, <1>4, <2>1, CompactFits
  <2>4. d.blockRef = b.blockRef
    <3>1. Len(b.blockRef.rest) = Width.blockRef
      BY <1>2 DEF FixedOk
    <3> QED
      BY <1>1, <1>3, <1>4, <1>5, <2>2, <3>1, CompactReadBack
  <2> QED
    BY <2>1, <2>3, <2>4
<1>13. /\ u[7] \in Buffer /\ OptionalBufferOk(u[7], Width.dependsOn)
       /\ SameHex(b.dependsOn, d.dependsOn)
  <2>1. Width.dependsOn # 0
    BY SignedTransactionsAssumption
  <2> QED
    BY <1>1, <1>2, <1>3, <1>4, <1>5, <2>1, OptionalTaken
<1>14. /\ u[4] \in Seq(Buffer \X Buffer \X Buffer)
       /\ \A i \in DOMAIN u[4] :
            OptionalBufferOk(u[4][i][1], Width.to) /\ NumericBufferOk(u[4][i][2], Width.value)
       /\ \A i \in DOMAIN b.clauses : SameClause(b.clauses[i], d.clauses[i])
       /\ Len(d.clauses) = Len(b.clauses)
  <2>1. /\ u[4] \in Seq(Buffer \X Buffer \X Buffer) /\ DOMAIN u[4] = DOMAIN b.clauses
        /\ \A i \in DOMAIN b.clauses :
             /\ OptionalBufferOk(u[4][i][1], Width.to) /\ NumericBufferOk(u[4][i][2], Width.value)
             /\ SameClause(b.clauses[i], d.clauses[i])
    BY <1>1, <1>2, <1>4, <1>5, ClausesTaken
  <2>2. DOMAIN d.clauses = 1 .. Len(b.clauses) /\ Len(b.clauses) \in Nat
    BY <1>1, <1>5, <2>1 DEF DecodedClauses
  <2>3. Len(d.clauses) = Len(b.clauses)
    <3>1. d.clauses = [i \in 1 .. Len(b.clauses) |-> d.clauses[i]]
      BY <1>5, <2>2 DEF DecodedClauses
    <3> QED
      BY <2>2, <3>1
  <2> QED
    BY <2>1, <2>3
<1>15. /\ u[9] \in Seq(Buffer) /\ ReservedOk(u[9]) /\ d.features.n = b.features.n
       /\ d.unused = Trimmed(b.unused)
  <2>1. u[9] = Trimmed(<<NumericData(b.features)>> \o b.unused)
    BY <1>4 DEF EncodeReservedField
  <2> QED
    BY <1>1, <1>2, <1>5, <2>1, ReservedTaken
<1>16. u \in Unsigned
  BY <1>4, <1>7, <1>8, <1>9, <1>10, <1>11, <1>12, <1>13, <1>14, <1>15 DEF Unsigned
<1>17. Unpackable(u)
  BY <1>7, <1>8, <1>9, <1>10, <1>11, <1>12, <1>13, <1>14, UnpackableParts
<1>18. IsValidBody(d)
  <2>1. \A f \in Required : d[f] # Absent
    BY <1>15, <1>16, <1>17, DecodedIsWhole DEF d
  <2>2. d.chainTag.n \in Byte
    BY <1>7 DEF IsValidBody
  <2> QED
    BY <1>12, <2>1, <2>2 DEF IsValidBody
<1>19. SameBody(b, d)
  BY <1>7, <1>8, <1>9, <1>10, <1>11, <1>12, <1>13, <1>14, <1>15 DEF SameBody
<1> QED
  BY <1>15, <1>16, <1>17, <1>18, <1>19 DEF d, u

\* So a usable body decodes, unsigned and with as many signatures as it takes.
LEMMA EncodingDecodes ==
  ASSUME NEW b \in Body, IsValidBody(b), Encodable(b)
  PROVE  /\ Decodable(Encode(b), FALSE)
         /\ Encode(DecodedBody(Encode(b))) = Encode(b)
         /\ IsDelegated(DecodedBody(Encode(b))) <=> IsDelegated(b)
         /\ \A s : /\ DecodedBody(Append(Encode(b), s)) = DecodedBody(Encode(b))
                   /\ Append(Encode(b), s)[10] = s
                   /\ IsSignatureValid(b, s) => Decodable(Append(Encode(b), s), TRUE)
<1> DEFINE u == Encode(b)
<1>1. /\ u \in Unsigned /\ Unpackable(u) /\ ReservedOk(u[9]) /\ IsValidBody(DecodedBody(u))
      /\ DecodedBody(u).features.n = b.features.n
  BY EncodingTaken DEF SameBody
<1> HIDE DEF u
<1>2. IsDelegated(DecodedBody(u)) <=> IsDelegated(b)
  BY <1>1 DEF IsDelegated
<1>3. Len(u) = 9
  BY <1>1, SignedParts
<1>4. Decodable(u, FALSE)
  BY <1>1, <1>3 DEF Decodable
<1>5. Encode(DecodedBody(u)) = u
  BY <1>1, DecodedIsWhole
<1>6. ASSUME NEW s
      PROVE  /\ DecodedBody(Append(u, s)) = DecodedBody(u) /\ Append(u, s)[10] = s
             /\ IsSignatureValid(b, s) => Decodable(Append(u, s), TRUE)
  <2> DEFINE r == Append(u, s)
  <2>1. Len(r) = 10 /\ r[10] = s /\ \A i \in 1 .. 9 : r[i] = u[i]
    BY <1>1, SignedParts
  <2> HIDE DEF r
  <2>2. /\ DecodedBody(r) = DecodedBody(u) /\ Unpackable(r) /\ ReservedOk(r[9])
    BY <1>1, <2>1, DecodedOfParts
  <2>3. IsSignatureValid(DecodedBody(u), s) <=> IsSignatureValid(b, s)
    BY <1>2 DEF IsSignatureValid
  <2>4. IsSignatureValid(b, s) => Decodable(r, TRUE)
    BY <1>1, <2>1, <2>2, <2>3 DEF Decodable
  <2> QED
    BY <2>1, <2>2, <2>4 DEF r
<1> QED
  BY <1>2, <1>4, <1>5, <1>6 DEF u

-----------------------------------------------------------------------------
(***************************************************************************)
(* The gas.                                                                *)
(***************************************************************************)
\* An address that is there, and is not negative, is packed into bytes: its clause
\* is not taken for the creation of a contract.
LEMMA AddressIsPacked ==
  ASSUME NEW h \in Hex, FixedOk(h, Width.to), ~ Negative(h)
  PROVE  HexBlobData(h) # <<>>
<1>1. Width.to \in Nat \ {0}
  BY SignedTransactionsAssumption
<1>2. h # Null
  BY NullAssumption
<1>3. Len(HexBlobData(h)) = Width.to
  BY <1>1, <1>2, FixedData DEF Negative
<1> QED
  BY <1>1, <1>3

\* A buffer costs a number.
LEMMA BufferCost ==
  ASSUME NEW b \in Buffer
  PROVE  BytesGas(b) \in Nat
<1> DEFINE zeros == {i \in DOMAIN b : b[i] = 0}
           z == Cardinality(zeros)
<1>1. Len(b) \in Nat /\ DOMAIN b = 1 .. Len(b)
  BY DEF Buffer
<1>2. z \in Nat /\ z <= Len(b)
  <2>1. IsFiniteSet(1 .. Len(b)) /\ Cardinality(1 .. Len(b)) = Len(b)
    <3> DEFINE n == Len(b)
    <3>1. PICK one \in Nat : one = 1
      OBVIOUS
    <3>2. n \in Nat
      BY <1>1
    <3> HIDE DEF n
    <3>3. IsFiniteSet(one .. n) /\ Cardinality(one .. n) = IF one > n THEN 0 ELSE n - one + 1
      BY <3>1, <3>2, FS_Interval
    <3>4. Cardinality(one .. n) = n
      BY <3>1, <3>2, <3>3
    <3> QED
      BY <3>1, <3>3, <3>4 DEF n
  <2>2. zeros \subseteq 1 .. Len(b)
    BY <1>1
  <2> HIDE DEF zeros
  <2>3. IsFiniteSet(zeros) /\ Cardinality(zeros) <= Cardinality(1 .. Len(b))
    BY <2>1, <2>2, FS_Subset
  <2> QED
    BY <2>1, <2>3, FS_CardinalityType
<1>3. Gas.zero \in Nat /\ Gas.nonzero \in Nat
  BY SignedTransactionsAssumption
<1> DEFINE rest == Len(b) - z
<1>4. rest \in Nat
  BY <1>1, <1>2
<1>5. BytesGas(b) = z * Gas.zero + rest * Gas.nonzero
  BY DEF BytesGas
<1> HIDE DEF z, rest
<1>6. z * Gas.zero \in Nat /\ rest * Gas.nonzero \in Nat
  BY <1>2, <1>3, <1>4
<1> QED
  BY <1>5, <1>6

\* What the node counts of data is what was counted, or less if it is negative: none.
LEMMA DataCosts ==
  ASSUME NEW h \in Hex
  PROVE  /\ DataUsedGas(h) \in Nat /\ BytesGas(HexBlobData(h)) \in Nat
         /\ BytesGas(HexBlobData(h)) <= DataUsedGas(h)
         /\ ~ Negative(h) => BytesGas(HexBlobData(h)) = DataUsedGas(h)
<1>1. HexBlobData(h) \in Buffer /\ h.rest \in Buffer
  BY HexBlobIsBuffer
<1>2. DataUsedGas(h) \in Nat /\ BytesGas(HexBlobData(h)) \in Nat
  BY <1>1, BufferCost DEF DataUsedGas
<1>3. CASE h.head = "-0x"
  <2>1. HexBlobData(h) = <<>>
    BY <1>3 DEF HexBlobData
  <2>2. BytesGas(<<>>) = 0
    <3>1. {i \in DOMAIN <<>> : <<>>[i] = 0} = {} /\ Len(<<>>) = 0
      OBVIOUS
    <3>2. Cardinality({i \in DOMAIN <<>> : <<>>[i] = 0}) = 0
      BY <3>1, FS_EmptySet
    <3>3. Gas.zero \in Nat /\ Gas.nonzero \in Nat
      BY SignedTransactionsAssumption
    <3>4. BytesGas(<<>>) = 0 * Gas.zero + (0 - 0) * Gas.nonzero
      BY <3>1, <3>2 DEF BytesGas
    <3> QED
      BY <3>3, <3>4
  <2>3. Negative(h)
    BY <1>3, NullAssumption DEF Negative
  <2> QED
    BY <1>2, <2>1, <2>2, <2>3
<1>4. CASE h.head # "-0x"
  <2>1. HexBlobData(h) = h.rest
    BY <1>4 DEF HexBlobData
  <2> QED
    BY <1>2, <2>1 DEF DataUsedGas
<1> QED
  BY <1>3, <1>4

\* A clause to no negative address costs what its packed form costs, or more if its
\* data is negative.
LEMMA ClauseCosts ==
  ASSUME NEW c \in Clause, ClauseOk(c), ~ Negative(c.to)
  PROVE  LET packed == <<OptionalData(c.to), NumericData(c.value), HexBlobData(c.data)>>
         IN  /\ ClauseGas(c) \in Nat /\ PackedGas(packed) \in Nat
             /\ PackedGas(packed) <= ClauseGas(c)
             /\ ~ Negative(c.data) => PackedGas(packed) = ClauseGas(c)
<1>1. c.to = Null <=> OptionalData(c.to) = <<>>
  <2>1. CASE c.to = Null
    BY <2>1 DEF OptionalData
  <2>2. CASE c.to # Null
    <3>1. c.to \in Hex /\ FixedOk(c.to, Width.to)
      BY <2>2 DEF Clause, ClauseOk, OptionalOk
    <3> QED
      BY <2>2, <3>1, AddressIsPacked DEF OptionalData
  <2> QED
    BY <2>1, <2>2
<1> DEFINE kind == IF c.to = Null THEN Gas.creation ELSE Gas.clause
<1>2. kind \in Nat
  BY SignedTransactionsAssumption
<1>3. c.data \in Hex
  BY DEF Clause
<1>4. ClauseGas(c) = DataUsedGas(c.data) + kind
  BY DEF ClauseGas
<1>5. PackedGas(<<OptionalData(c.to), NumericData(c.value), HexBlobData(c.data)>>)
        = BytesGas(HexBlobData(c.data)) + kind
  BY <1>1 DEF PackedGas
<1> HIDE DEF kind
<1> QED
  BY <1>2, <1>3, <1>4, <1>5, DataCosts

\* The equation that the sums of the first costs are defined by has a solution.
LEMMA TotalExists ==
  ASSUME NEW costs \in Seq(Nat)
  PROVE  \E f : f = [i \in 0 .. Len(costs) |-> IF i = 0 THEN Gas.tx ELSE f[i - 1] + costs[i]]
<1> DEFINE P(k) == \E f : f = [i \in 0 .. k |-> IF i = 0 THEN Gas.tx ELSE f[i - 1] + costs[i]]
           S == {k \in Nat : P(k)}
<1>1. ASSUME NEW k \in Nat, \A j \in Nat : j < k => j \in S PROVE k \in S
  <2>1. CASE k = 0
    <3> DEFINE f == [i \in 0 .. 0 |-> Gas.tx]
    <3>1. f = [i \in 0 .. 0 |-> IF i = 0 THEN Gas.tx ELSE f[i - 1] + costs[i]]
      OBVIOUS
    <3>2. P(0)
      BY <3>1
    <3> HIDE DEF P
    <3> QED
      BY <2>1, <3>2
  <2>2. CASE k # 0
    <3>1. k - 1 \in Nat /\ k - 1 < k
      BY <2>2
    <3>2. P(k - 1)
      BY <1>1, <3>1
    <3>3. PICK g : g = [i \in 0 .. k - 1 |-> IF i = 0 THEN Gas.tx ELSE g[i - 1] + costs[i]]
      BY <3>2
    <3> DEFINE f == [i \in 0 .. k |-> IF i = k THEN g[k - 1] + costs[k] ELSE g[i]]
    <3>4. ASSUME NEW i \in 0 .. k PROVE f[i] = IF i = 0 THEN Gas.tx ELSE f[i - 1] + costs[i]
      <4>1. i # 0 => f[i - 1] = g[i - 1]
        OBVIOUS
      <4>2. CASE i = k
        BY <2>2, <4>1, <4>2
      <4>3. CASE i # k
        <5>1. i \in 0 .. k - 1 /\ f[i] = g[i]
          BY <4>3
        <5>2. g[i] = IF i = 0 THEN Gas.tx ELSE g[i - 1] + costs[i]
          BY <3>3, <5>1
        <5> QED
          BY <4>1, <5>1, <5>2
      <4> QED
        BY <4>2, <4>3
    <3>5. f = [i \in 0 .. k |-> f[i]]
      OBVIOUS
    <3> HIDE DEF f
    <3>6. f = [i \in 0 .. k |-> IF i = 0 THEN Gas.tx ELSE f[i - 1] + costs[i]]
      BY <3>4, <3>5
    <3>7. P(k)
      BY <3>6
    <3> HIDE DEF P
    <3> QED
      BY <3>7
  <2> QED
    BY <2>1, <2>2
<1>2. Nat \subseteq S
  <2> HIDE DEF S
  <2> QED
    BY <1>1, AllNumbers
<1>3. P(Len(costs))
  <2>1. Len(costs) \in Nat
    OBVIOUS
  <2> HIDE DEF P
  <2> QED
    BY <1>2, <2>1
<1> QED
  BY <1>3

\* The function that TotalGas uses, for a sequence of costs.
TotalUpTo(costs) == CHOOSE f : f = [i \in 0 .. Len(costs) |-> IF i = 0 THEN Gas.tx
                                                              ELSE f[i - 1] + costs[i]]

\* It holds of what TotalGas takes the total from.
LEMMA TotalEquation ==
  ASSUME NEW costs \in Seq(Nat)
  PROVE  /\ TotalGas(costs) = TotalUpTo(costs)[Len(costs)]
         /\ TotalUpTo(costs)[0] = Gas.tx
         /\ \A i \in 1 .. Len(costs) : TotalUpTo(costs)[i] = TotalUpTo(costs)[i - 1] + costs[i]
<1> DEFINE Q(f) == f = [i \in 0 .. Len(costs) |-> IF i = 0 THEN Gas.tx ELSE f[i - 1] + costs[i]]
           v == TotalUpTo(costs)
<1>0. Len(costs) \in Nat
  OBVIOUS
<1>1. \E f : Q(f)
  BY TotalExists
<1>2. v = CHOOSE f : Q(f)
  BY DEF TotalUpTo
<1>3. Q(CHOOSE f : Q(f))
  <2> HIDE DEF Q
  <2> QED
    BY <1>1
<1>4. Q(v)
  BY <1>2, <1>3
<1>5. TotalGas(costs) = (CHOOSE f : Q(f))[Len(costs)]
  BY DEF TotalGas
<1>6. v[0] = Gas.tx /\ \A i \in 1 .. Len(costs) : v[i] = v[i - 1] + costs[i]
  <2> HIDE DEF v
  <2>1. \A i \in 0 .. Len(costs) : v[i] = IF i = 0 THEN Gas.tx ELSE v[i - 1] + costs[i]
    BY <1>4
  <2> QED
    BY <1>0, <2>1
<1> QED
  BY <1>2, <1>5, <1>6

\* Of as many costs, each at most as much, the total is at most as much.
LEMMA TotalIsMonotonic ==
  ASSUME NEW x \in Seq(Nat), NEW y \in Seq(Nat), Len(x) = Len(y),
         \A i \in 1 .. Len(x) : x[i] <= y[i]
  PROVE  TotalGas(x) <= TotalGas(y)
<1> DEFINE n == Len(x)
           u == TotalUpTo(x)
           v == TotalUpTo(y)
           S == {i \in Nat : i <= n => u[i] \in Nat /\ v[i] \in Nat /\ u[i] <= v[i]}
<1>1. n \in Nat /\ Gas.tx \in Nat
  BY SignedTransactionsAssumption
<1>2. /\ TotalGas(x) = u[n] /\ TotalGas(y) = v[n] /\ u[0] = Gas.tx /\ v[0] = Gas.tx
      /\ \A i \in 1 .. n : u[i] = u[i - 1] + x[i] /\ v[i] = v[i - 1] + y[i]
  BY TotalEquation
<1>3. \A i \in 1 .. n : x[i] \in Nat /\ y[i] \in Nat /\ x[i] <= y[i]
  OBVIOUS
<1> HIDE DEF n, u, v
<1>4. ASSUME NEW i \in Nat, \A j \in Nat : j < i => j \in S PROVE i \in S
  <2>1. CASE i = 0
    BY <1>1, <1>2, <2>1
  <2>2. CASE i # 0
    <3>1. SUFFICES ASSUME i <= n PROVE u[i] \in Nat /\ v[i] \in Nat /\ u[i] <= v[i]
      OBVIOUS
    <3>2. i - 1 \in Nat /\ i - 1 < i /\ i - 1 <= n /\ i \in 1 .. n
      BY <1>1, <2>2, <3>1
    <3>3. u[i - 1] \in Nat /\ v[i - 1] \in Nat /\ u[i - 1] <= v[i - 1]
      <4>1. i - 1 \in S
        BY <1>4, <3>2
      <4> QED
        BY <3>2, <4>1
    <3>4. u[i] = u[i - 1] + x[i] /\ v[i] = v[i - 1] + y[i]
      BY <1>2, <3>2
    <3>5. x[i] \in Nat /\ y[i] \in Nat /\ x[i] <= y[i]
      BY <1>3, <3>2
    <3> DEFINE ui == u[i - 1]
               vi == v[i - 1]
               xi == x[i]
               yi == y[i]
    <3>6. ui \in Nat /\ vi \in Nat /\ xi \in Nat /\ yi \in Nat /\ ui <= vi /\ xi <= yi
      BY <3>3, <3>5
    <3>7. u[i] = ui + xi /\ v[i] = vi + yi
      BY <3>4
    <3> HIDE DEF ui, vi, xi, yi
    <3> QED
      BY <3>6, <3>7
  <2> QED
    BY <2>1, <2>2
<1>5. Nat \subseteq S
  <2> HIDE DEF S
  <2> QED
    BY <1>4, AllNumbers
<1> QED
  BY <1>1, <1>2, <1>5

\* The clauses of a body cost what those of its encoding cost, or more.
LEMMA EncodingCosts ==
  ASSUME NEW b \in Body, IsValidBody(b), Encodable(b), NEW s,
         \A i \in DOMAIN b.clauses : ~ Negative(b.clauses[i].to)
  PROVE  /\ IntrinsicGas(b.clauses) >= NodeGas(Append(Encode(b), s))
         /\ (\A i \in DOMAIN b.clauses : ~ Negative(b.clauses[i].data))
              => IntrinsicGas(b.clauses) = NodeGas(Append(Encode(b), s))
<1> DEFINE clauses == b.clauses
           packed  == EncodeClauses(clauses)
           counted == [i \in DOMAIN clauses |-> ClauseGas(clauses[i])]
           charged == [i \in DOMAIN packed |-> PackedGas(packed[i])]
           n == Len(clauses)
<1>1. clauses \in Seq(Clause) /\ n \in Nat /\ DOMAIN clauses = 1 .. n
  BY DEF Body, IsValidBody, Required
<1>2. Append(Encode(b), s)[4] = packed
  BY DEF Encode
<1>3. DOMAIN packed = 1 .. n
  BY <1>1 DEF EncodeClauses
<1>4. ASSUME NEW i \in 1 .. n
      PROVE  /\ ClauseGas(clauses[i]) \in Nat /\ PackedGas(packed[i]) \in Nat
             /\ PackedGas(packed[i]) <= ClauseGas(clauses[i])
             /\ ~ Negative(clauses[i].data) => PackedGas(packed[i]) = ClauseGas(clauses[i])
  <2>1. clauses[i] \in Clause /\ ~ Negative(clauses[i].to)
    BY <1>1
  <2>2. ClauseOk(clauses[i])
    BY <1>1 DEF Encodable
  <2>3. packed[i] = <<OptionalData(clauses[i].to), NumericData(clauses[i].value),
                      HexBlobData(clauses[i].data)>>
    BY <1>1 DEF EncodeClauses
  <2> HIDE DEF clauses, packed
  <2> QED
    BY <2>1, <2>2, <2>3, ClauseCosts
<1>5. clauses = <<>> <=> packed = <<>>
  BY <1>1 DEF EncodeClauses
<1>6. (\A i \in 1 .. n : ~ Negative(clauses[i].data)) => counted = charged
  BY <1>1, <1>3, <1>4
<1>7. /\ counted \in Seq(Nat) /\ charged \in Seq(Nat) /\ Len(counted) = n /\ Len(charged) = n
      /\ \A i \in 1 .. n : charged[i] <= counted[i]
  <2> HIDE DEF clauses, packed, n
  <2>1. counted \in [1 .. n -> Nat] /\ charged \in [1 .. n -> Nat]
    BY <1>1, <1>3, <1>4
  <2>2. \A i \in 1 .. n : charged[i] <= counted[i]
    BY <1>1, <1>3, <1>4
  <2> HIDE DEF counted, charged
  <2> QED
    BY <1>1, <2>1, <2>2, FunctionIsSequence
<1> HIDE DEF counted, charged
<1>8. TotalGas(charged) <= TotalGas(counted)
  BY <1>7, TotalIsMonotonic
<1>9. /\ IntrinsicGas(clauses) = IF clauses = <<>> THEN Gas.tx + Gas.clause ELSE TotalGas(counted)
      /\ NodeGas(Append(Encode(b), s))
           = IF packed = <<>> THEN Gas.tx + Gas.clause ELSE TotalGas(charged)
  <2> HIDE DEF clauses, packed
  <2> QED
    BY <1>2 DEF IntrinsicGas, NodeGas, counted, charged
<1>10. Gas.tx \in Nat /\ Gas.clause \in Nat
  BY SignedTransactionsAssumption
<1>11. IntrinsicGas(clauses) >= NodeGas(Append(Encode(b), s))
  <2> HIDE DEF clauses, packed
  <2>1. CASE clauses = <<>>
    BY <1>5, <1>9, <1>10, <2>1
  <2>2. CASE clauses # <<>>
    BY <1>5, <1>8, <1>9, <2>2
  <2> QED
    BY <2>1, <2>2
<1>12. (\A i \in DOMAIN clauses : ~ Negative(clauses[i].data))
          => IntrinsicGas(clauses) = NodeGas(Append(Encode(b), s))
  <2> HIDE DEF clauses, packed
  <2> QED
    BY <1>1, <1>5, <1>6, <1>9
<1> QED
  BY <1>11, <1>12

-----------------------------------------------------------------------------
(***************************************************************************)
(* The invariant.                                                          *)
(***************************************************************************)
\* Two parts put together.
LEMMA BothParts ==
  ASSUME NEW T, NEW x \in T, NEW y \in T
  PROVE  <<x>> \o <<y>> = <<x, y>>
<1> DEFINE s == <<x>> \o <<y>>
<1>1. <<x>> \in Seq(T) /\ <<y>> \in Seq(T) /\ Len(<<x>>) = 1 /\ Len(<<y>>) = 1
      /\ <<x>>[1] = x /\ <<y>>[1] = y
  OBVIOUS
<1>2. s \in Seq(T) /\ Len(s) = 2 
  BY <1>1
<1>3. s[1] = x
  BY <1>1
<1>4. s[2] = y
  BY <1>1
<1>5. <<x, y>> \in Seq(T) /\ Len(<<x, y>>) = 2
  OBVIOUS
<1> HIDE DEF s
<1>6. s = <<x, y>>
  BY <1>2, <1>3, <1>4, <1>5
<1> QED BY <1>6 DEF s

\* The types of the variables but what is decoded.
TypeInv ==
  /\ place \in {"body", "asked", "signed", "posted", "read", "refused"}
  /\ body \in Body
  /\ payer \in Keys \union {"none"}
  /\ origin \in Keys \union {Absent}
  /\ signature = Absent \/ Len(signature) \in {1, 2}

\* Until it is signed nobody pays.  What is signed is the body, by the origin and, exactly
\* if it is delegated, by the payer for the origin.
SignedBody ==
  /\ place \in {"body", "asked"} => payer = "none"
  /\ place \in {"asked", "signed", "posted"} => Usable
  /\ place = "asked" => raw = Encode(body)
  /\ place \in {"signed", "posted"} =>
       /\ IsSignatureValid(body, signature)
       /\ signature[1] = Part(SignatureHash(body, Absent), origin)
       /\ IsDelegated(body) <=> payer # "none"
       /\ IsDelegated(body) => signature[2] = Part(SignatureHash(body, origin), payer)

\* What is posted is the body and its signature, what is read came from elsewhere, and
\* decode has taken both.
WasDecoded ==
  /\ place = "posted" => raw = Append(Encode(body), signature)
  /\ place = "read" => raw \in Foreign /\ \E signed \in BOOLEAN : Decodable(raw, signed)

SInv == TypeInv /\ SignedBody /\ WasDecoded

\* Of a valid signature there are one or two parts.
LEMMA SignatureLength ==
  ASSUME NEW b, NEW s, IsSignatureValid(b, s)
  PROVE  Len(s) \in {1, 2} /\ (IsDelegated(b) => Len(s) = 2) /\ (~ IsDelegated(b) => Len(s) = 1)
BY DEF IsSignatureValid

\* It holds of every body that is given.
LEMMA SInvInit == Init => SInv
BY BodiesAssumption DEF Init, SInv, TypeInv, SignedBody, WasDecoded

\* Every step keeps it; the delegator signs what it decoded, which is the same body.
LEMMA SInvNext == SInv /\ [Next]_vars => SInv'
<1> SUFFICES ASSUME SInv, [Next]_vars PROVE SInv'
  OBVIOUS
<1>1. TypeInv /\ SignedBody /\ WasDecoded
  BY DEF SInv
<1>2. ASSUME Refused PROVE SInv'
  BY <1>1, <1>2 DEF Refused, SInv, TypeInv, SignedBody, WasDecoded
<1>3. ASSUME body' = body PROVE Usable' <=> Usable
  BY <1>3 DEF Usable
<1>4. ASSUME place = "body", Usable, ~ IsDelegated(body), NEW key \in Keys,
             signature' = <<Part(SignatureHash(body, Absent), key)>>,
             place' = "signed", origin' = key, UNCHANGED <<body, payer, raw>>
      PROVE  SInv'
  <2>1. Len(signature') = 1 /\ signature'[1] = Part(SignatureHash(body, Absent), key)
    BY <1>4
  <2>2. TypeInv'
    BY <1>1, <1>4, <2>1 DEF TypeInv
  <2>3. SignedBody'
    BY <1>1, <1>3, <1>4, <2>1 DEF SignedBody, IsSignatureValid
  <2>4. WasDecoded'
    BY <1>4 DEF WasDecoded
  <2> QED
    BY <2>2, <2>3, <2>4 DEF SInv
<1>5. ASSUME NEW key \in Keys, Sign(key) PROVE SInv'
  BY <1>2, <1>4, <1>5 DEF Sign
<1>6. ASSUME NEW key \in Keys, NEW delegator \in Keys, SignWithDelegator(key, delegator)
      PROVE  SInv'
  <2>1. CASE Usable /\ IsDelegated(body)
    <3>1. /\ Len(signature') = 2 /\ signature'[1] = Part(SignatureHash(body, Absent), key)
          /\ signature'[2] = Part(SignatureHash(body, key), delegator)
          /\ place' = "signed" /\ origin' = key /\ payer' = delegator
          /\ UNCHANGED <<body, raw>>
      BY <1>6, <2>1 DEF SignWithDelegator
    <3>2. TypeInv'
      BY <1>1, <3>1 DEF TypeInv
    <3>3. SignedBody'
      BY <1>3, <2>1, <3>1, AbsentAssumption DEF SignedBody, IsSignatureValid
    <3>4. WasDecoded'
      BY <3>1 DEF WasDecoded
    <3> QED
      BY <3>2, <3>3, <3>4 DEF SInv
  <2>2. CASE ~ (Usable /\ IsDelegated(body))
    BY <1>2, <1>6, <2>2 DEF SignWithDelegator
  <2> QED
    BY <2>1, <2>2
<1>7. ASSUME NEW key \in Keys, AskDelegator(key) PROVE SInv'
  <2>1. CASE Usable
    <3>1. /\ raw' = Encode(body) /\ place' = "asked" /\ origin' = key /\ place = "body"
          /\ UNCHANGED <<body, payer, signature>>
      BY <1>7, <2>1 DEF AskDelegator
    <3>2. TypeInv'
      BY <1>1, <3>1 DEF TypeInv
    <3>3. SignedBody'
      BY <1>1, <1>3, <2>1, <3>1 DEF SignedBody
    <3>4. WasDecoded'
      BY <3>1 DEF WasDecoded
    <3> QED
      BY <3>2, <3>3, <3>4 DEF SInv
  <2>2. CASE ~ Usable
    BY <1>2, <1>7, <2>2 DEF AskDelegator
  <2> QED
    BY <2>1, <2>2
<1>8. ASSUME NEW delegator \in Keys, DelegatorSigns(delegator) PROVE SInv'
  <2> DEFINE p == Part(SignatureHash(DecodedBody(raw), origin), delegator)
             q == Part(SignatureHash(body, Absent), origin)
  <2>1. place = "asked" /\ Usable /\ raw = Encode(body)
    BY <1>1, <1>8 DEF DelegatorSigns, SignedBody
  <2>2. p = Part(SignatureHash(body, origin), delegator)
    <3>1. Encode(DecodedBody(raw)) = Encode(body)
      BY <1>1, <2>1, EncodingDecodes DEF TypeInv, Usable
    <3> QED
      BY <3>1 DEF SignatureHash
  <2>3. <<q>> \o <<p>> = <<q, p>>
    <3>1. q \in {p, q} /\ p \in {p, q}
      OBVIOUS
    <3> HIDE DEF p, q
    <3> QED
      BY <3>1, BothParts
  <2>4. CASE IsSignatureValid(body, <<q, p>>)
    <3>1. /\ signature' = <<q, p>> /\ place' = "signed" /\ payer' = delegator
          /\ UNCHANGED <<body, origin, raw>>
      BY <1>8, <2>3, <2>4 DEF DelegatorSigns, Answered
    <3>2. IsDelegated(body) /\ Len(signature') = 2 /\ signature'[1] = q /\ signature'[2] = p
      BY <2>4, <3>1, SignatureLength
    <3>3. TypeInv'
      BY <1>1, <3>1, <3>2 DEF TypeInv
    <3> HIDE DEF p
    <3>4. SignedBody'
      BY <1>3, <2>1, <2>2, <3>1, <3>2, AbsentAssumption DEF SignedBody, IsSignatureValid
    <3>5. WasDecoded'
      BY <3>1 DEF WasDecoded
    <3> QED
      BY <3>3, <3>4, <3>5 DEF SInv
  <2>5. CASE ~ IsSignatureValid(body, <<q, p>>)
    BY <1>2, <1>8, <2>3, <2>5 DEF DelegatorSigns, Answered
  <2> QED
    BY <2>4, <2>5
<1>9. ASSUME NEW delegator \in Keys, DelegatorFails(delegator) PROVE SInv'
  <2> DEFINE q == Part(SignatureHash(body, Absent), origin)
             x == Part(SignatureHash(body, origin), delegator)
             both(n) == <<q>> \o [i \in 1 .. n |-> x]
  <2>1. place = "asked" /\ Usable /\ payer = "none"
    BY <1>1, <1>9 DEF DelegatorFails, SignedBody
  <2>2. PICK n \in {0, 2} : Answered([i \in 1 .. n |-> x], "none")
    BY <1>9 DEF DelegatorFails
  <2>3. Len(both(n)) = n + 1 /\ both(n)[1] = q
    OBVIOUS
  <2>4. CASE IsSignatureValid(body, both(n))
    <3>1. /\ signature' = both(n) /\ place' = "signed" /\ payer' = "none"
          /\ UNCHANGED <<body, origin, raw>>
      BY <2>2, <2>4 DEF Answered
    <3> HIDE DEF both, q
    <3>2. Len(signature') = 1 /\ signature'[1] = q /\ ~ IsDelegated(body)
      BY <2>3, <2>4, <3>1, SignatureLength
    <3>3. TypeInv'
      BY <1>1, <3>1, <3>2 DEF TypeInv
    <3>4. SignedBody'
      BY <1>3, <2>1, <3>1, <3>2 DEF SignedBody, IsSignatureValid, q
    <3>5. WasDecoded'
      BY <3>1 DEF WasDecoded
    <3> QED
      BY <3>3, <3>4, <3>5 DEF SInv
  <2>5. CASE ~ IsSignatureValid(body, both(n))
    BY <1>2, <2>2, <2>5 DEF Answered
  <2> QED
    BY <2>4, <2>5
<1>10. ASSUME Post PROVE SInv'
  <2>1. CASE Decodable(Append(Encode(body), signature), TRUE)
    <3>1. /\ place = "signed" /\ raw' = Append(Encode(body), signature) /\ place' = "posted"
          /\ UNCHANGED <<body, payer, origin, signature>>
      BY <1>10, <2>1 DEF Post
    <3>2. TypeInv'
      BY <1>1, <3>1 DEF TypeInv
    <3>3. SignedBody'
      BY <1>1, <1>3, <3>1 DEF SignedBody
    <3>4. WasDecoded'
      BY <3>1 DEF WasDecoded
    <3> QED
      BY <3>2, <3>3, <3>4 DEF SInv
  <2>2. CASE ~ Decodable(Append(Encode(body), signature), TRUE)
    BY <1>2, <1>10, <2>2 DEF Post
  <2> QED
    BY <2>1, <2>2
<1>11. ASSUME NEW r \in Foreign, NEW signed \in BOOLEAN, Read(r, signed) PROVE SInv'
  <2>1. CASE Decodable(r, signed)
    <3>1. /\ place = "body" /\ raw' = r /\ place' = "read"
          /\ UNCHANGED <<body, payer, origin, signature>>
      BY <1>11, <2>1 DEF Read
    <3>2. TypeInv'
      BY <1>1, <3>1 DEF TypeInv
    <3>3. SignedBody'
      BY <3>1 DEF SignedBody
    <3>4. WasDecoded'
      BY <2>1, <3>1 DEF WasDecoded
    <3> QED
      BY <3>2, <3>3, <3>4 DEF SInv
  <2>2. CASE ~ Decodable(r, signed)
    BY <1>2, <1>11, <2>2 DEF Read
  <2> QED
    BY <2>1, <2>2
<1>12. ASSUME UNCHANGED vars PROVE SInv'
  BY <1>1, <1>12 DEF vars, SInv, TypeInv, SignedBody, WasDecoded, Usable
<1> QED
  BY <1>5, <1>6, <1>7, <1>8, <1>9, <1>10, <1>11, <1>12 DEF Next

\* The invariant, of TransactionHandler.sign, signWithDelegator, decode and _signWithDelegator.
THEOREM SignedInvariant == Spec => []SInv
BY SInvInit, SInvNext, PTL DEF Spec

-----------------------------------------------------------------------------
\* What has been decoded is an unsigned raw transaction that the profile takes, with
\* a signature behind it or not.
LEMMA DecodedParts ==
  ASSUME SInv, Decoded
  PROVE  \E u \in Unsigned :
           /\ SubSeq(raw, 1, 9) = u /\ Unpackable(u) /\ ReservedOk(u[9])
           /\ DecodedBody(raw) = DecodedBody(u)
           /\ Len(raw) = 10 => IsSignatureValid(DecodedBody(raw), raw[10])
<1>1. CASE place = "posted"
  <2> DEFINE u == Encode(body)
  <2>1. body \in Body /\ IsValidBody(body) /\ Encodable(body) /\ raw = Append(u, signature)
        /\ IsSignatureValid(body, signature)
    BY <1>1 DEF SInv, TypeInv, SignedBody, WasDecoded, Usable
  <2>2. u \in Unsigned /\ Unpackable(u) /\ ReservedOk(u[9])
    BY <2>1, EncodingTaken
  <2>3. /\ Decodable(raw, TRUE) /\ DecodedBody(raw) = DecodedBody(u)
    BY <2>1, EncodingDecodes
  <2> HIDE DEF u
  <2>4. SubSeq(raw, 1, 9) = u
    BY <2>1, <2>2, SignedParts
  <2>5. IsSignatureValid(DecodedBody(raw), raw[10])
    BY <2>3 DEF Decodable
  <2> QED
    BY <2>2, <2>3, <2>4, <2>5
<1>2. CASE place = "read"
  <2> DEFINE u == SubSeq(raw, 1, 9)
  <2>1. PICK signed \in BOOLEAN : raw \in Foreign /\ Decodable(raw, signed)
    BY <1>2 DEF SInv, WasDecoded
  <2>2. raw = [i \in 1 .. Len(raw) |-> raw[i]] /\ Len(raw) \in {9, 10} /\ u \in Unsigned
    BY <2>1, ForeignAssumption
  <2>3. \A i \in 1 .. 9 : raw[i] = u[i]
    <3> DEFINE T == {raw[i] : i \in 1 .. Len(raw)}
    <3>1. raw \in [1 .. Len(raw) -> T]
      BY <2>2
    <3> HIDE DEF T
    <3>2. raw \in Seq(T)
      <4>1. Len(raw) \in Nat
        BY <2>2
      <4> QED
        BY <3>1, <4>1, FunctionIsSequence
    <3> QED
      BY <2>2, <3>2
  <2> HIDE DEF u
  <2>4. Unpackable(u) /\ ReservedOk(u[9]) /\ DecodedBody(raw) = DecodedBody(u)
    BY <2>1, <2>2, <2>3, DecodedOfParts DEF Decodable
  <2>5. Len(raw) = 10 => IsSignatureValid(DecodedBody(raw), raw[10])
    BY <2>1 DEF Decodable
  <2> QED
    BY <2>2, <2>4, <2>5 DEF u
<1> QED
  BY <1>1, <1>2 DEF Decoded

\* Whatever raw transaction TransactionHandler.decode takes, from here or elsewhere, is the
\* encoding of what it makes of it: no other bytes read as the same transaction.
THEOREM EncodedOnce == Spec => []OneEncoding
<1>1. SInv => OneEncoding
  BY DecodedParts, DecodedIsWhole DEF OneEncoding
<1> QED
  BY <1>1, SignedInvariant, PTL

\* What decode gives is a whole body, every field of which can be encoded again; and the
\* types of all else.
THEOREM TypeCorrect == Spec => []TypeOK
<1>1. SInv => TypeOK
  <2> SUFFICES ASSUME SInv PROVE TypeOK
    OBVIOUS
  <2>1. ASSUME Decoded
        PROVE  /\ DecodedBody(raw) \in Body /\ Encodable(DecodedBody(raw))
               /\ Absent \notin {DecodedBody(raw)[f] : f \in Required}
    <3>1. PICK u \in Unsigned : /\ Unpackable(u) /\ ReservedOk(u[9])
                                /\ DecodedBody(raw) = DecodedBody(u)
      BY <2>1, DecodedParts
    <3>2. /\ DecodedBody(u) \in Body /\ Encodable(DecodedBody(u))
          /\ \A f \in Required : DecodedBody(u)[f] # Absent
      BY <3>1, DecodedIsWhole
    <3> QED
      BY <3>1, <3>2
  <2> QED
    BY <2>1 DEF SInv, TypeInv, TypeOK
<1> QED
  BY <1>1, SignedInvariant, PTL

\* What is sent to a delegator, signed or posted is taken by decode, and the node reads
\* out of it the origin, the delegator exactly if there is one, and what was given.
THEOREM ReadBack == Spec => []ReadAsSigned
<1>1. SInv => ReadAsSigned
  <2> SUFFICES ASSUME SInv PROVE ReadAsSigned
    OBVIOUS
  <2> DEFINE u == Encode(body)
             b == DecodedBody(raw)
             s == raw[10]
  <2>1. body \in Body
    BY DEF SInv, TypeInv
  <2>2. ASSUME place = "asked" PROVE Decodable(raw, FALSE)
    <3>1. IsValidBody(body) /\ Encodable(body) /\ raw = u
      BY <2>2 DEF SInv, SignedBody, Usable
    <3> QED
      BY <2>1, <3>1, EncodingDecodes
  <2>3. ASSUME place = "signed" PROVE Decodable(Append(u, signature), TRUE)
    <3>1. IsValidBody(body) /\ Encodable(body) /\ IsSignatureValid(body, signature)
      BY <2>3 DEF SInv, SignedBody, Usable
    <3> QED
      BY <2>1, <3>1, EncodingDecodes
  <2>4. ASSUME place = "posted"
        PROVE  /\ OriginOf(b, s) = origin
               /\ IsDelegated(b) <=> payer # "none"
               /\ IsDelegated(b) => DelegatorOf(b, s) = payer
               /\ SameBody(body, b)
    <3>1. /\ IsValidBody(body) /\ Encodable(body) /\ raw = Append(u, signature)
          /\ signature[1] = Part(SignatureHash(body, Absent), origin)
          /\ IsDelegated(body) <=> payer # "none"
          /\ IsDelegated(body) => signature[2] = Part(SignatureHash(body, origin), payer)
      BY <2>4 DEF SInv, SignedBody, WasDecoded, Usable
    <3>2. /\ b = DecodedBody(u) /\ s = signature /\ Encode(b) = u
          /\ IsDelegated(b) <=> IsDelegated(body)
      BY <2>1, <3>1, EncodingDecodes
    <3>3. SameBody(body, b)
      BY <2>1, <3>1, <3>2, EncodingTaken
    <3> HIDE DEF b, s
    <3>4. \A for : SignatureHash(b, for) = SignatureHash(body, for)
      BY <3>2 DEF SignatureHash
    <3>5. OriginOf(b, s) = origin
      BY <3>1, <3>2, <3>4 DEF OriginOf, Recovered, Part
    <3>6. IsDelegated(b) => DelegatorOf(b, s) = payer
      BY <3>1, <3>2, <3>4, <3>5 DEF DelegatorOf, Recovered, Part
    <3> QED
      BY <3>1, <3>2, <3>3, <3>5, <3>6
  <2>5. SameBody(body, b) =>
          \A f \in {"chainTag", "expiration", "gasPriceCoef", "gas", "nonce", "features"} :
            b[f].n = body[f].n
    BY DEF SameBody
  <2> HIDE DEF b
  <2> QED
    BY <2>2, <2>3, <2>4, <2>5 DEF ReadAsSigned, SameBody, b
<1> QED
  BY <1>1, SignedInvariant, PTL

\* intrinsicGas counts at least what the node does on every transaction that is posted, and
\* the same unless data is negative: on contract creations, on data without its prefix, and
\* on no clauses at all.
THEOREM GasAgrees == Spec => []GasOfEncoding
<1>1. SInv => GasOfEncoding
  <2> SUFFICES ASSUME SInv, place = "posted",
                      \A i \in DOMAIN body.clauses : ~ Negative(body.clauses[i].to)
               PROVE  /\ IntrinsicGas(body.clauses) >= NodeGas(raw)
                      /\ (\A i \in DOMAIN body.clauses : ~ Negative(body.clauses[i].data))
                           => IntrinsicGas(body.clauses) = NodeGas(raw)
    BY DEF GasOfEncoding
  <2>1. /\ body \in Body /\ IsValidBody(body) /\ Encodable(body)
        /\ raw = Append(Encode(body), signature)
    BY DEF SInv, TypeInv, SignedBody, WasDecoded, Usable
  <2> QED
    BY <2>1, EncodingCosts
<1> QED
  BY <1>1, SignedInvariant, PTL
==============================================================================
