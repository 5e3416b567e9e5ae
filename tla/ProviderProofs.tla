--------------------------- MODULE ProviderProofs ---------------------------
(***************************************************************************)
(* Where the JSON-RPC methods say that transactions and logs are, that a   *)
(* filter of logs finds what it asks for, and that every call is answered  *)
(* once: for any branches and blocks, any calls, batches and failures.     *)
(*                                                                         *)
(* A result is made of several answers of the node, from different trunks. *)
(* The argument is that each of them names its block by id, so that what   *)
(* was found in a block is still in it: Collected for the receipts, Kept   *)
(* for the methods that keep a block between two answers.                  *)
(***************************************************************************)
EXTENDS Provider, TLAPS, WellFoundedInduction

-----------------------------------------------------------------------------
(***************************************************************************)
(* Induction.                                                              *)
(***************************************************************************)
\* A set of numbers that is not empty has a least member: induction as the least
\* counterexample.
LEMMA LeastNumber ==
  ASSUME NEW T \in SUBSET Nat, T # {}
  PROVE  \E n \in T : \A m \in T : n <= m
<1>1. IsWellFoundedOn(OpToRel(<, Nat), Nat)
  BY NatLessThanWellFounded
<1>2. PICK n \in T : \A m \in T : ~ (<<m, n>> \in OpToRel(<, Nat))
  BY <1>1, WFMin
<1>3. \A m \in T : ~ (m < n)
  BY <1>2 DEF OpToRel
<1> QED
  BY <1>3

\* A set that holds 0 and, with a number below N, the next, holds all up to N.
LEMMA UpTo ==
  ASSUME NEW N \in Nat, NEW S, 0 \in S, \A n \in 0 .. N - 1 : n \in S => n + 1 \in S
  PROVE  0 .. N \subseteq S
<1> DEFINE T == (0 .. N) \ S
<1>1. SUFFICES ASSUME T # {} PROVE FALSE
  OBVIOUS
<1>2. T \in SUBSET Nat
  OBVIOUS
<1>3. PICK n \in T : \A m \in T : n <= m
  <2> HIDE DEF T
  <2> QED
    BY <1>1, <1>2, LeastNumber
<1>4. n \in 0 .. N /\ n # 0 /\ n \notin S
  OBVIOUS
<1>5. n - 1 \in 0 .. N - 1 /\ n - 1 \in S
  BY <1>3, <1>4
<1> QED
  BY <1>4, <1>5

-----------------------------------------------------------------------------
(***************************************************************************)
(* Sequences put together, and what is selected of one.                    *)
(***************************************************************************)
\* What is made from base, by a step for each number up to n.
Steps(f, base, grow, n) ==
  /\ f[0] = base
  /\ \A i \in 1 .. n : f[i] = grow[i][f[i - 1]]

\* There is such a function, whatever the steps.
LEMMA StepsExist ==
  ASSUME NEW A, NEW base \in A, NEW N \in Nat, NEW grow \in [1 .. N -> [A -> A]]
  PROVE  \E f \in [0 .. N -> A] : Steps(f, base, grow, N)
<1> DEFINE Solves(f, n) == f \in [0 .. n -> A] /\ Steps(f, base, grow, n)
           S == {n \in 0 .. N : \E f : Solves(f, n)}
<1>1. 0 \in S
  <2> DEFINE f == [i \in 0 .. 0 |-> base]
  <2>1. Solves(f, 0)
    BY DEF Steps
  <2> HIDE DEF Solves, f
  <2> QED
    BY <2>1
<1>2. ASSUME NEW n \in 0 .. N - 1, n \in S PROVE n + 1 \in S
  <2>1. PICK f : Solves(f, n)
    BY <1>2
  <2>2. n + 1 \in 1 .. N /\ n + 1 \in 0 .. N /\ n \in 0 .. n
    OBVIOUS
  <2> DEFINE last == grow[n + 1][f[n]]
             g == [i \in 0 .. n + 1 |-> IF i = n + 1 THEN last ELSE f[i]]
  <2>3. last \in A
    BY <2>1, <2>2
  <2> HIDE DEF last
  <2>4. g \in [0 .. n + 1 -> A]
    BY <2>1, <2>3
  <2>5. g[0] = base
    BY <2>1 DEF Steps
  <2>6. ASSUME NEW i \in 1 .. n + 1 PROVE g[i] = grow[i][g[i - 1]]
    <3>1. g[i - 1] = f[i - 1]
      OBVIOUS
    <3>2. CASE i = n + 1
      BY <3>1, <3>2 DEF last
    <3>3. CASE i # n + 1
      <4>1. i \in 1 .. n /\ g[i] = f[i]
        BY <3>3
      <4> QED
        BY <2>1, <3>1, <4>1 DEF Steps
    <3> QED
      BY <3>2, <3>3
  <2> HIDE DEF g
  <2>7. Solves(g, n + 1)
    BY <2>4, <2>5, <2>6 DEF Steps
  <2> HIDE DEF Solves
  <2> QED
    BY <2>2, <2>7
<1>3. N \in S
  <2> HIDE DEF S
  <2>1. 0 .. N \subseteq S
    BY <1>1, <1>2, UpTo
  <2> QED
    BY <2>1
<1> QED
  BY <1>3

\* What the first of n sequences are together, and FlattenSeq all of them.
Joins(f, seqs, n) ==
  /\ f[1] = seqs[1]
  /\ \A i \in 2 .. n : f[i] = f[i - 1] \o seqs[i]
  /\ FlattenSeq(seqs) = f[n]

\* Sequences are put together one after the other.
LEMMA FlattenEquation ==
  ASSUME NEW A, NEW N \in Nat \ {0}, NEW seqs \in [1 .. N -> Seq(A)]
  PROVE  \E f \in [1 .. N -> Seq(A)] : Joins(f, seqs, N)
<1> DEFINE All == Seq(A)
           grow == [i \in 1 .. N |-> [t \in All |-> IF i = 1 THEN seqs[i] ELSE t \o seqs[i]]]
           Q(h) == h = [i \in 1 .. N |-> IF i = 1 THEN seqs[i] ELSE h[i - 1] \o seqs[i]]
           h == CHOOSE k : Q(k)
<1>1. PICK g \in [0 .. N -> All] : Steps(g, <<>>, grow, N)
  <2>1. \A i \in 1 .. N, t \in All : seqs[i] \in All /\ t \o seqs[i] \in All
    OBVIOUS
  <2>2. <<>> \in All
    OBVIOUS
  <2> HIDE DEF All
  <2>3. grow \in [1 .. N -> [All -> All]]
    BY <2>1
  <2> HIDE DEF grow
  <2> QED
    BY <2>2, <2>3, StepsExist
<1> DEFINE f == [i \in 1 .. N |-> g[i]]
<1>2. f \in [1 .. N -> All]
  <2> HIDE DEF All
  <2> QED
    BY <1>1
<1>3. \A i \in 1 .. N : f[i] = IF i = 1 THEN seqs[i] ELSE f[i - 1] \o seqs[i]
  <2> TAKE i \in 1 .. N
  <2>1. g[i - 1] \in All /\ f[i] = g[i] /\ (i # 1 => f[i - 1] = g[i - 1])
    <3> HIDE DEF All
    <3> QED
      BY <1>1
  <2>2. g[i] = grow[i][g[i - 1]]
    BY <1>1 DEF Steps
  <2> HIDE DEF All, f
  <2>3. grow[i][g[i - 1]] = IF i = 1 THEN seqs[i] ELSE g[i - 1] \o seqs[i]
    BY <2>1
  <2> QED
    BY <2>1, <2>2, <2>3
<1>4. Q(f)
  <2>1. f = [i \in 1 .. N |-> f[i]]
    OBVIOUS
  <2> HIDE DEF f
  <2> QED
    BY <1>3, <2>1
<1>5. Q(h)
  <2> HIDE DEF Q
  <2> QED
    BY <1>4
<1>6. Len(seqs) = N
  OBVIOUS
<1>7. FlattenSeq(seqs) = h[N]
  BY <1>6 DEF FlattenSeq
<1> HIDE DEF h, f
<1>8. DOMAIN h = 1 .. N /\ \A i \in 1 .. N : h[i] = IF i = 1 THEN seqs[i] ELSE h[i - 1] \o seqs[i]
  BY <1>5
<1> DEFINE T == {n \in 0 .. N : n = 0 \/ h[n] = f[n]}
<1>9. ASSUME NEW n \in 0 .. N - 1, n \in T PROVE n + 1 \in T
  <2>1. n + 1 \in 1 .. N /\ (n + 1) - 1 = n /\ n + 1 \in 0 .. N
    OBVIOUS
  <2>2. /\ h[n + 1] = IF n + 1 = 1 THEN seqs[n + 1] ELSE h[n] \o seqs[n + 1]
        /\ f[n + 1] = IF n + 1 = 1 THEN seqs[n + 1] ELSE f[n] \o seqs[n + 1]
    BY <1>3, <1>8, <2>1
  <2>3. h[n + 1] = f[n + 1]
    BY <1>9, <2>1, <2>2
  <2> QED
    BY <2>1, <2>3
<1>10. 0 .. N \subseteq T
  <2>1. 0 \in T
    OBVIOUS
  <2> HIDE DEF T
  <2> QED
    BY <1>9, <2>1, UpTo
<1>11. h[N] = f[N]
  BY <1>10
<1>12. f \in [1 .. N -> Seq(A)]
  BY <1>2
<1>13. f[1] = seqs[1] /\ \A i \in 2 .. N : f[i] = f[i - 1] \o seqs[i]
  <2>1. f[1] = IF 1 = 1 THEN seqs[1] ELSE f[1 - 1] \o seqs[1]
    BY <1>3
  <2>2. ASSUME NEW i \in 2 .. N PROVE f[i] = f[i - 1] \o seqs[i]
    <3>1. i \in 1 .. N /\ i # 1
      OBVIOUS
    <3> QED
      BY <1>3, <3>1
  <2> QED
    BY <2>1, <2>2
<1>14. Joins(f, seqs, N)
  <2> HIDE DEF Q
  <2> QED
    BY <1>7, <1>11, <1>13 DEF Joins
<1> QED
  BY <1>12, <1>14

\* The elements of two sequences, one after the other.
LEMMA ToSetOfBoth ==
  ASSUME NEW A, NEW s \in Seq(A), NEW t \in Seq(A)
  PROVE  ToSet(s \o t) = ToSet(s) \union ToSet(t)
<1>1. /\ Len(s) \in Nat /\ Len(t) \in Nat
      /\ DOMAIN s = 1 .. Len(s) /\ DOMAIN t = 1 .. Len(t)
      /\ DOMAIN (s \o t) = 1 .. Len(s) + Len(t)
  OBVIOUS
<1>2. \A i \in 1 .. Len(s) : (s \o t)[i] = s[i]
  OBVIOUS
<1>3. \A i \in 1 .. Len(t) : (s \o t)[Len(s) + i] = t[i]
  OBVIOUS
<1>4. ASSUME NEW i \in 1 .. Len(s) + Len(t)
      PROVE  (s \o t)[i] \in ToSet(s) \union ToSet(t)
  <2>1. CASE i <= Len(s)
    BY <1>1, <1>2, <2>1 DEF ToSet
  <2>2. CASE i > Len(s)
    <3>1. i - Len(s) \in 1 .. Len(t) /\ Len(s) + (i - Len(s)) = i
      BY <1>1, <2>2
    <3>2. (s \o t)[i] = t[i - Len(s)]
      BY <1>3, <3>1
    <3> QED
      BY <1>1, <3>1, <3>2 DEF ToSet
  <2> QED
    BY <1>1, <2>1, <2>2
<1>5. ASSUME NEW i \in 1 .. Len(s) PROVE s[i] \in ToSet(s \o t)
  <2>1. i \in 1 .. Len(s) + Len(t)
    BY <1>1
  <2> QED
    BY <1>1, <1>2, <2>1 DEF ToSet
<1>6. ASSUME NEW i \in 1 .. Len(t) PROVE t[i] \in ToSet(s \o t)
  <2>1. Len(s) + i \in 1 .. Len(s) + Len(t)
    BY <1>1
  <2> QED
    BY <1>1, <1>3, <2>1 DEF ToSet
<1> QED
  BY <1>1, <1>4, <1>5, <1>6 DEF ToSet

\* Of what is put together, the elements are those of its parts.
LEMMA FlattenOnes ==
  ASSUME NEW A, NEW N \in Nat, NEW seqs \in [1 .. N -> Seq(A)]
  PROVE  /\ FlattenSeq(seqs) \in Seq(A)
         /\ ToSet(FlattenSeq(seqs)) = UNION {ToSet(seqs[i]) : i \in 1 .. N}
<1>1. CASE N = 0
  <2>1. Len(seqs) = 0 /\ seqs \in Seq(A) /\ DOMAIN seqs = {}
    BY <1>1
  <2> QED
    BY <1>1, <2>1 DEF FlattenSeq, ToSet
<1>2. CASE N # 0
  <2>1. PICK f \in [1 .. N -> Seq(A)] : Joins(f, seqs, N)
    <3>1. N \in Nat \ {0}
      BY <1>2
    <3> QED
      BY <3>1, FlattenEquation
  <2> DEFINE Up(n) == UNION {ToSet(seqs[i]) : i \in 1 .. n}
             S == {n \in 0 .. N : n = 0 \/ ToSet(f[n]) = Up(n)}
  <2>2. ASSUME NEW n \in 0 .. N - 1, n \in S PROVE n + 1 \in S
    <3>1. n + 1 \in 1 .. N /\ (n + 1) - 1 = n /\ n + 1 \in 0 .. N /\ seqs[n + 1] \in Seq(A)
      OBVIOUS
    <3>2. CASE n = 0
      <4>1. 1 .. 1 = {1}
        OBVIOUS
      <4>2. Up(1) = ToSet(seqs[1])
        BY <4>1
      <4>3. ToSet(f[n + 1]) = Up(n + 1)
        BY <2>1, <3>2, <4>2 DEF Joins
      <4> HIDE DEF Up
      <4> QED
        BY <3>1, <4>3
    <3>3. CASE n # 0
      <4>6. n + 1 \in 2 .. N /\ n \in 1 .. N
        BY <3>3
      <4>1. f[n + 1] = f[n] \o seqs[n + 1] /\ f[n] \in Seq(A)
        BY <2>1, <3>1, <4>6 DEF Joins
      <4>2. ToSet(f[n] \o seqs[n + 1]) = ToSet(f[n]) \union ToSet(seqs[n + 1])
        <5> DEFINE a == f[n]
                   b == seqs[n + 1]
        <5>1. a \in Seq(A) /\ b \in Seq(A)
          BY <3>1, <4>1
        <5> HIDE DEF a, b
        <5>2. ToSet(a \o b) = ToSet(a) \union ToSet(b)
          BY <5>1, ToSetOfBoth
        <5> QED
          BY <5>2 DEF a, b
      <4>3. 1 .. n + 1 = (1 .. n) \union {n + 1}
        OBVIOUS
      <4>4. Up(n + 1) = Up(n) \union ToSet(seqs[n + 1])
        BY <4>3
      <4>5. ToSet(f[n]) = Up(n)
        BY <2>2, <3>3
      <4> HIDE DEF Up
      <4> QED
        BY <3>1, <4>1, <4>2, <4>4, <4>5
    <3> QED
      BY <3>2, <3>3
  <2>3. 0 .. N \subseteq S
    <3>1. 0 \in S
      OBVIOUS
    <3> HIDE DEF S
    <3> QED
      BY <2>2, <3>1, UpTo
  <2>4. ToSet(f[N]) = Up(N)
    <3> HIDE DEF Up
    <3> QED
      BY <1>2, <2>3
  <2> QED
    BY <1>2, <2>1, <2>4 DEF Joins
<1> QED
  BY <1>1, <1>2

\* What is selected of the beginnings of a sequence.
Selects(v, s, members) ==
  /\ v[0] = <<>>
  /\ \A i \in 1 .. Len(s) :
       v[i] = IF s[i] \in members THEN Append(v[i - 1], s[i]) ELSE v[i - 1]
  /\ Selected(s, members) = v[Len(s)]

LEMMA SelectedEquation ==
  ASSUME NEW A, NEW s \in Seq(A), NEW members
  PROVE  \E v \in [0 .. Len(s) -> Seq(A)] : Selects(v, s, members)
<1> DEFINE N == Len(s)
           All == Seq(A)
           grow == [i \in 1 .. N |-> [t \in All |-> IF s[i] \in members THEN Append(t, s[i]) ELSE t]]
           Q(h) == h = [n \in 0 .. N |->
                          IF n = 0 THEN <<>>
                          ELSE IF s[n] \in members THEN Append(h[n - 1], s[n]) ELSE h[n - 1]]
           h == CHOOSE k : Q(k)
<1>1. N \in Nat /\ \A i \in 1 .. N : s[i] \in A
  OBVIOUS
<1>2. \A i \in 1 .. N, t \in All : Append(t, s[i]) \in All
  BY <1>1
<1>3. <<>> \in All
  OBVIOUS
<1>4. PICK f \in [0 .. N -> All] : Steps(f, <<>>, grow, N)
  <2> HIDE DEF All, N
  <2>1. grow \in [1 .. N -> [All -> All]]
    BY <1>2
  <2> HIDE DEF grow
  <2> QED
    BY <1>1, <1>3, <2>1, StepsExist
<1> HIDE DEF All
<1>5. ASSUME NEW i \in 1 .. N
      PROVE  f[i] = IF s[i] \in members THEN Append(f[i - 1], s[i]) ELSE f[i - 1]
  <2>2. i - 1 \in 0 .. N
    BY <1>1
  <2>3. f[i] = grow[i][f[i - 1]]
    BY <1>4 DEF Steps
  <2>1. f[i] = grow[i][f[i - 1]] /\ f[i - 1] \in All
    <3> HIDE DEF N, grow
    <3> QED
      BY <1>4, <2>2, <2>3
  <2> QED
    BY <2>1
<1>6. Q(f)
  <2>1. f[0] = <<>> /\ f = [n \in 0 .. N |-> f[n]]
    BY <1>4 DEF Steps
  <2>2. \A n \in 0 .. N : n # 0 => n \in 1 .. N
    BY <1>1
  <2> HIDE DEF N
  <2> QED
    BY <1>5, <2>1, <2>2
<1>7. Q(h)
  <2> HIDE DEF Q
  <2> QED
    BY <1>6
<1>8. Selected(s, members) = h[N]
  BY DEF Selected
<1> HIDE DEF h, grow
<1>9. DOMAIN h = 0 .. N /\ h[0] = <<>>
  BY <1>1, <1>7
<1>10. ASSUME NEW i \in 1 .. N
       PROVE  h[i] = IF s[i] \in members THEN Append(h[i - 1], s[i]) ELSE h[i - 1]
  <2>1. i \in 0 .. N /\ i # 0
    BY <1>1
  <2> QED
    BY <1>7, <2>1
<1> HIDE DEF Q
<1>11. h \in [0 .. N -> All]
  <2> DEFINE S == {n \in 0 .. N : h[n] \in All}
  <2>1. 0 \in S
    BY <1>1, <1>3, <1>9
  <2>2. ASSUME NEW n \in 0 .. N - 1, n \in S PROVE n + 1 \in S
    <3>1. n + 1 \in 1 .. N /\ (n + 1) - 1 = n /\ n + 1 \in 0 .. N
      BY <1>1
    <3>2. h[n + 1] = IF s[n + 1] \in members THEN Append(h[n], s[n + 1]) ELSE h[n]
      BY <1>10, <3>1
    <3>3. h[n] \in All /\ Append(h[n], s[n + 1]) \in All
      BY <1>2, <2>2, <3>1
    <3>4. h[n + 1] \in All
      BY <3>2, <3>3
    <3> QED
      BY <3>1, <3>4
  <2>3. 0 .. N \subseteq S
    <3> HIDE DEF S, N
    <3> QED
      BY <1>1, <2>1, <2>2, UpTo
  <2>4. h = [n \in 0 .. N |-> h[n]]
    BY <1>7 DEF Q
  <2> QED
    BY <2>3, <2>4
<1>12. Selects(h, s, members)
  BY <1>8, <1>9, <1>10 DEF Selects, N
<1> QED
  BY <1>11, <1>12 DEF All, N

\* The elements of a sequence that has one more.
LEMMA ToSetOfMore ==
  ASSUME NEW A, NEW s \in Seq(A), NEW e \in A
  PROVE  Append(s, e) \in Seq(A) /\ ToSet(Append(s, e)) = ToSet(s) \union {e}
<1> DEFINE t == Append(s, e)
<1>1. /\ Len(s) \in Nat /\ DOMAIN s = 1 .. Len(s) /\ DOMAIN t = 1 .. Len(s) + 1
      /\ t[Len(s) + 1] = e /\ \A i \in 1 .. Len(s) : t[i] = s[i]
  OBVIOUS
<1> HIDE DEF t
<1>2. \A i \in 1 .. Len(s) + 1 : t[i] \in ToSet(s) \union {e}
  BY <1>1 DEF ToSet
<1>3. \A i \in 1 .. Len(s) : s[i] \in ToSet(t)
  BY <1>1 DEF ToSet
<1>4. e \in ToSet(t)
  BY <1>1 DEF ToSet
<1>5. ToSet(t) = ToSet(s) \union {e}
  BY <1>1, <1>2, <1>3, <1>4 DEF ToSet
<1> QED
  BY <1>5 DEF t

\* The ones that are selected are the members.
LEMMA SelectedOnes ==
  ASSUME NEW A, NEW s \in Seq(A), NEW members
  PROVE  /\ Selected(s, members) \in Seq(A)
         /\ ToSet(Selected(s, members)) = ToSet(s) \intersect members
<1> DEFINE N == Len(s)
           Up(n) == {s[i] : i \in 1 .. n}
<1>1. PICK v \in [0 .. N -> Seq(A)] : Selects(v, s, members)
  BY SelectedEquation
<1>2. N \in Nat /\ DOMAIN s = 1 .. N /\ \A i \in 1 .. N : s[i] \in A
  OBVIOUS
<1> DEFINE S == {n \in 0 .. N : ToSet(v[n]) = Up(n) \intersect members}
<1>3. 0 \in S
  <2>1. v[0] = <<>> /\ Up(0) = {}
    BY <1>1 DEF Selects
  <2> QED
    BY <1>2, <2>1 DEF ToSet
<1>4. ASSUME NEW n \in 0 .. N - 1, n \in S PROVE n + 1 \in S
  <2>1. n + 1 \in 1 .. N /\ (n + 1) - 1 = n /\ n + 1 \in 0 .. N /\ n \in 0 .. N
    BY <1>2
  <2>2. v[n + 1] = IF s[n + 1] \in members THEN Append(v[n], s[n + 1]) ELSE v[n]
    BY <1>1, <2>1 DEF Selects
  <2>3. v[n] \in Seq(A) /\ s[n + 1] \in A
    BY <1>2, <2>1
  <2>4. ToSet(Append(v[n], s[n + 1])) = ToSet(v[n]) \union {s[n + 1]}
    BY <2>3, ToSetOfMore
  <2>5. Up(n + 1) = Up(n) \union {s[n + 1]}
    <3>1. 1 .. n + 1 = (1 .. n) \union {n + 1}
      BY <2>1
    <3> QED
      BY <3>1
  <2>6. ToSet(v[n]) = Up(n) \intersect members
    BY <1>4
  <2> HIDE DEF Up
  <2>7. ToSet(v[n + 1]) = Up(n + 1) \intersect members
    BY <2>2, <2>4, <2>5, <2>6
  <2> QED
    BY <2>1, <2>7
<1>5. 0 .. N \subseteq S
  <2> HIDE DEF S, N
  <2> QED
    BY <1>2, <1>3, <1>4, UpTo
<1>6. ToSet(v[N]) = Up(N) \intersect members
  <2>1. N \in S
    BY <1>2, <1>5
  <2> QED
    BY <2>1
<1>7. Selected(s, members) = v[N] /\ v[N] \in Seq(A)
  BY <1>1, <1>2 DEF Selects
<1> QED
  BY <1>2, <1>6, <1>7 DEF ToSet

\* When all before a place are members and none after it is, what is selected ends there.
LEMMA SelectedBeginning ==
  ASSUME NEW A, NEW s \in Seq(A), NEW members, NEW n \in 0 .. Len(s),
         \A i \in 1 .. n : s[i] \in members,
         \A i \in n + 1 .. Len(s) : s[i] \notin members
  PROVE  /\ Len(Selected(s, members)) = n
         /\ \A i \in 1 .. n : Selected(s, members)[i] = s[i]
<1> DEFINE N == Len(s)
<1>1. PICK v \in [0 .. N -> Seq(A)] : Selects(v, s, members)
  BY SelectedEquation
<1>2. N \in Nat /\ n \in Nat /\ DOMAIN s = 1 .. N /\ \A i \in 1 .. N : s[i] \in A
  OBVIOUS
<1> DEFINE Begins(t, k) == Len(t) = k /\ \A i \in 1 .. k : t[i] = s[i]
           S == {k \in 0 .. N : Begins(v[k], IF k <= n THEN k ELSE n)}
<1>3. 0 \in S
  <2>1. v[0] = <<>>
    BY <1>1 DEF Selects
  <2> QED
    BY <1>2, <2>1
<1>4. ASSUME NEW k \in 0 .. N - 1, k \in S PROVE k + 1 \in S
  <2>1. k + 1 \in 1 .. N /\ (k + 1) - 1 = k /\ k + 1 \in 0 .. N /\ k \in 0 .. N
    BY <1>2
  <2>2. v[k + 1] = IF s[k + 1] \in members THEN Append(v[k], s[k + 1]) ELSE v[k]
    BY <1>1, <2>1 DEF Selects
  <2>3. v[k] \in Seq(A) /\ s[k + 1] \in A
    BY <1>2, <2>1
  <2>4. CASE k < n
    <3>1. s[k + 1] \in members /\ k + 1 \in 1 .. n
      BY <1>2, <2>1, <2>4
    <3>2. Begins(v[k], k)
      BY <1>4, <2>4
    <3>3. Begins(Append(v[k], s[k + 1]), k + 1)
      <4> DEFINE t == v[k]
                 e == s[k + 1]
      <4>1. t \in Seq(A) /\ Len(t) = k /\ k \in Nat
        BY <2>3, <3>2
      <4> HIDE DEF t, e
      <4>2. Len(Append(t, e)) = k + 1 /\ Append(t, e)[k + 1] = e /\ \A i \in 1 .. k : Append(t, e)[i] = t[i]
        BY <4>1
      <4>3. \A i \in 1 .. k : t[i] = s[i]
        BY <3>2 DEF t
      <4>4. \A i \in 1 .. k + 1 : i \in 1 .. k \/ i = k + 1
        BY <4>1
      <4>5. Begins(Append(t, e), k + 1)
        BY <4>2, <4>3, <4>4 DEF e
      <4> QED
        BY <4>5 DEF t, e
    <3>4. Begins(v[k + 1], k + 1)
      BY <2>2, <3>1, <3>3
    <3>5. k + 1 <= n
      BY <1>2, <2>4
    <3> HIDE DEF Begins
    <3> QED
      BY <2>1, <3>4, <3>5
  <2>5. CASE k >= n
    <3>1. s[k + 1] \notin members
      BY <1>2, <2>1, <2>5
    <3>2. Begins(v[k], n)
      BY <1>2, <1>4, <2>1, <2>5
    <3> HIDE DEF Begins
    <3> QED
      BY <1>2, <2>1, <2>2, <2>5, <3>1, <3>2
  <2> QED
    BY <1>2, <2>1, <2>4, <2>5
<1>5. 0 .. N \subseteq S
  <2> HIDE DEF S, N
  <2> QED
    BY <1>2, <1>3, <1>4, UpTo
<1>6. Begins(v[N], n)
  <2>1. N \in S
    BY <1>2, <1>5
  <2> HIDE DEF Begins
  <2> QED
    BY <1>2, <2>1
<1>7. Selected(s, members) = v[N]
  BY <1>1 DEF Selects
<1> QED
  BY <1>6, <1>7

-----------------------------------------------------------------------------
(***************************************************************************)
(* The numbers of the logs of a block.                                     *)
(***************************************************************************)
\* The equation that LogsOfFirst is defined by has a solution.
LEMMA LogsExist ==
  ASSUME NEW b \in BlockIds
  PROVE  \E f : f = [n \in 0 .. Len(Content[b]) |->
                       IF n = 0 THEN 0 ELSE f[n - 1] + Events[b][Content[b][n]]]
<1> DEFINE N == Len(Content[b])
           e(n) == Events[b][Content[b][n]]
           P(m) == \E f : f = [n \in 0 .. m |-> IF n = 0 THEN 0 ELSE f[n - 1] + e(n)]
           S == {m \in 0 .. N : P(m)}
<1>1. N \in Nat
  BY ReceiptAssumption
<1>2. P(0)
  <2> DEFINE f == [n \in 0 .. 0 |-> 0]
  <2>1. f = [n \in 0 .. 0 |-> IF n = 0 THEN 0 ELSE f[n - 1] + e(n)]
    OBVIOUS
  <2> QED
    BY <2>1
<1>3. ASSUME NEW m \in 0 .. N - 1, P(m) PROVE P(m + 1)
  <2> HIDE DEF e, N
  <2>1. PICK g : g = [n \in 0 .. m |-> IF n = 0 THEN 0 ELSE g[n - 1] + e(n)]
    BY <1>3
  <2> DEFINE f == [n \in 0 .. m + 1 |-> IF n = m + 1 THEN g[m] + e(m + 1) ELSE g[n]]
  <2>2. ASSUME NEW n \in 0 .. m + 1 PROVE f[n] = IF n = 0 THEN 0 ELSE f[n - 1] + e(n)
    <3>1. CASE n = m + 1
      BY <1>1, <3>1
    <3>2. CASE n # m + 1
      BY <1>1, <2>1, <3>2
    <3> QED
      BY <3>1, <3>2
  <2>3. f = [n \in 0 .. m + 1 |-> f[n]]
    OBVIOUS
  <2> HIDE DEF f
  <2>4. f = [n \in 0 .. m + 1 |-> IF n = 0 THEN 0 ELSE f[n - 1] + e(n)]
    BY <2>2, <2>3
  <2> QED
    BY <2>4
<1>4. 0 .. N \subseteq S
  <2> HIDE DEF P, N
  <2>1. 0 \in S /\ \A m \in 0 .. N - 1 : m \in S => m + 1 \in S
    BY <1>1, <1>2, <1>3
  <2> HIDE DEF S
  <2> QED
    BY <1>1, <2>1, UpTo
<1>5. P(N)
  <2> HIDE DEF P, N
  <2> QED
    BY <1>1, <1>4
<1> QED
  BY <1>5

\* The equation holds of the function that it defines.
LEMMA LogsEquation ==
  ASSUME NEW b \in BlockIds
  PROVE  LogsOfFirst(b) = [n \in 0 .. Len(Content[b]) |->
                             IF n = 0 THEN 0
                             ELSE LogsOfFirst(b)[n - 1] + Events[b][Content[b][n]]]
<1> DEFINE Q(f) == f = [n \in 0 .. Len(Content[b]) |->
                          IF n = 0 THEN 0 ELSE f[n - 1] + Events[b][Content[b][n]]]
<1>1. \E f : Q(f)
  BY LogsExist
<1>2. LogsOfFirst(b) = CHOOSE f : Q(f)
  BY DEF LogsOfFirst
<1>3. Q(CHOOSE f : Q(f))
  <2> HIDE DEF Q
  <2> QED
    BY <1>1
<1>4. Q(LogsOfFirst(b))
  BY <1>2, <1>3
<1> QED
  BY <1>4

\* The logs of the first n transactions are as many as all of theirs: none at the
\* start, and with each transaction the number of its events more.
LEMMA LogsOfFirstOnes ==
  ASSUME NEW b \in BlockIds
  PROVE  /\ LogsOfFirst(b) \in [0 .. Len(Content[b]) -> Nat]
         /\ LogsOfFirst(b)[0] = 0
         /\ \A n \in 1 .. Len(Content[b]) :
              LogsOfFirst(b)[n] = LogsOfFirst(b)[n - 1] + Events[b][Content[b][n]]
<1> DEFINE N == Len(Content[b])
           L == LogsOfFirst(b)
           S == {m \in 0 .. N : L[m] \in Nat}
<1>1. N \in Nat /\ \A n \in 1 .. N : Events[b][Content[b][n]] \in Nat
  BY ReceiptAssumption
<1>2. L = [n \in 0 .. N |-> IF n = 0 THEN 0 ELSE L[n - 1] + Events[b][Content[b][n]]]
  BY LogsEquation
<1> HIDE DEF N, L
<1>3. L[0] = 0 /\ \A n \in 1 .. N : L[n] = L[n - 1] + Events[b][Content[b][n]]
  BY <1>1, <1>2
<1>4. 0 .. N \subseteq S
  <2>1. 0 \in S /\ \A m \in 0 .. N - 1 : m \in S => m + 1 \in S
    BY <1>1, <1>3
  <2> HIDE DEF S
  <2> QED
    BY <1>1, <2>1, UpTo
<1>5. L \in [0 .. N -> Nat]
  <2>1. L = [n \in 0 .. N |-> L[n]]
    BY <1>2
  <2>2. \A n \in 0 .. N : L[n] \in Nat
    BY <1>4
  <2> QED
    BY <2>1, <2>2
<1> QED
  BY <1>3, <1>5 DEF N, L

\* More transactions have no fewer logs.
LEMMA LogsGrow ==
  ASSUME NEW b \in BlockIds, NEW i \in 0 .. Len(Content[b]), NEW j \in 0 .. Len(Content[b]),
         i <= j
  PROVE  LogsOfFirst(b)[i] <= LogsOfFirst(b)[j]
<1> DEFINE N == Len(Content[b])
           L == LogsOfFirst(b)
           S == {m \in 0 .. N : m >= i => L[i] <= L[m]}
<1>1. N \in Nat /\ \A n \in 1 .. N : Events[b][Content[b][n]] \in Nat
  BY ReceiptAssumption
<1>2. /\ L \in [0 .. N -> Nat]
      /\ \A n \in 1 .. N : L[n] = L[n - 1] + Events[b][Content[b][n]]
  BY LogsOfFirstOnes
<1>3. i \in 0 .. N /\ j \in 0 .. N
  OBVIOUS
<1> HIDE DEF N, L
<1>4. 0 \in S
  BY <1>1, <1>2, <1>3
<1>5. ASSUME NEW m \in 0 .. N - 1, m \in S PROVE m + 1 \in S
  <2>1. L[m + 1] = L[m] + Events[b][Content[b][m + 1]] /\ m + 1 \in 1 .. N
    BY <1>1, <1>2
  <2>2. L[m] <= L[m + 1] /\ L[m] \in Nat /\ L[m + 1] \in Nat /\ L[i] \in Nat
    <3>1. m \in 0 .. N /\ m + 1 \in 0 .. N
      BY <1>1
    <3>2. L[m] \in Nat /\ L[m + 1] \in Nat /\ L[i] \in Nat
      BY <1>2, <1>3, <3>1
    <3>3. Events[b][Content[b][m + 1]] \in Nat
      BY <1>1, <2>1
    <3> QED
      BY <2>1, <3>2, <3>3
  <2>3. CASE m + 1 = i
    BY <1>1, <1>3, <2>2, <2>3
  <2>4. CASE m + 1 # i
    BY <1>1, <1>3, <1>5, <2>2, <2>4
  <2> QED
    BY <2>3, <2>4
<1>6. 0 .. N \subseteq S
  <2> HIDE DEF S
  <2> QED
    BY <1>1, <1>4, <1>5, UpTo
<1>7. L[i] <= L[j]
  BY <1>1, <1>3, <1>6
<1> QED
  BY <1>7 DEF L

\* The logs of the first k transactions, transaction by transaction, are all the
\* numbers from 0 on.
LEMMA LogsWithoutGap ==
  ASSUME NEW b \in BlockIds, NEW k \in 0 .. Len(Content[b])
  PROVE  UNION {LogsOfFirst(b)[j - 1] .. LogsOfFirst(b)[j] - 1 : j \in 1 .. k}
           = 0 .. LogsOfFirst(b)[k] - 1
<1> DEFINE N == Len(Content[b])
           L == LogsOfFirst(b)
           U(m) == UNION {L[j - 1] .. L[j] - 1 : j \in 1 .. m}
           S == {m \in 0 .. N : U(m) = 0 .. L[m] - 1}
<1>1. N \in Nat /\ k \in 0 .. N
  BY ReceiptAssumption
<1>2. L \in [0 .. N -> Nat] /\ L[0] = 0
  BY LogsOfFirstOnes
<1>3. \A i, j \in 0 .. N : i <= j => L[i] <= L[j]
  BY LogsGrow
<1> HIDE DEF N, L
<1>4. 0 \in S
  <2>1. U(0) = {}
    OBVIOUS
  <2>2. 0 .. L[0] - 1 = {}
    BY <1>2
  <2> QED
    BY <1>1, <2>1, <2>2
<1>5. ASSUME NEW m \in 0 .. N - 1, m \in S PROVE m + 1 \in S
  <2>1. L[m] \in Nat /\ L[m + 1] \in Nat /\ L[m] <= L[m + 1]
    BY <1>1, <1>2, <1>3
  <2>2. U(m + 1) = U(m) \union (L[m] .. L[m + 1] - 1)
    <3>1. 1 .. m + 1 = (1 .. m) \union {m + 1}
      BY <1>1
    <3>2. (m + 1) - 1 = m
      BY <1>1
    <3>3. U(m + 1) = U(m) \union (L[(m + 1) - 1] .. L[m + 1] - 1)
      BY <3>1, Zenon
    <3> QED
      BY <3>2, <3>3
  <2>3. (0 .. L[m] - 1) \union (L[m] .. L[m + 1] - 1) = 0 .. L[m + 1] - 1
    BY <2>1
  <2>4. U(m) = 0 .. L[m] - 1
    BY <1>5
  <2> HIDE DEF U
  <2>5. U(m + 1) = 0 .. L[m + 1] - 1
    BY <2>2, <2>3, <2>4
  <2> QED
    BY <1>1, <2>5
<1>6. 0 .. N \subseteq S
  <2> HIDE DEF S
  <2> QED
    BY <1>1, <1>4, <1>5, UpTo
<1>7. U(k) = 0 .. L[k] - 1
  <2> HIDE DEF U
  <2> QED
    BY <1>1, <1>6
<1> QED
  BY <1>7 DEF L

-----------------------------------------------------------------------------
(***************************************************************************)
(* Transactions and receipts in a block.                                   *)
(***************************************************************************)
Receipt == [tx : Txs, block : BlockIds, index : Nat, logs : SUBSET Nat]

\* The index of a transaction is its place, counted from 0.
LEMMA IndexOfPlace ==
  ASSUME NEW b \in BlockIds, NEW n \in 1 .. Len(Content[b])
  PROVE  Content[b][n] \in Txs /\ TransactionIndex(b, Content[b][n]) = n - 1
<1>1. Content[b] \in Seq(Txs) /\ IsInjective(Content[b])
  BY ReceiptAssumption
<1>2. n \in DOMAIN Content[b] /\ Content[b][n] \in Txs
  BY <1>1
<1>3. \A i \in DOMAIN Content[b] : Content[b][i] = Content[b][n] => i = n
  BY <1>1, <1>2 DEF IsInjective
<1>4. (CHOOSE i \in DOMAIN Content[b] : Content[b][i] = Content[b][n]) = n
  BY <1>2, <1>3
<1> QED
  BY <1>2, <1>4 DEF TransactionIndex

\* The index of a transaction that a block holds is within it, and is the
\* transaction's.
LEMMA IndexInBlock ==
  ASSUME NEW b \in BlockIds, NEW t, Contains(Content[b], t)
  PROVE  /\ t \in Txs
         /\ TransactionIndex(b, t) \in 0 .. Len(Content[b]) - 1
         /\ TransactionIndex(b, t) + 1 \in DOMAIN Content[b]
         /\ Content[b][TransactionIndex(b, t) + 1] = t
<1>1. Content[b] \in Seq(Txs)
  BY ReceiptAssumption
<1>2. PICK n \in 1 .. Len(Content[b]) : Content[b][n] = t
  BY DEF Contains
<1>3. t \in Txs /\ TransactionIndex(b, t) = n - 1
  BY <1>2, IndexOfPlace
<1> QED
  BY <1>1, <1>2, <1>3

\* The logs of a receipt are those between the transactions before it and the
\* transactions up to it.
LEMMA LogsOfReceipt ==
  ASSUME NEW b \in BlockIds, NEW n \in 1 .. Len(Content[b])
  PROVE  /\ FormatReceipt(b, Content[b][n]) \in Receipt
         /\ FormatReceipt(b, Content[b][n]).tx = Content[b][n]
         /\ FormatReceipt(b, Content[b][n]).block = b
         /\ FormatReceipt(b, Content[b][n]).index = n - 1
         /\ FormatReceipt(b, Content[b][n]).logs
              = LogsOfFirst(b)[n - 1] .. LogsOfFirst(b)[n] - 1
         /\ LogsAhead(b, Content[b][n]) + Events[b][Content[b][n]] = LogsOfFirst(b)[n]
<1> DEFINE t == Content[b][n]
           L == LogsOfFirst(b)
<1>1. t \in Txs /\ TransactionIndex(b, t) = n - 1
  BY IndexOfPlace
<1>2. Len(Content[b]) \in Nat
  BY ReceiptAssumption
<1>3. /\ n - 1 \in Nat /\ L[n - 1] \in Nat
      /\ L[n] = L[n - 1] + Events[b][t]
  BY <1>2, LogsOfFirstOnes
<1>4. LogsAhead(b, t) = L[n - 1]
  BY <1>1 DEF LogsAhead
<1>5. LogsAhead(b, t) + Events[b][t] = L[n]
  BY <1>3, <1>4
<1> HIDE DEF t, L
<1>6. FormatReceipt(b, t) = [tx |-> t, block |-> b, index |-> n - 1,
                             logs |-> L[n - 1] .. L[n] - 1]
  <2>1. FormatReceipt(b, t) =
          [tx |-> t, block |-> b, index |-> TransactionIndex(b, t),
           logs |-> LogsAhead(b, t) .. LogsAhead(b, t) + Events[b][t] - 1]
    BY Zenon DEF FormatReceipt
  <2>2. LogsAhead(b, t) .. LogsAhead(b, t) + Events[b][t] - 1 = L[n - 1] .. L[n] - 1
    <3>1. Events[b][t] \in Nat /\ L[n - 1] \in Nat
      BY <1>1, <1>3, ReceiptAssumption
    <3>2. LogsAhead(b, t) + (Events[b][t] - 1) = L[n] - 1
      BY <1>3, <1>4, <3>1
    <3> QED
      BY <1>4, <3>2, Zenon
  <2> QED
    BY <1>1, <2>1, <2>2
<1>7. L[n - 1] .. L[n] - 1 \in SUBSET Nat
  BY <1>3
<1>8. FormatReceipt(b, t) \in Receipt
  BY <1>1, <1>3, <1>6, <1>7 DEF Receipt
<1>9. /\ FormatReceipt(b, t).tx = t
      /\ FormatReceipt(b, t).block = b
      /\ FormatReceipt(b, t).index = n - 1
      /\ FormatReceipt(b, t).logs = L[n - 1] .. L[n] - 1
  BY <1>6
<1> QED
  BY <1>5, <1>8, <1>9 DEF t, L

\* Two transactions of a block share neither the index nor a log.
LEMMA ReceiptsDisjoint ==
  ASSUME NEW b \in BlockIds, NEW t, NEW u,
         Contains(Content[b], t), Contains(Content[b], u), t # u
  PROVE  /\ FormatReceipt(b, t).index # FormatReceipt(b, u).index
         /\ FormatReceipt(b, t).logs \intersect FormatReceipt(b, u).logs = {}
<1>1. PICK m \in 1 .. Len(Content[b]) : Content[b][m] = t
  BY DEF Contains
<1>2. PICK n \in 1 .. Len(Content[b]) : Content[b][n] = u
  BY DEF Contains
<1> DEFINE L == LogsOfFirst(b)
           N == Len(Content[b])
<1>3. N \in Nat /\ m \in 1 .. N /\ n \in 1 .. N /\ m # n
  BY <1>1, <1>2, ReceiptAssumption
<1>4. /\ FormatReceipt(b, t).index = m - 1
      /\ FormatReceipt(b, t).logs = L[m - 1] .. L[m] - 1
  BY <1>1, LogsOfReceipt
<1>5. /\ FormatReceipt(b, u).index = n - 1
      /\ FormatReceipt(b, u).logs = L[n - 1] .. L[n] - 1
  BY <1>2, LogsOfReceipt
<1>6. L \in [0 .. N -> Nat]
  BY LogsOfFirstOnes
<1>7. \A i, j \in 0 .. N : i <= j => L[i] <= L[j]
  BY LogsGrow
<1> HIDE DEF L, N
<1>8. m - 1 \in 0 .. N /\ n - 1 \in 0 .. N /\ m \in 0 .. N /\ n \in 0 .. N
  BY <1>3
<1>9. L[m] <= L[n - 1] \/ L[n] <= L[m - 1]
  BY <1>3, <1>7, <1>8
<1>10. (L[m - 1] .. L[m] - 1) \intersect (L[n - 1] .. L[n] - 1) = {}
  <2>1. L[m] \in Nat /\ L[m - 1] \in Nat /\ L[n] \in Nat /\ L[n - 1] \in Nat
    BY <1>6, <1>8
  <2> QED
    BY <1>9, <2>1
<1> QED
  BY <1>3, <1>4, <1>5, <1>10

\* What the node says of a transaction: the one block of the trunk that holds it.
LEMMA BlockOfOne ==
  ASSUME trunk \in Branches, NEW t
  PROVE  /\ BlockOf(t) # Null => /\ BlockOf(t) \in trunk /\ BlockOf(t) \in BlockIds
                                 /\ Contains(Content[BlockOf(t)], t)
         /\ \A b \in trunk : Contains(Content[b], t) => BlockOf(t) = b /\ BlockOf(t) # Null
<1>1. trunk \subseteq BlockIds /\ Null \notin trunk
  BY ReceiptAssumption
<1>2. ASSUME NEW b \in trunk, NEW c \in trunk, Contains(Content[b], t), Contains(Content[c], t)
      PROVE  b = c
  <2>1. Content[b] \in Seq(Txs) /\ Content[c] \in Seq(Txs)
    BY <1>1, ReceiptAssumption
  <2>2. t \in ToSet(Content[b]) /\ t \in ToSet(Content[c])
    BY <1>2, <2>1 DEF Contains, ToSet
  <2> QED
    BY <2>2, ReceiptAssumption
<1>3. CASE \E b \in trunk : Contains(Content[b], t)
  <2> DEFINE d == CHOOSE b \in trunk : Contains(Content[b], t)
  <2>1. d \in trunk /\ Contains(Content[d], t)
    BY <1>3
  <2>2. BlockOf(t) = d
    BY <1>3 DEF BlockOf
  <2> HIDE DEF d
  <2> QED
    BY <1>1, <1>2, <2>1, <2>2
<1>4. CASE ~ \E b \in trunk : Contains(Content[b], t)
  BY <1>4 DEF BlockOf
<1> QED
  BY <1>3, <1>4

-----------------------------------------------------------------------------
(***************************************************************************)
(* What is known of the receipts in progress.                              *)
(***************************************************************************)
\* A receipt is of a block that holds the transaction, and numbered there.
ReceiptFor(r, t) ==
  \/ r = Null
  \/ \E b \in BlockIds : Contains(Content[b], t) /\ r = FormatReceipt(b, t)

\* The receipts collected are those of the first transactions of list, and the rest
\* of it is still to be looked at.
CollectedOf(list, found, left) ==
  /\ Len(found) + Len(left) = Len(list)
  /\ \A k \in 1 .. Len(left) : left[k] = list[Len(found) + k]
  /\ \A k \in 1 .. Len(found) : ReceiptFor(found[k], list[k])

Collected(list) == CollectedOf(list, results, todo)

ReceiptsType ==
  /\ trunk \in Branches
  /\ reorgs \in Nat
  /\ asked \in BlockIds \union {Null}
  /\ todo \in Seq(Txs)
  /\ results \in Seq(Receipt \union {Null})
  /\ stage = "idle" => todo = <<>>
  /\ stage \in Waiting => todo # <<>>
  /\ stage \in {"container", "detail", "chainId"} =>
       receipt \in BlockIds /\ Contains(Content[receipt], Head(todo))

\* On a trunk that has not changed, everything is found, in the block asked for.
AllFound ==
  asked # Null /\ reorgs = 0 =>
    /\ asked \in trunk
    /\ stage \in {"container", "detail", "chainId"} => receipt = asked
    /\ stage = "chainId" => detail # Null
    /\ \A k \in 1 .. Len(results) : results[k] = FormatReceipt(asked, Content[asked][k])

ReceiptsInv ==
  /\ ReceiptsType
  /\ asked # Null => Collected(Content[asked])
  /\ asked = Null => (results = <<>> /\ todo = <<>>) \/ \E t \in Txs : Collected(<<t>>)
  /\ AllFound

-----------------------------------------------------------------------------
(***************************************************************************)
(* The steps of the methods for receipts.                                  *)
(***************************************************************************)
\* Before the first call nothing is collected.
LEMMA ReceiptsInit ==
  Init => ReceiptsInv
<1> SUFFICES ASSUME Init PROVE ReceiptsInv
  OBVIOUS
<1>1. ReceiptsType
  BY DEF Init, ReceiptsType, Waiting
<1> QED
  BY <1>1 DEF Init, ReceiptsInv, AllFound

\* The next transaction to look at is the next of the list.
LEMMA NextOfList ==
  ASSUME ReceiptsType, todo # <<>>, NEW list \in Seq(Txs), Collected(list)
  PROVE  /\ Len(results) + 1 \in 1 .. Len(list)
         /\ Head(todo) = list[Len(results) + 1]
         /\ Head(todo) \in Txs /\ Contains(list, Head(todo))
<1>1. todo \in Seq(Txs) /\ results \in Seq(Receipt \union {Null}) /\ Len(todo) \in Nat \ {0}
  BY DEF ReceiptsType
<1>2. Len(results) + 1 \in 1 .. Len(list) /\ Head(todo) = list[Len(results) + 1]
  BY <1>1 DEF Collected, CollectedOf
<1> QED
  BY <1>2 DEF Contains

\* On a trunk that has not changed, it is found in the block asked for.
LEMMA NextIsFound ==
  ASSUME ReceiptsInv, todo # <<>>, asked # Null, reorgs = 0
  PROVE  /\ BlockOf(Head(todo)) = asked
         /\ Head(todo) = Content[asked][Len(results) + 1]
<1>1. asked \in BlockIds /\ asked \in trunk /\ trunk \in Branches /\ Collected(Content[asked])
  BY DEF ReceiptsInv, ReceiptsType, AllFound
<1>2. Content[asked] \in Seq(Txs)
  BY <1>1, ReceiptAssumption
<1>3. /\ Head(todo) = Content[asked][Len(results) + 1]
      /\ Contains(Content[asked], Head(todo))
  BY <1>1, <1>2, NextOfList DEF ReceiptsInv
<1> QED
  BY <1>1, <1>3, BlockOfOne

\* A receipt is formatted of the transaction and the block given.
LEMMA FormatIsReceipt ==
  ASSUME NEW b \in BlockIds, NEW t, Contains(Content[b], t)
  PROVE  /\ FormatReceipt(b, t) \in Receipt
         /\ FormatReceipt(b, t).tx = t
         /\ FormatReceipt(b, t).block = b
<1>1. PICK n \in 1 .. Len(Content[b]) : Content[b][n] = t
  BY DEF Contains
<1> QED
  BY <1>1, LogsOfReceipt

\* With the receipt of the next transaction, or none, the list is collected so far.
LEMMA Looked ==
  ASSUME ReceiptsInv, stage \in Waiting, NEW r, ReceiptFor(r, Head(todo)),
         asked # Null /\ reorgs = 0 => r = FormatReceipt(asked, Head(todo)),
         results' = Append(results, r), GoOn(Tail(todo)), UNCHANGED <<trunk, reorgs, asked>>
  PROVE  /\ ReceiptsInv'
         /\ \A list \in Seq(Txs) : Collected(list) => Collected(list)'
<1>1. /\ todo \in Seq(Txs) /\ todo # <<>>
      /\ results \in Seq(Receipt \union {Null})
      /\ asked \in BlockIds \union {Null}
  BY DEF ReceiptsInv, ReceiptsType
<1>2. /\ todo' = Tail(todo) /\ results' = Append(results, r)
      /\ stage' = IF todo' = <<>> THEN "idle" ELSE "receipt"
      /\ trunk' = trunk /\ reorgs' = reorgs /\ asked' = asked
  BY DEF GoOn
<1>3. r \in Receipt \union {Null}
  BY FormatIsReceipt DEF ReceiptFor
<1>4. /\ Len(todo) \in Nat \ {0} /\ Len(todo') = Len(todo) - 1
      /\ \A k \in 1 .. Len(todo') : todo'[k] = todo[k + 1]
      /\ Len(results) \in Nat /\ Len(results') = Len(results) + 1
      /\ \A k \in 1 .. Len(results) : results'[k] = results[k]
      /\ results'[Len(results) + 1] = r
  BY <1>1, <1>2, <1>3
<1>5. ASSUME NEW list \in Seq(Txs), Collected(list) PROVE Collected(list)'
  <2>1. Head(todo) = list[Len(results) + 1]
    BY <1>1, <1>5, NextOfList DEF ReceiptsInv
  <2>2. /\ Len(results) + Len(todo) = Len(list)
        /\ \A k \in 1 .. Len(todo) : todo[k] = list[Len(results) + k]
        /\ \A k \in 1 .. Len(results) : ReceiptFor(results[k], list[k])
    BY <1>5 DEF Collected, CollectedOf
  <2>3. Len(results') + Len(todo') = Len(list)
    <3>1. /\ Len(todo) \in Nat /\ Len(todo') = Len(todo) - 1
          /\ Len(results) \in Nat /\ Len(results') = Len(results) + 1
      BY <1>4
    <3>2. Len(results) + Len(todo) = Len(list) /\ Len(list) \in Nat
      BY <2>2
    <3> QED
      BY <3>1, <3>2
  <2>4. ASSUME NEW k \in 1 .. Len(todo') PROVE todo'[k] = list[Len(results') + k]
    <3>1. k + 1 \in 1 .. Len(todo) /\ Len(results) + (k + 1) = Len(results') + k
      BY <1>4
    <3>2. todo'[k] = todo[k + 1] /\ todo[k + 1] = list[Len(results) + (k + 1)]
      BY <1>4, <2>2, <3>1
    <3> QED
      BY <3>1, <3>2
  <2>5. ASSUME NEW k \in 1 .. Len(results') PROVE ReceiptFor(results'[k], list[k])
    <3>1. CASE k = Len(results) + 1
      BY <1>4, <2>1, <3>1
    <3>2. CASE k # Len(results) + 1
      BY <1>4, <2>2, <3>2
    <3> QED
      BY <3>1, <3>2
  <2>6. CollectedOf(list, results', todo')
    BY <2>3, <2>4, <2>5 DEF CollectedOf
  <2> QED
    BY <2>6 DEF Collected
<1>6. ReceiptsType'
  BY <1>1, <1>2, <1>3 DEF ReceiptsInv, ReceiptsType, Waiting
<1>7. asked' # Null => Collected(Content[asked])'
  <2> SUFFICES ASSUME asked' # Null PROVE Collected(Content[asked])'
    OBVIOUS
  <2>1. Content[asked] \in Seq(Txs) /\ Collected(Content[asked])
    BY <1>1, <1>2, ReceiptAssumption DEF ReceiptsInv
  <2> QED
    BY <1>2, <1>5, <2>1 DEF Collected
<1>8. asked' = Null => \E t \in Txs : Collected(<<t>>)'
  <2> SUFFICES ASSUME asked' = Null PROVE \E t \in Txs : Collected(<<t>>)'
    OBVIOUS
  <2>1. PICK t \in Txs : Collected(<<t>>)
    BY <1>1, <1>2 DEF ReceiptsInv
  <2>2. <<t>> \in Seq(Txs)
    OBVIOUS
  <2>3. Collected(<<t>>)'
    BY <1>5, <2>1, <2>2 DEF Collected
  <2> QED
    BY <2>3
<1>9. AllFound'
  <2> SUFFICES ASSUME asked' # Null, reorgs' = 0
               PROVE  /\ asked' \in trunk'
                      /\ \A k \in 1 .. Len(results') :
                           results'[k] = FormatReceipt(asked', Content[asked'][k])
    BY <1>2 DEF AllFound, FormatReceipt, LogsAhead
  <2>1. /\ asked \in trunk /\ r = FormatReceipt(asked, Content[asked][Len(results) + 1])
        /\ \A k \in 1 .. Len(results) : results[k] = FormatReceipt(asked, Content[asked][k])
    BY <1>1, <1>2, NextIsFound DEF ReceiptsInv, AllFound
  <2> QED
    BY <1>2, <1>4, <2>1
<1> QED
  BY <1>5, <1>6, <1>7, <1>8, <1>9 DEF ReceiptsInv

\* Nothing collected is lost while the method waits for something else.
LEMMA WaitingOn ==
  ASSUME ReceiptsInv, ReceiptsType', AllFound', UNCHANGED <<asked, todo, results>>
  PROVE  /\ ReceiptsInv'
         /\ \A list \in Seq(Txs) : Collected(list) => Collected(list)'
<1>1. asked' = asked /\ todo' = todo /\ results' = results
  OBVIOUS
<1>2. \A list : Collected(list) => Collected(list)'
  BY <1>1 DEF Collected
<1>3. asked' # Null => Collected(Content[asked])'
  <2> SUFFICES ASSUME asked' # Null PROVE Collected(Content[asked])'
    OBVIOUS
  <2>1. Collected(Content[asked])
    BY <1>1 DEF ReceiptsInv
  <2> QED
    BY <1>1, <2>1 DEF Collected
<1>4. asked' = Null => (results' = <<>> /\ todo' = <<>>) \/ \E t \in Txs : Collected(<<t>>)'
  <2> SUFFICES ASSUME asked' = Null, ~ (results' = <<>> /\ todo' = <<>>)
               PROVE  \E t \in Txs : Collected(<<t>>)'
    OBVIOUS
  <2>1. PICK t \in Txs : Collected(<<t>>)
    BY <1>1 DEF ReceiptsInv
  <2>2. Collected(<<t>>)'
    BY <1>1, <2>1 DEF Collected
  <2> QED
    BY <2>2
<1> QED
  BY <1>2, <1>3, <1>4 DEF ReceiptsInv

\* Each answer of the node takes a method for receipts on: what it collected stays,
\* and the next is of its transaction.
LEMMA ReceiptsAdvance ==
  ASSUME ReceiptsInv, ReceiptArrives \/ ContainerArrives \/ DetailArrives \/ ChainIdArrives
  PROVE  /\ ReceiptsInv'
         /\ \A list \in Seq(Txs) : Collected(list) => Collected(list)'
<1> DEFINE t == Head(todo)
<1>1. /\ trunk \in Branches /\ reorgs \in Nat /\ asked \in BlockIds \union {Null}
      /\ todo \in Seq(Txs) /\ results \in Seq(Receipt \union {Null})
  BY DEF ReceiptsInv, ReceiptsType
<1>2. stage \in Waiting => todo # <<>> /\ t \in Txs
  BY <1>1 DEF ReceiptsInv, ReceiptsType
<1>3. CASE ReceiptArrives
  <2>1. /\ stage \in Waiting /\ receipt' = BlockOf(t)
        /\ trunk' = trunk /\ reorgs' = reorgs /\ asked' = asked
    BY <1>3 DEF ReceiptArrives, Waiting
  <2>2. CASE /\ receipt' # Null /\ stage' = "container"
             /\ UNCHANGED <<todo, detail, results>>
    <3>1. todo' = todo /\ detail' = detail /\ results' = results
      BY <2>2
    <3>2. receipt' \in BlockIds /\ Contains(Content[receipt'], t)
      BY <1>1, <2>1, <2>2, BlockOfOne
    <3>3. ReceiptsType'
      BY <1>1, <1>2, <2>1, <2>2, <3>1, <3>2 DEF ReceiptsType, Waiting
    <3>4. asked # Null /\ reorgs = 0 => receipt' = asked
      BY <1>2, <2>1, NextIsFound
    <3>5. AllFound'
      BY <2>1, <2>2, <3>1, <3>4 DEF ReceiptsInv, AllFound, FormatReceipt, LogsAhead
    <3> QED
      BY <2>1, <3>1, <3>3, <3>5, WaitingOn
  <2>3. CASE /\ BlockOf(t) = Null
             /\ results' = Append(results, Null)
             /\ GoOn(Tail(todo))
    <3>1. ReceiptFor(Null, t)
      BY DEF ReceiptFor
    <3>2. ~ (asked # Null /\ reorgs = 0)
      BY <1>2, <2>1, <2>3, NextIsFound
    <3> QED
      BY <2>1, <2>3, <3>1, <3>2, Looked
  <2> QED
    BY <1>3, <2>1, <2>2, <2>3 DEF ReceiptArrives
<1>4. CASE ContainerArrives
  <2>1. /\ stage = "container" /\ stage' = "detail" /\ trunk' = trunk /\ reorgs' = reorgs
        /\ asked' = asked /\ todo' = todo /\ receipt' = receipt /\ detail' = detail
        /\ results' = results
    BY <1>4 DEF ContainerArrives
  <2>2. ReceiptsType'
    BY <2>1 DEF ReceiptsInv, ReceiptsType, Waiting
  <2>3. AllFound'
    BY <2>1 DEF ReceiptsInv, AllFound, FormatReceipt, LogsAhead
  <2> QED
    BY <2>1, <2>2, <2>3, WaitingOn
<1>5. CASE DetailArrives
  <2>1. /\ stage = "detail" /\ stage' = "chainId" /\ trunk' = trunk /\ reorgs' = reorgs
        /\ asked' = asked /\ todo' = todo /\ receipt' = receipt /\ detail' = BlockOf(t)
        /\ results' = results
    BY <1>5 DEF DetailArrives
  <2>2. ReceiptsType'
    BY <2>1 DEF ReceiptsInv, ReceiptsType, Waiting
  <2>3. asked # Null /\ reorgs = 0 => detail' # Null
    BY <1>2, <2>1, NextIsFound DEF Waiting
  <2>4. AllFound'
    BY <2>1, <2>3 DEF ReceiptsInv, AllFound, FormatReceipt, LogsAhead
  <2> QED
    BY <2>1, <2>2, <2>4, WaitingOn
<1>6. CASE ChainIdArrives
  <2>1. /\ stage = "chainId" /\ stage \in Waiting
        /\ trunk' = trunk /\ reorgs' = reorgs /\ asked' = asked
    BY <1>6 DEF ChainIdArrives, Waiting
  <2>2. receipt \in BlockIds /\ Contains(Content[receipt], t)
    BY <2>1 DEF ReceiptsInv, ReceiptsType
  <2>3. asked # Null /\ reorgs = 0 => detail # Null /\ receipt = asked
    BY <2>1 DEF ReceiptsInv, AllFound
  <2>4. CASE detail = Null /\ results' = Append(results, Null) /\ GoOn(Tail(todo))
    <3>1. ReceiptFor(Null, t)
      BY DEF ReceiptFor
    <3> QED
      BY <2>1, <2>3, <2>4, <3>1, Looked
  <2>5. CASE results' = Append(results, FormatReceipt(receipt, t)) /\ GoOn(Tail(todo))
    <3>1. ReceiptFor(FormatReceipt(receipt, t), t)
      BY <2>2 DEF ReceiptFor
    <3> QED
      BY <2>1, <2>3, <2>5, <3>1, Looked
  <2>6. CASE stage' = "failed" /\ UNCHANGED <<todo, receipt, detail, results>>
    <3>1. todo' = todo /\ receipt' = receipt /\ detail' = detail /\ results' = results
      BY <2>6
    <3>2. ReceiptsType'
      BY <1>1, <2>1, <2>6, <3>1 DEF ReceiptsType, Waiting
    <3>3. AllFound'
      BY <2>1, <2>6, <3>1 DEF ReceiptsInv, AllFound, FormatReceipt, LogsAhead
    <3> QED
      BY <2>1, <3>1, <3>2, <3>3, WaitingOn
  <2> QED
    BY <1>6, <2>4, <2>5, <2>6 DEF ChainIdArrives
<1> QED
  BY <1>3, <1>4, <1>5, <1>6

\* A call starts with nothing collected; a trunk that changes moves no block.
LEMMA ReceiptsStart ==
  ASSUME ReceiptsInv, NEW t \in Txs, GetTransactionReceipt(t)
  PROVE  ReceiptsInv' /\ asked' = Null /\ Collected(<<t>>)'
<1>1. /\ asked' = Null /\ results' = <<>> /\ todo' = <<t>> /\ receipt' = Null /\ detail' = Null
      /\ stage' = "receipt" /\ trunk' = trunk /\ reorgs' = reorgs
  BY DEF GetTransactionReceipt, GoOn
<1>2. CollectedOf(<<t>>, <<>>, <<t>>)
  BY DEF CollectedOf
<1>3. Collected(<<t>>)'
  BY <1>1, <1>2 DEF Collected
<1>4. ReceiptsType'
  BY <1>1 DEF ReceiptsInv, ReceiptsType, Waiting
<1>5. AllFound'
  BY <1>1 DEF AllFound
<1> QED
  BY <1>1, <1>3, <1>4, <1>5 DEF ReceiptsInv

\* eth_getBlockReceipts starts with the transactions of a block of the trunk.
LEMMA BlockReceiptsStart ==
  ASSUME ReceiptsInv, NEW n, GetBlockReceipts(n)
  PROVE  ReceiptsInv'
<1>1. /\ \E b \in trunk : Height[b] = n
      /\ asked' = CHOOSE b \in trunk : Height[b] = n
      /\ results' = <<>> /\ todo' = Content[asked'] /\ receipt' = Null /\ detail' = Null
      /\ stage' = IF todo' = <<>> THEN "idle" ELSE "receipt"
      /\ trunk' = trunk /\ reorgs' = reorgs
  BY DEF GetBlockReceipts, GoOn
<1>2. asked' \in trunk /\ asked' \in BlockIds /\ Content[asked'] \in Seq(Txs) /\ asked' # Null
  BY <1>1, ReceiptAssumption DEF ReceiptsInv, ReceiptsType
<1>3. Collected(Content[asked])'
  <2>1. ASSUME NEW list \in Seq(Txs) PROVE CollectedOf(list, <<>>, list)
    BY DEF CollectedOf
  <2> QED
    BY <1>1, <1>2, <2>1 DEF Collected
<1>4. ReceiptsType'
  BY <1>1, <1>2 DEF ReceiptsInv, ReceiptsType, Waiting
<1>5. AllFound'
  BY <1>1, <1>2 DEF AllFound
<1> QED
  BY <1>2, <1>3, <1>4, <1>5 DEF ReceiptsInv

\* A method for receipts that threw leaves nothing behind.
LEMMA ReceiptsStop ==
  ASSUME ReceiptsInv, Recover
  PROVE  ReceiptsInv'
<1>1. /\ asked' = Null /\ results' = <<>> /\ todo' = <<>> /\ receipt' = Null /\ detail' = Null
      /\ stage' = "idle" /\ trunk' = trunk /\ reorgs' = reorgs
  BY DEF Recover, GoOn
<1>2. ReceiptsType'
  BY <1>1 DEF ReceiptsInv, ReceiptsType, Waiting
<1>3. AllFound'
  BY <1>1 DEF AllFound
<1> QED
  BY <1>1, <1>2, <1>3 DEF ReceiptsInv

\* A request that fails loses nothing of what was collected.
LEMMA ReceiptsFail ==
  ASSUME ReceiptsInv, stage' = "failed",
         UNCHANGED <<trunk, reorgs, asked, todo, receipt, detail, results>>
  PROVE  /\ ReceiptsInv'
         /\ \A list \in Seq(Txs) : Collected(list) => Collected(list)'
<1>1. /\ trunk' = trunk /\ reorgs' = reorgs /\ asked' = asked
      /\ todo' = todo /\ receipt' = receipt /\ detail' = detail /\ results' = results
  OBVIOUS
<1>2. ReceiptsType'
  BY <1>1 DEF ReceiptsInv, ReceiptsType, Waiting
<1>3. AllFound'
  BY <1>1 DEF ReceiptsInv, AllFound, FormatReceipt, LogsAhead
<1> QED
  BY <1>1, <1>2, <1>3, WaitingOn

\* A change of trunk moves no block, and what was collected stays.
LEMMA ReceiptsThroughReorg ==
  ASSUME ReceiptsInv, Reorg
  PROVE  /\ ReceiptsInv'
         /\ \A list \in Seq(Txs) : Collected(list) => Collected(list)'
<1>1. /\ trunk' \in Branches /\ reorgs' = reorgs + 1 /\ asked' = asked /\ stage' = stage
      /\ todo' = todo /\ receipt' = receipt /\ detail' = detail /\ results' = results
  BY DEF Reorg, callVars
<1>2. ReceiptsType'
  BY <1>1 DEF ReceiptsInv, ReceiptsType, Waiting
<1>3. AllFound'
  BY <1>1 DEF ReceiptsInv, ReceiptsType, AllFound
<1> QED
  BY <1>1, <1>2, <1>3, WaitingOn

\* What is collected of a list without repetition has no log twice.
LEMMA CollectedApart ==
  ASSUME ReceiptsInv
  PROVE  LogIndicesDisjoint
<1> SUFFICES ASSUME NEW j \in Found, NEW k \in Found, j # k,
                    results[j].block = results[k].block
             PROVE  /\ results[j].index # results[k].index
                    /\ results[j].logs \intersect results[k].logs = {}
  BY DEF LogIndicesDisjoint
<1>1. results \in Seq(Receipt \union {Null}) /\ asked \in BlockIds \union {Null}
  BY DEF ReceiptsInv, ReceiptsType
<1>2. /\ j \in 1 .. Len(results) /\ k \in 1 .. Len(results)
      /\ results[j] # Null /\ results[k] # Null
  BY <1>1 DEF Found
<1>3. ASSUME NEW list \in Seq(Txs), IsInjective(list), Collected(list)
      PROVE  /\ results[j].index # results[k].index
             /\ results[j].logs \intersect results[k].logs = {}
  <2>1. /\ Len(results) \in 0 .. Len(list)
        /\ ReceiptFor(results[j], list[j]) /\ ReceiptFor(results[k], list[k])
    <3>1. todo \in Seq(Txs) /\ Len(todo) \in Nat /\ Len(results) \in Nat /\ Len(list) \in Nat
      BY <1>1 DEF ReceiptsInv, ReceiptsType
    <3>2. /\ Len(results) + Len(todo) = Len(list)
          /\ ReceiptFor(results[j], list[j]) /\ ReceiptFor(results[k], list[k])
      BY <1>2, <1>3 DEF Collected, CollectedOf
    <3> QED
      BY <3>1, <3>2
  <2>2. list[j] # list[k]
    <3>1. j \in DOMAIN list /\ k \in DOMAIN list
      BY <1>2, <2>1
    <3> QED
      BY <1>3, <3>1 DEF IsInjective
  <2>3. PICK b \in BlockIds :
          Contains(Content[b], list[j]) /\ results[j] = FormatReceipt(b, list[j])
    BY <1>2, <2>1 DEF ReceiptFor
  <2>4. PICK c \in BlockIds :
          Contains(Content[c], list[k]) /\ results[k] = FormatReceipt(c, list[k])
    BY <1>2, <2>1 DEF ReceiptFor
  <2>5. b = c
    BY <2>3, <2>4, FormatIsReceipt
  <2> QED
    BY <2>2, <2>3, <2>4, <2>5, ReceiptsDisjoint
<1>4. CASE asked # Null
  <2>1. Content[asked] \in Seq(Txs) /\ IsInjective(Content[asked]) /\ Collected(Content[asked])
    BY <1>1, <1>4, ReceiptAssumption DEF ReceiptsInv
  <2> QED
    BY <1>3, <2>1
<1>5. CASE asked = Null
  <2>0. results # <<>>
    BY <1>2
  <2>1. PICK t \in Txs : Collected(<<t>>)
    BY <1>5, <2>0 DEF ReceiptsInv
  <2>2. <<t>> \in Seq(Txs) /\ IsInjective(<<t>>)
    BY DEF IsInjective
  <2> QED
    BY <1>3, <2>1, <2>2
<1> QED
  BY <1>4, <1>5

\* On a trunk that has not changed, what is collected of a block is all of it,
\* numbered without a gap.
LEMMA CollectedWhole ==
  ASSUME ReceiptsInv
  PROVE  ReceiptsOfBlock
<1> SUFFICES ASSUME stage = "idle", asked # Null, reorgs = 0
             PROVE  /\ Len(results) = Len(Content[asked])
                    /\ \A k \in DOMAIN results :
                         /\ results[k] # Null
                         /\ results[k].tx = Content[asked][k] /\ results[k].block = asked
                         /\ results[k].index = k - 1
                         /\ UNION {results[j].logs : j \in 1 .. k}
                              = 0 .. LogsAhead(asked, results[k].tx)
                                       + Events[asked][results[k].tx] - 1
  BY Zenon DEF ReceiptsOfBlock
<1>1. /\ asked \in BlockIds /\ results \in Seq(Receipt \union {Null}) /\ todo = <<>>
      /\ Collected(Content[asked])
      /\ \A k \in 1 .. Len(results) : results[k] = FormatReceipt(asked, Content[asked][k])
  BY DEF ReceiptsInv, ReceiptsType, AllFound
<1>2. Len(results) = Len(Content[asked]) /\ Len(results) \in Nat
  BY <1>1 DEF Collected, CollectedOf
<1>3. DOMAIN results = 1 .. Len(Content[asked])
  BY <1>1, <1>2
<1>4. ASSUME NEW k \in 1 .. Len(Content[asked])
      PROVE  /\ results[k] # Null
             /\ results[k].tx = Content[asked][k] /\ results[k].block = asked
             /\ results[k].index = k - 1
             /\ results[k].logs = LogsOfFirst(asked)[k - 1] .. LogsOfFirst(asked)[k] - 1
             /\ LogsAhead(asked, results[k].tx) + Events[asked][results[k].tx]
                  = LogsOfFirst(asked)[k]
  <2>1. results[k] = FormatReceipt(asked, Content[asked][k])
    BY <1>1, <1>2
  <2>2. results[k] \in Receipt
    BY <1>1, <2>1, LogsOfReceipt
  <2>3. results[k] # Null
    BY <2>2, ReceiptAssumption DEF Receipt
  <2> QED
    BY <1>1, <2>1, <2>3, LogsOfReceipt
<1>5. ASSUME NEW k \in 1 .. Len(Content[asked])
      PROVE  UNION {results[j].logs : j \in 1 .. k}
               = 0 .. LogsAhead(asked, results[k].tx) + Events[asked][results[k].tx] - 1
  <2> DEFINE L == LogsOfFirst(asked)
             t == results[k].tx
  <2>1. \A j \in 1 .. k : results[j].logs = L[j - 1] .. L[j] - 1
    BY <1>1, <1>2, <1>4
  <2>2. UNION {L[j - 1] .. L[j] - 1 : j \in 1 .. k} = 0 .. L[k] - 1
    <3>1. asked \in BlockIds /\ k \in 0 .. Len(Content[asked])
      BY <1>1, <1>2
    <3> QED
      BY <3>1, LogsWithoutGap, Zenon
  <2>3. LogsAhead(asked, t) + Events[asked][t] = L[k]
    BY <1>4
  <2>4. LogsAhead(asked, t) \in Nat /\ Events[asked][t] \in Nat
    <3>1. t = Content[asked][k] /\ t \in Txs /\ TransactionIndex(asked, t) = k - 1
      BY <1>1, <1>4, IndexOfPlace
    <3>2. L[k - 1] \in Nat
      <4>1. L \in [0 .. Len(Content[asked]) -> Nat] /\ k - 1 \in 0 .. Len(Content[asked])
        BY <1>1, <1>2, LogsOfFirstOnes
      <4> HIDE DEF L
      <4> QED
        BY <4>1
    <3>3. LogsAhead(asked, t) = L[k - 1]
      BY <3>1 DEF LogsAhead
    <3> QED
      BY <1>1, <3>1, <3>2, <3>3, ReceiptAssumption
  <2> HIDE DEF L, t
  <2>5. {results[j].logs : j \in 1 .. k} = {L[j - 1] .. L[j] - 1 : j \in 1 .. k}
    BY <2>1
  <2>6. LogsAhead(asked, t) + (Events[asked][t] - 1) = L[k] - 1
    BY <2>3, <2>4
  <2>7. UNION {results[j].logs : j \in 1 .. k} = 0 .. LogsAhead(asked, t) + Events[asked][t] - 1
    BY <2>2, <2>5, <2>6, Zenon
  <2> QED
    BY <2>7 DEF t
<1> QED
  BY <1>2, <1>3, <1>4, <1>5

-----------------------------------------------------------------------------
(***************************************************************************)
(* The results of the methods.                                             *)
(***************************************************************************)
Placed(r) ==
  /\ r.index + 1 \in DOMAIN Content[r.block]
  /\ Content[r.block][r.index + 1] = r.tx

\* A result that says where a transaction is, says where it is.
Located(v) ==
  /\ "index" \in DOMAIN v => Placed(v)
  /\ "clause" \in DOMAIN v => Contains(Content[v.block], v.tx)
  /\ "transactions" \in DOMAIN v =>
       \A i \in DOMAIN v.transactions :
         /\ v.transactions[i] \notin Txs => Placed(v.transactions[i])
         /\ v.transactions[i] \in Txs => v.transactions[i] = Content[v.block][i]

\* PlaceOfTransaction says it of the result of the call in progress.
LEMMA PlaceIsLocated ==
  PlaceOfTransaction <=> (Returned => Located(result))
BY DEF PlaceOfTransaction, Located, Placed

\* A transaction formatted with its index in the block is where it says.
LEMMA TransactionLocated ==
  ASSUME NEW b \in BlockIds, NEW t, Contains(Content[b], t)
  PROVE  Located(FormatTransaction(t, b, TransactionIndex(b, t)))
<1> DEFINE i == TransactionIndex(b, t)
<1>1. i + 1 \in DOMAIN Content[b] /\ Content[b][i + 1] = t
  BY IndexInBlock
<1> HIDE DEF i
<1>2. Located([tx |-> t, block |-> b, index |-> i])
  BY <1>1 DEF Located, Placed
<1> QED
  BY <1>2 DEF i, FormatTransaction

\* So is every transaction of a block that is formatted with them.
LEMMA BlockLocated ==
  ASSUME NEW b \in BlockIds, NEW full
  PROVE  Located(FormatBlock(b, full))
<1> DEFINE v == FormatBlock(b, full)
           N == Len(Content[b])
<1>1. Content[b] \in Seq(Txs) /\ DOMAIN Content[b] = 1 .. N /\ N \in Nat
  BY ReceiptAssumption
<1>2. DOMAIN v = {"block", "transactions"} /\ v.block = b
  BY DEF FormatBlock
<1>3. CASE full
  <2>1. v.transactions = [i \in 1 .. N |-> [tx |-> Content[b][i], block |-> b, index |-> i - 1]]
    BY <1>1, <1>3 DEF FormatBlock, FormatTransaction
  <2> HIDE DEF v, N
  <2>2. ASSUME NEW i \in 1 .. N
        PROVE  v.transactions[i] \notin Txs /\ Placed(v.transactions[i])
    <3> DEFINE r == [tx |-> Content[b][i], block |-> b, index |-> i - 1]
    <3>1. v.transactions[i] = r
      BY <2>1
    <3>2. /\ r \in [tx : Txs, block : BlockIds, index : Int]
          /\ (i - 1) + 1 = i /\ i \in DOMAIN Content[b]
      BY <1>1
    <3>3. r \notin Txs
      BY <3>2, ProviderAssumption
    <3>4. r.tx = Content[b][i] /\ r.block = b /\ r.index = i - 1
      OBVIOUS
    <3> HIDE DEF r
    <3>5. Placed(r)
      BY <3>2, <3>4 DEF Placed
    <3> QED
      BY <3>1, <3>3, <3>5
  <2>3. DOMAIN v.transactions = 1 .. N
    BY <2>1
  <2>4. Located(v)
    BY <1>2, <2>2, <2>3 DEF Located
  <2> QED
    BY <2>4 DEF v
<1>4. CASE ~ full
  <2>1. v.transactions = Content[b]
    BY <1>4 DEF FormatBlock
  <2> HIDE DEF v
  <2>2. \A i \in DOMAIN Content[b] : Content[b][i] \in Txs
    BY <1>1
  <2>3. Located(v)
    BY <1>2, <2>1, <2>2 DEF Located
  <2> QED
    BY <2>3 DEF v
<1> QED
  BY <1>3, <1>4

\* The blocks that the methods for blocks are given are blocks, or none.
LEMMA BestBlock ==
  ASSUME trunk \in Branches
  PROVE  Best \in trunk /\ Best \in BlockIds
BY ReceiptAssumption, ProviderAssumption DEF Best

\* The block of a parameter is a block, or none.
LEMMA BlockOfRevision ==
  ASSUME trunk \in Branches, NEW b, DOMAIN b \in {{"tag"}, {"number"}, {"hash"}},
         "hash" \in DOMAIN b => b.hash \in BlockIds
  PROVE  /\ NodeBlock(CorrectBlockNumber(b)) \in BlockIds \union {Null}
         /\ "hash" \in DOMAIN b => NodeBlock(b) \in BlockIds \union {Null}
<1>1. trunk \subseteq BlockIds
  BY ReceiptAssumption
<1>2. ASSUME NEW n PROVE NodeBlock([number |-> n]) \in BlockIds \union {Null}
  <2>1. DOMAIN [number |-> n] = {"number"} /\ [number |-> n].number = n
    OBVIOUS
  <2> QED
    BY <1>1, <2>1 DEF NodeBlock
<1>3. CASE DOMAIN b = {"tag"}
  <2>1. NodeBlock([tag |-> "best"]) \in BlockIds
    BY BestBlock DEF NodeBlock
  <2> QED
    BY <1>2, <1>3, <2>1 DEF CorrectBlockNumber
<1>4. CASE DOMAIN b = {"number"}
  <2>1. CorrectBlockNumber(b) = b
    BY <1>4 DEF CorrectBlockNumber
  <2>2. NodeBlock(b) \in BlockIds \union {Null}
    BY <1>1, <1>4 DEF NodeBlock
  <2> QED
    BY <1>4, <2>1, <2>2
<1>5. CASE DOMAIN b = {"hash"}
  <2>1. CorrectBlockNumber(b) = b
    BY <1>5 DEF CorrectBlockNumber
  <2>2. NodeBlock(b) \in BlockIds
    BY <1>5 DEF NodeBlock
  <2> QED
    BY <2>1, <2>2
<1> QED
  BY <1>3, <1>4, <1>5

\* The block that a method keeps, or the receipts it waits for, are those of its
\* transaction; a block that is given as a result is one.
Kept(c) ==
  /\ c.method = "eth_getTransactionByHash" /\ step \in {"block", "chain id"} =>
       block \in BlockIds /\ Contains(Content[block], c.tx)
  /\ c.method = "debug_traceTransaction" /\ step = "receipts" =>
       asked = Null /\ Collected(<<c.tx>>)
  /\ c.method = "debug_traceTransaction" /\ step = "trace" =>
       block \in BlockIds /\ Contains(Content[block], c.tx)
  /\ c.method = "evm_mine" /\ step \in {"wait", "chain id"} => block \in BlockIds

\* What leaves the node and the receipts alone keeps what is known of them.
LEMMA ReceiptsUnchanged ==
  ASSUME ReceiptsInv, UNCHANGED vars
  PROVE  /\ ReceiptsInv'
         /\ \A list \in Seq(Txs) : Collected(list) => Collected(list)'
<1>1. /\ trunk' = trunk /\ reorgs' = reorgs /\ asked' = asked /\ stage' = stage
      /\ todo' = todo /\ receipt' = receipt /\ detail' = detail /\ results' = results
  BY DEF vars, callVars
<1>2. ReceiptsType'
  BY <1>1 DEF ReceiptsInv, ReceiptsType, Waiting
<1>3. AllFound'
  BY <1>1 DEF ReceiptsInv, AllFound, FormatReceipt, LogsAhead
<1> QED
  BY <1>1, <1>2, <1>3, WaitingOn

\* A step of a method: one that is in progress, and that may end.
Going == step \notin {"returned", "threw", "none"} /\ step' # "none"

\* The methods that keep no block and give no place.
Plainly(c) ==
  /\ Going /\ UNCHANGED vars
  /\ c.method \notin {"eth_getTransactionByHash", "debug_traceTransaction", "evm_mine"}
  /\ step' = "returned" =>
       result' = Null \/ DOMAIN result' \intersect {"index", "clause", "transactions"} = {}

\* Reads of the state keep no block and give no place.
LEMMA ReadStatePlainly ==
  ASSUME NEW c, NEW revision, ReadState(revision),
         c.method \notin {"eth_getTransactionByHash", "debug_traceTransaction", "evm_mine"}
  PROVE  Plainly(c)
<1>1. CASE step = "begin" /\ Ask("state")
  BY <1>1 DEF Ask, Plainly, Going
<1>2. CASE step = "state" /\ Return([state |-> NodeBlock(revision)])
  BY <1>2 DEF Return, Plainly, Going
<1>3. CASE step = "state" /\ Throw
  BY <1>3 DEF Throw, Plainly, Going
<1> QED
  BY <1>1, <1>2, <1>3 DEF ReadState

\* Neither do reads of the chain id.
LEMMA ReadChainIdPlainly ==
  ASSUME NEW c, ReadChainId,
         c.method \notin {"eth_getTransactionByHash", "debug_traceTransaction", "evm_mine"}
  PROVE  Plainly(c)
<1>1. CASE step = "begin" /\ Ask("chain id")
  BY <1>1 DEF Ask, Plainly, Going
<1>2. CASE step = "chain id" /\ Return([chainId |-> NodeBlock([number |-> 0])])
  BY <1>2 DEF Return, Plainly, Going
<1> QED
  BY <1>1, <1>2 DEF ReadChainId

\* The steps of eth_getLogs, with the range that is looked at.
LEMMA StepsOfLogs ==
  ASSUME NEW c, EthGetLogs(c)
  PROVE  \/ step = "begin" /\ Ask("best")
         \/ step = "best" /\ Keep(Best, "logs")
         \/ \E from \in TakenFor(RangeEnd(c.from)), to \in TakenFor(RangeEnd(c.to)) :
              /\ step = "logs"
              /\ Return([logs  |-> NodeLogs(LogsBetween(from, to),
                                           CriteriaSetForInput(c.address, c.topics)),
                         trunk |-> trunk, best |-> block])
         \/ step = "logs" /\ Throw
<1> DEFINE found == {LogsBetween(from, to) : from \in TakenFor(RangeEnd(c.from)),
                                             to \in TakenFor(RangeEnd(c.to))}
           Results(logs) ==
             Return([logs |-> NodeLogs(logs, CriteriaSetForInput(c.address, c.topics)),
                     trunk |-> trunk, best |-> block])
<1>1. \/ step = "begin" /\ Ask("best")
      \/ step = "best" /\ Keep(Best, "logs")
      \/ step = "logs" /\ \E logs \in found : Results(logs)
      \/ step = "logs" /\ Throw
  BY DEF EthGetLogs
<1>2. ASSUME NEW logs \in found
      PROVE  \E from \in TakenFor(RangeEnd(c.from)), to \in TakenFor(RangeEnd(c.to)) :
               logs = LogsBetween(from, to)
  OBVIOUS
<1> HIDE DEF found
<1> QED
  BY <1>1, <1>2

\* Nor the methods that are made of them, the logs, or no request at all.
LEMMA PlainMethods ==
  ASSUME NEW c,
         \/ EthGetBalance(c) \/ EthGetCode(c) \/ EthGetStorageAt(c) \/ EthCall(c)
         \/ EthEstimateGas(c) \/ EthGasPrice(c) \/ EthBlockNumber(c) \/ EthChainId(c)
         \/ NetVersion(c) \/ EthGetLogs(c) \/ EthSyncing(c) \/ DebugTraceCall(c)
         \/ EthAccounts(c) \/ Web3ClientVersion(c) \/ EthGetTransactionCount(c)
         \/ EthRequestAccounts(c) \/ NotImplemented(c) \/ MethodNotFound(c)
  PROVE  Plainly(c)
<1>1. CASE EthGetBalance(c)
  BY <1>1, ReadStatePlainly DEF EthGetBalance
<1>2. CASE EthGetCode(c)
  BY <1>2, ReadStatePlainly DEF EthGetCode
<1>3. CASE EthGetStorageAt(c)
  BY <1>3, ReadStatePlainly DEF EthGetStorageAt
<1>4. CASE EthCall(c)
  BY <1>4, ReadStatePlainly DEF EthCall
<1>5. CASE EthEstimateGas(c)
  BY <1>5, ReadStatePlainly DEF EthEstimateGas
<1>6. CASE EthGasPrice(c)
  BY <1>6, ReadStatePlainly DEF EthGasPrice
<1>7. CASE EthBlockNumber(c)
  <2>1. CASE step = "begin" /\ Ask("best")
    BY <1>7, <2>1 DEF EthBlockNumber, Ask, Plainly, Going
  <2>2. CASE step = "best" /\ Return([number |-> Height[Best]])
    BY <1>7, <2>2 DEF EthBlockNumber, Return, Plainly, Going
  <2> QED
    BY <1>7, <2>1, <2>2 DEF EthBlockNumber
<1>8. CASE EthChainId(c)
  BY <1>8, ReadChainIdPlainly DEF EthChainId
<1>9. CASE NetVersion(c)
  BY <1>9, ReadChainIdPlainly DEF NetVersion
<1>10. CASE EthGetLogs(c)
  <2>1. c.method = "eth_getLogs"
    BY <1>10 DEF EthGetLogs
  <2>2. CASE step = "begin" /\ Ask("best")
    BY <2>1, <2>2 DEF Ask, Plainly, Going
  <2>3. CASE step = "best" /\ Keep(Best, "logs")
    BY <2>1, <2>3 DEF Keep, Plainly, Going
  <2>4. ASSUME NEW l, step = "logs" /\ Return([logs |-> l, trunk |-> trunk, best |-> block])
        PROVE  Plainly(c)
    BY <2>1, <2>4 DEF Return, Plainly, Going
  <2>5. CASE step = "logs" /\ Throw
    BY <2>1, <2>5 DEF Throw, Plainly, Going
  <2> QED
    BY <1>10, <2>2, <2>3, <2>4, <2>5, StepsOfLogs
<1>11. CASE EthSyncing(c)
  <2>1. c.method = "eth_syncing"
    BY <1>11 DEF EthSyncing
  <2>2. CASE step = "begin" /\ Ask("best")
    BY <2>1, <2>2 DEF Ask, Plainly, Going
  <2>3. CASE step = "best" /\ Keep(Best, "genesis")
    BY <2>1, <2>3 DEF Keep, Plainly, Going
  <2>4. CASE step = "genesis" /\ Return([syncing |-> FALSE])
    BY <2>1, <2>4 DEF Return, Plainly, Going
  <2>5. CASE step = "genesis" /\ Ask("chain id")
    BY <2>1, <2>5 DEF Ask, Plainly, Going
  <2>6. CASE step = "chain id" /\ Return([syncing |-> TRUE, current |-> FormatBlock(block, FALSE)])
    BY <2>1, <2>6 DEF Return, Plainly, Going
  <2> QED
    BY <1>11, <2>2, <2>3, <2>4, <2>5, <2>6 DEF EthSyncing
<1>12. CASE DebugTraceCall(c)
  BY <1>12, ReadStatePlainly DEF DebugTraceCall
<1>13. CASE EthAccounts(c)
  BY <1>13 DEF EthAccounts, Return, Plainly, Going
<1>14. CASE Web3ClientVersion(c)
  BY <1>14 DEF Web3ClientVersion, Return, Plainly, Going
<1>15. CASE EthGetTransactionCount(c)
  BY <1>15 DEF EthGetTransactionCount, Return, Throw, Plainly, Going
<1>16. CASE EthRequestAccounts(c)
  BY <1>16 DEF EthRequestAccounts, Return, Throw, Plainly, Going
<1>17. CASE NotImplemented(c)
  BY <1>17 DEF NotImplemented, NotImplementedMethods, EngineMethods, Throw, Plainly, Going
<1>18. CASE MethodNotFound(c)
  BY <1>18 DEF MethodNotFound, Throw, Plainly, Going
<1> QED
  BY <1>1, <1>2, <1>3, <1>4, <1>5, <1>6, <1>7, <1>8, <1>9, <1>10, <1>11, <1>12, <1>13,
     <1>14, <1>15, <1>16, <1>17, <1>18

\* Every step of a method keeps what is known of the receipts and of the block it
\* read, and what it returns is where it says.
LEMMA MethodKeeps ==
  ASSUME ReceiptsInv, NEW c \in Calls, Kept(c), Method(c)
  PROVE  /\ Going /\ ReceiptsInv' /\ Kept(c)'
         /\ step' = "returned" => result' = Null \/ Located(result')
<1> DEFINE Goal == /\ Going /\ ReceiptsInv' /\ Kept(c)'
                   /\ step' = "returned" => result' = Null \/ Located(result')
<1>1. trunk \in Branches
  BY DEF ReceiptsInv, ReceiptsType
<1>2. CASE Plainly(c)
  <2>1. ReceiptsInv'
    BY <1>2, ReceiptsUnchanged DEF Plainly
  <2>2. Kept(c)'
    BY <1>2 DEF Plainly, Kept
  <2>3. step' = "returned" => result' = Null \/ Located(result')
    BY <1>2 DEF Plainly, Located
  <2> QED
    BY <1>2, <2>1, <2>2, <2>3 DEF Plainly
<1>3. ASSUME NEW b \in BlockIds \union {Null}, ReadBlock(b, c.detail),
             c.method \in {"eth_getBlockByNumber", "eth_getBlockByHash"}
      PROVE  Goal
  <2>1. UNCHANGED vars /\ Going
    BY <1>3 DEF ReadBlock, Ask, Return, Going
  <2>2. ReceiptsInv'
    BY <2>1, ReceiptsUnchanged
  <2>3. Kept(c)'
    BY <1>3 DEF Kept
  <2>4. step' = "returned" => result' = Null \/ Located(result')
    BY <1>3, BlockLocated DEF ReadBlock, Ask, Return
  <2> QED
    BY <2>1, <2>2, <2>3, <2>4
<1>4. CASE EthGetBlockByNumber(c)
  <2>1. NodeBlock(CorrectBlockNumber(c.block)) \in BlockIds \union {Null}
    BY <1>1, <1>4, BlockOfRevision, ProviderAssumption DEF EthGetBlockByNumber
  <2> QED
    BY <1>3, <1>4, <2>1 DEF EthGetBlockByNumber
<1>5. CASE EthGetBlockByHash(c)
  <2>1. CASE "hash" \in DOMAIN c.block
    <3>1. NodeBlock(c.block) \in BlockIds \union {Null}
      BY <1>1, <1>5, <2>1, BlockOfRevision, ProviderAssumption DEF EthGetBlockByHash
    <3> QED
      BY <1>3, <1>5, <2>1, <3>1 DEF EthGetBlockByHash
  <2>2. CASE "hash" \notin DOMAIN c.block
    <3>1. Plainly(c)
      BY <1>5, <2>2 DEF EthGetBlockByHash, Throw, Plainly, Going
    <3> QED
      BY <1>2, <3>1
  <2> QED
    BY <2>1, <2>2
<1>6. CASE EthGetTransactionByHash(c)
  <2>1. c.method = "eth_getTransactionByHash" /\ UNCHANGED vars /\ Going
    BY <1>6 DEF EthGetTransactionByHash, Ask, Keep, Return, Going
  <2>2. ReceiptsInv'
    BY <2>1, ReceiptsUnchanged
  <2>3. Kept(c)'
    <3>1. CASE step' \in {"block", "chain id"}
      <4>1. CASE step = "transaction" /\ BlockOf(c.tx) # Null /\ Keep(BlockOf(c.tx), "block")
        <5>1. block' = BlockOf(c.tx)
          BY <4>1 DEF Keep
        <5>2. block' \in BlockIds /\ Contains(Content[block'], c.tx)
          BY <1>1, <4>1, <5>1, BlockOfOne
        <5> QED
          BY <2>1, <5>2 DEF Kept
      <4>2. CASE step = "block" /\ Ask("chain id")
        <5>1. block' = block /\ block \in BlockIds /\ Contains(Content[block], c.tx)
          BY <2>1, <4>2 DEF Ask, Kept
        <5> QED
          BY <2>1, <5>1 DEF Kept
      <4> QED
        BY <1>6, <3>1, <4>1, <4>2 DEF EthGetTransactionByHash, Ask, Return
    <3>2. CASE step' \notin {"block", "chain id"}
      BY <2>1, <3>2 DEF Kept
    <3> QED
      BY <3>1, <3>2
  <2>4. ASSUME step' = "returned" PROVE result' = Null \/ Located(result')
    <3>1. CASE step = "transaction" /\ Return(Null)
      BY <3>1 DEF Return
    <3>2. CASE /\ step = "chain id"
               /\ Return(FormatTransaction(c.tx, block, TransactionIndex(block, c.tx)))
      <4>1. block \in BlockIds /\ Contains(Content[block], c.tx)
        BY <2>1, <3>2 DEF Kept
      <4>2. Located(FormatTransaction(c.tx, block, TransactionIndex(block, c.tx)))
        BY <4>1, TransactionLocated
      <4>3. result' = FormatTransaction(c.tx, block, TransactionIndex(block, c.tx))
        BY <3>2 DEF Return
      <4> QED
        BY <4>2, <4>3 DEF Located, Placed
    <3> QED
      BY <1>6, <2>4, <3>1, <3>2 DEF EthGetTransactionByHash, Ask, Keep
  <2> QED
    BY <2>1, <2>2, <2>3, <2>4
<1>7. CASE EvmMine(c)
  <2>1. c.method = "evm_mine" /\ UNCHANGED vars /\ Going
    BY <1>7 DEF EvmMine, Ask, Keep, Return, Going
  <2>2. ReceiptsInv'
    BY <2>1, ReceiptsUnchanged
  <2>3. Kept(c)'
    BY <1>1, <1>7, <2>1, BestBlock DEF EvmMine, Ask, Keep, Return, Kept
  <2>4. ASSUME step' = "returned" PROVE Located(result')
    <3>1. step = "chain id" /\ result' = FormatBlock(block, TRUE)
      BY <1>7, <2>4 DEF EvmMine, Ask, Keep, Return
    <3>2. block \in BlockIds
      BY <2>1, <3>1 DEF Kept
    <3>3. Located(FormatBlock(block, TRUE))
      BY <3>2, BlockLocated
    <3> QED
      BY <3>1, <3>3 DEF Located, Placed
  <2> QED
    BY <2>1, <2>2, <2>3, <2>4
<1>8. CASE EthGetReceipts(c)
  <2>1. CASE /\ c.method = "eth_getTransactionReceipt" /\ step = "begin"
             /\ GetTransactionReceipt(c.tx) /\ step' = "receipts"
    <3>1. c.tx \in Txs
      BY <2>1, ProviderAssumption
    <3>2. ReceiptsInv'
      BY <2>1, <3>1, ReceiptsStart
    <3> QED
      BY <2>1, <3>2 DEF Kept, Going
  <2>2. CASE c.method = "eth_getBlockReceipts" /\ step \in {"begin", "chain id"} /\ UNCHANGED vars
             /\ step' \in {"chain id", "block"}
    <3>1. ReceiptsInv'
      BY <2>2, ReceiptsUnchanged
    <3> QED
      BY <2>2, <3>1 DEF Kept, Going
  <2>3. CASE /\ c.method = "eth_getBlockReceipts" /\ step = "block"
             /\ GetBlockReceipts(c.block.number) /\ step' = "receipts"
    <3>1. ReceiptsInv'
      BY <2>3, BlockReceiptsStart
    <3> QED
      BY <2>3, <3>1 DEF Kept, Going
  <2>4. CASE c.method = "eth_getBlockReceipts" /\ step = "block" /\ Return(Null)
    <3>1. ReceiptsInv'
      BY <2>4, ReceiptsUnchanged DEF Return
    <3> QED
      BY <2>4, <3>1 DEF Kept, Going, Return
  <2> QED
    BY <1>8, <2>1, <2>2, <2>3, <2>4 DEF EthGetReceipts, Ask
<1>9. CASE ReceiptsEnd(c)
  <2>1. CASE step = "receipts" /\ step' = "threw" /\ Recover
    <3>1. ReceiptsInv'
      BY <2>1, ReceiptsStop
    <3> QED
      BY <2>1, <3>1 DEF Kept, Going
  <2>2. CASE step = "receipts" /\ Return([receipts |-> results])
    <3>1. ReceiptsInv'
      BY <2>2, ReceiptsUnchanged DEF Return
    <3>2. Located(result')
      BY <2>2 DEF Return, Located
    <3> QED
      BY <2>2, <3>1, <3>2 DEF Kept, Going, Return
  <2> QED
    BY <1>9, <2>1, <2>2 DEF ReceiptsEnd
<1>10. CASE DebugTraceTransaction(c)
  <2>1. c.method = "debug_traceTransaction" /\ c.tx \in Txs
    BY <1>10, ProviderAssumption DEF DebugTraceTransaction
  <2>2. CASE step = "begin" /\ GetTransactionReceipt(c.tx) /\ step' = "receipts"
    <3>1. ReceiptsInv' /\ asked' = Null /\ Collected(<<c.tx>>)'
      BY <2>1, <2>2, ReceiptsStart
    <3> QED
      BY <2>1, <2>2, <3>1 DEF Kept, Going, Collected
  <2>3. CASE step = "receipts" /\ Throw
    <3>1. ReceiptsInv'
      BY <2>3, ReceiptsUnchanged DEF Throw
    <3> QED
      BY <2>3, <3>1 DEF Kept, Going, Throw
  <2>4. CASE /\ step = "receipts" /\ stage = "idle" /\ results # <<Null>>
             /\ Keep(results[1].block, "trace")
    <3>1. ReceiptsInv'
      BY <2>4, ReceiptsUnchanged DEF Keep
    <3>2. Collected(<<c.tx>>) /\ todo = <<>> /\ results \in Seq(Receipt \union {Null})
      BY <2>1, <2>4 DEF Kept, ReceiptsInv, ReceiptsType
    <3>3. Len(results) = 1 /\ ReceiptFor(results[1], c.tx)
      BY <3>2 DEF Collected, CollectedOf
    <3>4. results[1] # Null
      BY <2>4, <3>2, <3>3
    <3>5. PICK b \in BlockIds : Contains(Content[b], c.tx) /\ results[1] = FormatReceipt(b, c.tx)
      BY <3>3, <3>4 DEF ReceiptFor
    <3>6. block' = b /\ step' = "trace"
      BY <2>4, <3>5, FormatIsReceipt DEF Keep
    <3> QED
      BY <2>1, <2>4, <3>1, <3>5, <3>6 DEF Kept, Going
  <2>5. CASE step = "trace" /\ Return([tx |-> c.tx, block |-> block, clause |-> 0])
    <3>1. ReceiptsInv'
      BY <2>5, ReceiptsUnchanged DEF Return
    <3>2. Contains(Content[block], c.tx)
      BY <2>1, <2>5 DEF Kept
    <3>3. Located([tx |-> c.tx, block |-> block, clause |-> 0])
      BY <3>2 DEF Located
    <3>4. step' = "returned" /\ result' = [tx |-> c.tx, block |-> block, clause |-> 0]
      BY <2>5 DEF Return
    <3>5. Located(result')
      BY <3>3, <3>4 DEF Located, Placed
    <3> QED
      BY <2>1, <2>5, <3>1, <3>4, <3>5 DEF Kept, Going
  <2> QED
    BY <1>10, <2>2, <2>3, <2>4, <2>5 DEF DebugTraceTransaction
<1> QED
  BY <1>2, <1>4, <1>5, <1>6, <1>7, <1>8, <1>9, <1>10, PlainMethods DEF Method

-----------------------------------------------------------------------------
(***************************************************************************)
(* The invariant of a session.                                             *)
(***************************************************************************)
SessionType ==
  /\ front \in FrontEnds \union {"none"}
  /\ payloads \in Seq(Calls)
  /\ front # "none" => current \in DOMAIN payloads
  /\ front \notin {"none", "batch"} => Len(payloads) = 1
  /\ front # "none" => step # "none"

\* Answers come in the order of the calls, and a second one only after a callback
\* that threw at the first.
InOrderOnce ==
  \A i, j \in DOMAIN answers : i < j =>
    \/ answers[i].id < answers[j].id
    \/ answers[i].id = answers[j].id /\ answers[i].ok /\ answers[i].thrown /\ ~answers[j].ok

AnswersInv ==
  /\ answers \in Seq([id : Nat, ok : BOOLEAN, thrown : BOOLEAN])
  /\ InOrderOnce
  /\ front # "none" =>
       /\ \A k \in 1 .. current - 1 : \E i \in DOMAIN answers : answers[i].id = k
       /\ \A i \in DOMAIN answers :
            \/ answers[i].id \in 1 .. current - 1
            \/ /\ answers[i].id = current /\ answers[i].ok /\ answers[i].thrown
               /\ front = "sendAsync" /\ step = "threw"
  /\ AnsweredOnce

ProviderInv ==
  /\ ReceiptsInv
  /\ SessionType
  /\ front # "none" => Kept(payloads[current])
  /\ AnswersInv
  /\ PlaceOfTransaction

-----------------------------------------------------------------------------
(***************************************************************************)
(* The front ends.                                                         *)
(***************************************************************************)
\* The invariant holds before a front end is used.
LEMMA ProviderStart ==
  ProviderInit => ProviderInv
<1> SUFFICES ASSUME ProviderInit PROVE ProviderInv
  OBVIOUS
<1>1. ReceiptsInv
  BY ReceiptsInit DEF ProviderInit
<1>2. SessionType
  BY DEF ProviderInit, SessionType
<1>3. AnswersInv
  BY DEF ProviderInit, AnswersInv, InOrderOnce, AnsweredOnce
<1>4. PlaceOfTransaction
  BY DEF ProviderInit, PlaceOfTransaction, Returned
<1> QED
  BY <1>1, <1>2, <1>3, <1>4 DEF ProviderInit, ProviderInv

\* What is known of the answers stays known while none is given.
LEMMA AnswersStay ==
  ASSUME AnswersInv, front # "none", front' = front, payloads' = payloads,
         current' = current, answers' = answers, step = "threw" => step' = "threw"
  PROVE  AnswersInv'
BY DEF AnswersInv, InOrderOnce, AnsweredOnce

\* The answer to the current call comes after those to the calls before it.
LEMMA AnswerInOrder ==
  ASSUME SessionType, AnswersInv, Settled, NEW thrown \in BOOLEAN,
         answers' = Append(answers, Told(thrown))
  PROVE  /\ answers' \in Seq([id : Nat, ok : BOOLEAN, thrown : BOOLEAN])
         /\ InOrderOnce'
         /\ \A k \in 1 .. current : \E i \in DOMAIN answers' : answers'[i].id = k
         /\ \A i \in DOMAIN answers' : answers'[i].id \in 1 .. current
         /\ \A i \in DOMAIN answers' :
              \/ answers'[i].id \in 1 .. current - 1
              \/ front = "sendAsync" /\ step = "threw"
              \/ /\ answers'[i].id = current
                 /\ answers'[i].ok = (step = "returned") /\ answers'[i].thrown = thrown
<1> DEFINE n == Len(answers) + 1
           T == [id : Nat, ok : BOOLEAN, thrown : BOOLEAN]
<1>1. answers \in Seq(T) /\ payloads \in Seq(Calls) /\ current \in 1 .. Len(payloads)
  BY DEF SessionType, AnswersInv, Settled
<1>2. Told(thrown) \in T
  BY <1>1 DEF Told
<1>3. /\ Told(thrown).id = current /\ Told(thrown).ok = (step = "returned")
      /\ Told(thrown).thrown = thrown
  BY DEF Told
<1>4. /\ answers' \in Seq(T) /\ Len(answers) \in Nat /\ DOMAIN answers = 1 .. Len(answers)
      /\ DOMAIN answers' = 1 .. n /\ answers'[n] = Told(thrown)
      /\ \A i \in 1 .. Len(answers) : answers'[i] = answers[i]
  BY <1>1, <1>2
<1>5. /\ \A k \in 1 .. current - 1 : \E i \in DOMAIN answers : answers[i].id = k
      /\ \A i \in DOMAIN answers :
           \/ answers[i].id \in 1 .. current - 1
           \/ /\ answers[i].id = current /\ answers[i].ok /\ answers[i].thrown
              /\ front = "sendAsync" /\ step = "threw"
  BY DEF AnswersInv, Settled
<1>6. InOrderOnce'
  <2> SUFFICES ASSUME NEW i \in 1 .. n, NEW j \in 1 .. n, i < j
               PROVE  \/ answers'[i].id < answers'[j].id
                      \/ /\ answers'[i].id = answers'[j].id
                         /\ answers'[i].ok /\ answers'[i].thrown /\ ~ answers'[j].ok
    BY <1>4 DEF InOrderOnce
  <2>1. i \in 1 .. Len(answers) /\ answers'[i] = answers[i]
    BY <1>4
  <2>2. CASE j = n
    <3>1. answers'[j].id = current /\ answers'[j].ok = (step = "returned")
      BY <1>3, <1>4, <2>2
    <3>2. CASE answers[i].id \in 1 .. current - 1
      BY <1>1, <2>1, <3>1, <3>2
    <3>3. CASE answers[i].id = current /\ answers[i].ok /\ answers[i].thrown /\ step = "threw"
      BY <2>1, <3>1, <3>3
    <3> QED
      BY <1>4, <1>5, <2>1, <3>2, <3>3
  <2>3. CASE j # n
    <3>1. j \in 1 .. Len(answers) /\ answers'[j] = answers[j]
      BY <1>4, <2>3
    <3>2. \A p, q \in 1 .. Len(answers) : p < q =>
            \/ answers[p].id < answers[q].id
            \/ /\ answers[p].id = answers[q].id
               /\ answers[p].ok /\ answers[p].thrown /\ ~ answers[q].ok
      BY <1>4 DEF AnswersInv, InOrderOnce
    <3> QED
      BY <2>1, <3>1, <3>2
  <2> QED
    BY <2>2, <2>3
<1>7. \A k \in 1 .. current : \E i \in DOMAIN answers' : answers'[i].id = k
  <2> SUFFICES ASSUME NEW k \in 1 .. current PROVE \E i \in 1 .. n : answers'[i].id = k
    BY <1>4
  <2>1. CASE k = current
    BY <1>3, <1>4, <2>1
  <2>2. CASE k # current
    <3>1. k \in 1 .. current - 1
      BY <1>1, <2>2
    <3>2. PICK i \in DOMAIN answers : answers[i].id = k
      BY <1>5, <3>1
    <3> QED
      BY <1>4, <3>2
  <2> QED
    BY <2>1, <2>2
<1>8. ASSUME NEW i \in DOMAIN answers'
      PROVE  /\ answers'[i].id \in 1 .. current
             /\ \/ answers'[i].id \in 1 .. current - 1
                \/ front = "sendAsync" /\ step = "threw"
                \/ /\ answers'[i].id = current
                   /\ answers'[i].ok = (step = "returned") /\ answers'[i].thrown = thrown
  <2>1. CASE i = n
    BY <1>1, <1>3, <1>4, <2>1
  <2>2. CASE i # n
    BY <1>1, <1>4, <1>5, <2>2
  <2> QED
    BY <2>1, <2>2
<1> QED
  BY <1>4, <1>6, <1>7, <1>8

\* The answer to the last call leaves none without.
LEMMA LastAnswer ==
  ASSUME SessionType, AnswersInv, Settled, current = Len(payloads), NEW thrown \in BOOLEAN,
         answers' = Append(answers, Told(thrown)), front' = "none", payloads' = payloads
  PROVE  AnswersInv' /\ SessionType'
<1>1. /\ answers' \in Seq([id : Nat, ok : BOOLEAN, thrown : BOOLEAN])
      /\ InOrderOnce'
      /\ \A k \in 1 .. current : \E i \in DOMAIN answers' : answers'[i].id = k
      /\ \A i \in DOMAIN answers' : answers'[i].id \in 1 .. current
  BY AnswerInOrder
<1>2. payloads \in Seq(Calls) /\ DOMAIN payloads = 1 .. current
  BY DEF SessionType
<1>3. AnsweredOnce'
  BY <1>1, <1>2 DEF AnsweredOnce, InOrderOnce
<1> QED
  BY <1>1, <1>2, <1>3 DEF AnswersInv, SessionType

\* Every step keeps the invariant.
LEMMA ProviderKeeps ==
  ProviderInv /\ [ProviderNext]_allVars => ProviderInv'
<1> SUFFICES ASSUME ProviderInv, [ProviderNext]_allVars PROVE ProviderInv'
  OBVIOUS
<1> DEFINE c == payloads[current]
<1>1. /\ ReceiptsInv /\ SessionType /\ AnswersInv
      /\ front # "none" => Kept(c)
      /\ Returned => Located(result)
  BY PlaceIsLocated DEF ProviderInv
<1>2. /\ front \in FrontEnds \union {"none"}
      /\ payloads \in Seq(Calls)
      /\ front # "none" => current \in 1 .. Len(payloads) /\ c \in Calls
      /\ front \notin {"none", "batch"} => Len(payloads) = 1
      /\ front # "none" => step # "none"
  BY <1>1 DEF SessionType
<1>3. ASSUME ReceiptsInv', SessionType', front' # "none" => Kept(payloads[current])',
             AnswersInv', Returned' => Located(result')
      PROVE  ProviderInv'
  <2>1. (Returned => Located(result))'
    BY <1>3 DEF Located, Placed
  <2>2. PlaceOfTransaction'
    BY <2>1 DEF PlaceOfTransaction, Located, Placed
  <2> QED
    BY <1>3, <2>2 DEF ProviderInv, Kept
<1> HIDE DEF c
<1>4. ASSUME NEW kind \in FrontEnds, NEW calls \in Seq(Calls), calls # <<>>,
             kind # "batch" => Len(calls) = 1, Start(kind, calls)
      PROVE  ProviderInv'
  <2>1. /\ front' = kind /\ payloads' = calls /\ current' = 1 /\ step' = "begin"
        /\ answers' = <<>> /\ UNCHANGED vars
    BY <1>4 DEF Start
  <2>2. ReceiptsInv'
    BY <1>1, <2>1, ReceiptsUnchanged
  <2>3. SessionType'
    BY <1>4, <2>1 DEF SessionType, FrontEnds
  <2>4. Kept(payloads[current])'
    BY <2>1 DEF Kept
  <2>5. AnswersInv'
    BY <1>4, <2>1 DEF AnswersInv, InOrderOnce, AnsweredOnce, FrontEnds
  <2> QED
    BY <1>3, <2>1, <2>2, <2>3, <2>4, <2>5 DEF Returned
<1>5. ASSUME NEW d \in Calls, Request(d) PROVE ProviderInv'
  <2>1. <<d>> \in Seq(Calls) /\ <<d>> # <<>> /\ Len(<<d>>) = 1 /\ "request" \in FrontEnds
    BY DEF FrontEnds
  <2> QED
    BY <1>4, <1>5, <2>1 DEF Request
<1>6. ASSUME NEW calls \in Batches, SendOne(calls) \/ SendBatch(calls) PROVE ProviderInv'
  BY <1>4, <1>6, ProviderAssumption DEF SendOne, SendBatch, FrontEnds
<1>7. CASE MethodStep
  <2>1. /\ front # "none" /\ Method(c) /\ front' = front /\ payloads' = payloads
        /\ current' = current /\ answers' = answers
    BY <1>7 DEF MethodStep, c
  <2> PICK d : d = c
    OBVIOUS
  <2>2. /\ Going /\ ReceiptsInv' /\ Kept(d)'
        /\ step' = "returned" => result' = Null \/ Located(result')
    <3>1. d \in Calls /\ Kept(d) /\ Method(d)
      BY <1>1, <1>2, <2>1
    <3> QED
      BY <1>1, <3>1, MethodKeeps
  <2>3. SessionType'
    BY <1>2, <2>1, <2>2 DEF SessionType, Going
  <2>4. Kept(payloads[current])'
    BY <2>1, <2>2 DEF Kept, c
  <2>5. AnswersInv'
    BY <1>1, <2>1, <2>2, AnswersStay DEF Going
  <2> QED
    BY <1>3, <2>2, <2>3, <2>4, <2>5 DEF Returned
<1>8. ASSUME step = "receipts", front # "none", ReceiptsInv', step' \in {"receipts", "threw"},
             front' = front, payloads' = payloads, current' = current, answers' = answers,
             step' = "receipts" => /\ asked' = asked
                                   /\ \A list \in Seq(Txs) : Collected(list) => Collected(list)'
      PROVE  ProviderInv'
  <2>1. SessionType'
    BY <1>2, <1>8 DEF SessionType
  <2>2. AnswersInv'
    BY <1>1, <1>8, AnswersStay
  <2>3. Kept(payloads[current])'
    <3>1. CASE c.method = "debug_traceTransaction" /\ step' = "receipts"
      <4>1. asked = Null /\ Collected(<<c.tx>>)
        BY <1>1, <1>8, <3>1 DEF Kept
      <4>2. <<c.tx>> \in Seq(Txs)
        BY <1>2, <1>8, <3>1, ProviderAssumption
      <4>3. asked' = Null /\ CollectedOf(<<c.tx>>, results', todo')
        BY <1>8, <3>1, <4>1, <4>2 DEF Collected
      <4> QED
        BY <1>8, <3>1, <4>3 DEF Kept, c, Collected
    <3>2. CASE ~ (c.method = "debug_traceTransaction" /\ step' = "receipts")
      BY <1>8, <3>2 DEF Kept, c
    <3> QED
      BY <3>1, <3>2
  <2> QED
    BY <1>3, <1>8, <2>1, <2>2, <2>3 DEF Returned
<1>9. CASE ReceiptsStep
  <2>1. /\ front # "none" /\ step = "receipts" /\ UNCHANGED ownVars
        /\ ReceiptArrives \/ ContainerArrives \/ DetailArrives \/ ChainIdArrives
    BY <1>9 DEF ReceiptsStep
  <2>2. asked' = asked
    BY <2>1 DEF ReceiptArrives, ContainerArrives, DetailArrives, ChainIdArrives
  <2>3. ReceiptsInv' /\ \A list \in Seq(Txs) : Collected(list) => Collected(list)'
    BY <1>1, <2>1, ReceiptsAdvance
  <2> QED
    BY <1>8, <2>1, <2>2, <2>3 DEF ownVars
<1>10. CASE RequestFails
  <2>1. /\ front # "none" /\ front' = front /\ payloads' = payloads /\ current' = current
        /\ answers' = answers
    BY <1>10 DEF RequestFails
  <2>2. CASE /\ step \notin {"begin", "receipts", "returned", "threw"}
             /\ step' = "threw" /\ UNCHANGED vars
    <3>1. ReceiptsInv'
      BY <1>1, <2>2, ReceiptsUnchanged
    <3>2. SessionType'
      BY <1>2, <2>1, <2>2 DEF SessionType
    <3>3. Kept(payloads[current])'
      BY <2>2 DEF Kept
    <3>4. AnswersInv'
      BY <1>1, <2>1, <2>2, AnswersStay
    <3> QED
      BY <1>3, <2>2, <3>1, <3>2, <3>3, <3>4 DEF Returned
  <2>3. CASE /\ step = "receipts" /\ stage' = "failed"
             /\ UNCHANGED <<step, trunk, reorgs, asked, todo, receipt, detail, results>>
    <3>1. ReceiptsInv' /\ \A list \in Seq(Txs) : Collected(list) => Collected(list)'
      BY <1>1, <2>3, ReceiptsFail
    <3> QED
      BY <1>8, <2>1, <2>3, <3>1
  <2> QED
    BY <1>10, <2>2, <2>3 DEF RequestFails
<1>11. ASSUME Settled, NEW thrown \in BOOLEAN, answers' = Append(answers, Told(thrown)),
              current = Len(payloads), front' = "none", payloads' = payloads, UNCHANGED vars
       PROVE  ProviderInv'
  <2>1. AnswersInv' /\ SessionType'
    BY <1>1, <1>11, LastAnswer
  <2>2. ReceiptsInv'
    BY <1>1, <1>11, ReceiptsUnchanged
  <2> QED
    BY <1>3, <1>11, <2>1, <2>2 DEF Returned
<1>12. CASE Answer \/ HandleRequest
  <2>1. /\ Settled /\ front \in {"request", "proxy"} /\ answers' = Append(answers, Told(FALSE))
        /\ front' = "none" /\ payloads' = payloads /\ UNCHANGED vars
    BY <1>12 DEF Answer, HandleRequest
  <2>2. current = Len(payloads)
    BY <1>2, <2>1
  <2> QED
    BY <1>11, <2>1, <2>2
<1>13. CASE Callback
  <2>1. PICK thrown \in BOOLEAN :
          /\ answers' = Append(answers, Told(thrown))
          /\ IF thrown /\ step = "returned" THEN step' = "threw" /\ UNCHANGED front
                                            ELSE front' = "none" /\ UNCHANGED step
    BY <1>13 DEF Callback
  <2>2. /\ Settled /\ front = "sendAsync" /\ payloads' = payloads /\ current' = current
        /\ UNCHANGED vars
    BY <1>13 DEF Callback
  <2>3. current = Len(payloads) /\ current = 1 /\ Len(payloads) = 1
    <3>1. front = "sendAsync"
      BY <2>2
    <3> QED
      BY <1>2, <3>1
  <2>4. CASE thrown /\ step = "returned"
    <3>1. step' = "threw" /\ front' = "sendAsync"
      BY <2>1, <2>2, <2>4
    <3>2. ReceiptsInv'
      BY <1>1, <2>2, ReceiptsUnchanged
    <3>3. SessionType'
      <4>1. payloads' = payloads /\ current' = current /\ payloads \in Seq(Calls)
        BY <1>2, <2>2
      <4> QED
        BY <2>3, <3>1, <4>1 DEF SessionType, FrontEnds
    <3>4. Kept(payloads[current])'
      BY <3>1 DEF Kept
    <3>5. /\ answers' \in Seq([id : Nat, ok : BOOLEAN, thrown : BOOLEAN])
          /\ InOrderOnce'
          /\ \A k \in 1 .. current : \E i \in DOMAIN answers' : answers'[i].id = k
          /\ \A i \in DOMAIN answers' :
               \/ answers'[i].id \in 1 .. current - 1
               \/ /\ answers'[i].id = current
                  /\ answers'[i].ok = (step = "returned") /\ answers'[i].thrown = thrown
      BY <1>1, <2>1, <2>2, <2>4, AnswerInOrder
    <3>6. \A k \in 1 .. current - 1 : k \in 1 .. current
      BY <1>2, <2>2
    <3>7. AnswersInv'
      BY <2>2, <2>4, <3>1, <3>5, <3>6 DEF AnswersInv, AnsweredOnce
    <3> QED
      BY <1>3, <3>1, <3>2, <3>3, <3>4, <3>7 DEF Returned
  <2>5. CASE ~ (thrown /\ step = "returned")
    <3>1. front' = "none"
      BY <2>1, <2>5
    <3> QED
      BY <1>11, <2>1, <2>2, <2>3, <3>1
  <2> QED
    BY <2>4, <2>5
<1>14. CASE NextOfBatch
  <2>1. /\ Settled /\ front = "batch" /\ answers' = Append(answers, Told(FALSE))
        /\ payloads' = payloads /\ UNCHANGED vars
    BY <1>14 DEF NextOfBatch
  <2>2. CASE /\ current < Len(payloads) /\ current' = current + 1 /\ step' = "begin"
             /\ UNCHANGED front
    <3>1. ReceiptsInv'
      BY <1>1, <2>1, ReceiptsUnchanged
    <3>2. SessionType'
      BY <1>2, <2>1, <2>2 DEF SessionType
    <3>3. Kept(payloads[current])'
      BY <2>2 DEF Kept
    <3>4. /\ answers' \in Seq([id : Nat, ok : BOOLEAN, thrown : BOOLEAN])
          /\ InOrderOnce'
          /\ \A k \in 1 .. current : \E i \in DOMAIN answers' : answers'[i].id = k
          /\ \A i \in DOMAIN answers' : answers'[i].id \in 1 .. current
      BY <1>1, <2>1, AnswerInOrder
    <3>5. current' - 1 = current
      BY <1>2, <2>1, <2>2
    <3>6. AnswersInv'
      BY <2>1, <2>2, <3>4, <3>5 DEF AnswersInv, AnsweredOnce
    <3> QED
      BY <1>3, <2>2, <3>1, <3>2, <3>3, <3>6 DEF Returned
  <2>3. CASE current >= Len(payloads) /\ front' = "none"
    <3>1. current = Len(payloads)
      BY <1>2, <2>1, <2>3
    <3> QED
      BY <1>11, <2>1, <2>3, <3>1
  <2>4. current < Len(payloads) \/ current >= Len(payloads)
    BY <1>2, <2>1
  <2> QED
    BY <1>14, <2>2, <2>3, <2>4 DEF NextOfBatch
<1>15. ASSUME UNCHANGED ownVars, ReceiptsInv', asked' = asked,
              \A list \in Seq(Txs) : Collected(list) => Collected(list)'
       PROVE  ProviderInv'
  <2>1. /\ front' = front /\ payloads' = payloads /\ current' = current /\ step' = step
        /\ block' = block /\ result' = result /\ answers' = answers
    BY <1>15 DEF ownVars
  <2>2. SessionType'
    BY <1>2, <2>1 DEF SessionType
  <2>3. AnswersInv'
    BY <1>1, <2>1 DEF AnswersInv, InOrderOnce, AnsweredOnce
  <2>4. front' # "none" => Kept(payloads[current])'
    <3> SUFFICES ASSUME front # "none" PROVE Kept(payloads[current])'
      BY <2>1
    <3>1. CASE c.method = "debug_traceTransaction" /\ step = "receipts"
      <4>1. asked = Null /\ Collected(<<c.tx>>)
        BY <1>1, <3>1 DEF Kept
      <4>2. <<c.tx>> \in Seq(Txs)
        BY <1>2, <3>1, ProviderAssumption
      <4>3. asked' = Null /\ CollectedOf(<<c.tx>>, results', todo')
        BY <1>15, <4>1, <4>2 DEF Collected
      <4> QED
        BY <2>1, <3>1, <4>3 DEF Kept, c, Collected
    <3>2. CASE ~ (c.method = "debug_traceTransaction" /\ step = "receipts")
      BY <1>1, <2>1, <3>2 DEF Kept, c
    <3> QED
      BY <3>1, <3>2
  <2>5. Returned' => Located(result')
    BY <1>1, <2>1 DEF Returned
  <2> QED
    BY <1>3, <1>15, <2>2, <2>3, <2>4, <2>5
<1>16. CASE Reorg /\ UNCHANGED ownVars
  BY <1>1, <1>15, <1>16, ReceiptsThroughReorg DEF Reorg, callVars
<1>17. CASE UNCHANGED allVars
  <2>1. UNCHANGED vars /\ UNCHANGED ownVars
    BY <1>17 DEF allVars
  <2> QED
    BY <1>1, <1>15, <2>1, ReceiptsUnchanged DEF vars, callVars
<1> QED
  BY <1>5, <1>6, <1>7, <1>9, <1>10, <1>12, <1>13, <1>14, <1>16, <1>17
  DEF ProviderNext, ProviderStep

-----------------------------------------------------------------------------
(***************************************************************************)
(* The logs of the node.                                                   *)
(***************************************************************************)
\* A log of block b.
LogIn(b) == [block : {b}, tx : Txs, event : Nat]
Log      == [block : BlockIds, tx : Txs, event : Nat]

LEMMA LogsOfBlock ==
  ASSUME NEW b \in BlockIds
  PROVE  LogsOf(b) \in Seq(LogIn(b)) /\ LogsOf(b) \in Seq(Log)
<1> DEFINE N == Len(Content[b])
           of(t) == [k \in 1 .. Events[b][t] |-> [block |-> b, tx |-> t, event |-> k]]
           parts == [i \in DOMAIN Content[b] |-> of(Content[b][i])]
<1>1. Content[b] \in Seq(Txs) /\ N \in Nat /\ DOMAIN Content[b] = 1 .. N
  BY ReceiptAssumption
<1>2. \A i \in 1 .. N : Content[b][i] \in Txs
  BY <1>1
<1>3. ASSUME NEW t \in Txs PROVE of(t) \in Seq(LogIn(b))
  <2>1. Events[b][t] \in Nat
    BY ReceiptAssumption
  <2>2. \A k \in 1 .. Events[b][t] : [block |-> b, tx |-> t, event |-> k] \in LogIn(b)
    BY <2>1 DEF LogIn
  <2> QED
    BY <2>1, <2>2
<1>4. parts \in [1 .. N -> Seq(LogIn(b))]
  <2> HIDE DEF of
  <2> QED
    BY <1>1, <1>2, <1>3
<1>5. LogsOf(b) = FlattenSeq(parts)
  BY DEF LogsOf
<1>6. LogsOf(b) \in Seq(LogIn(b))
  <2> HIDE DEF parts, N
  <2> QED
    BY <1>1, <1>4, <1>5, FlattenOnes
<1>7. \A log \in LogIn(b) : log \in Log
  BY DEF LogIn, Log
<1>8. LogsOf(b) \in Seq(Log)
  <2> HIDE DEF LogIn, Log
  <2> QED
    BY <1>6, <1>7
<1> QED
  BY <1>6, <1>8

\* The logs of a block are the block's.
LEMMA LogsNameTheirBlock ==
  ASSUME NEW b \in BlockIds, NEW log \in ToSet(LogsOf(b))
  PROVE  log \in Log /\ log.block = b /\ log.tx \in Txs
<1>1. LogsOf(b) \in Seq(LogIn(b))
  BY LogsOfBlock
<1>2. log \in LogIn(b)
  <2> HIDE DEF LogIn
  <2> QED
    BY <1>1 DEF ToSet
<1> QED
  BY <1>2 DEF LogIn, Log

\* A trunk has one block of a number, at most.
LEMMA BlockOfNumber ==
  ASSUME trunk \in Branches, NEW n
  PROVE  LET b == NodeBlock([number |-> n])
         IN  /\ b # Null => b \in trunk /\ b \in BlockIds /\ Height[b] = n
             /\ \A c \in trunk : Height[c] = n => c = b /\ b # Null
<1> DEFINE b == NodeBlock([number |-> n])
<1>1. DOMAIN [number |-> n] = {"number"} /\ [number |-> n].number = n
  OBVIOUS
<1>2. b = IF \E c \in trunk : Height[c] = n THEN CHOOSE c \in trunk : Height[c] = n ELSE Null
  BY <1>1 DEF NodeBlock
<1>3. trunk \subseteq BlockIds /\ Null \notin BlockIds
  BY ReceiptAssumption
<1>4. \A c, d \in trunk : Height[c] = Height[d] => c = d
  BY ReceiptAssumption
<1> HIDE DEF b
<1>5. CASE \E c \in trunk : Height[c] = n
  <2>1. b \in trunk /\ Height[b] = n
    BY <1>2, <1>5
  <2> QED
    BY <1>3, <1>4, <2>1 DEF b
<1>6. CASE ~ \E c \in trunk : Height[c] = n
  BY <1>2, <1>6 DEF b
<1> QED
  BY <1>5, <1>6

\* Those of a range are all the trunk's in it.
LEMMA LogsOfRange ==
  ASSUME trunk \in Branches, NEW from \in Nat, NEW to \in Nat
  PROVE  /\ LogsBetween(from, to) \in Seq(Log)
         /\ ToSet(LogsBetween(from, to)) =
              {log \in UNION {ToSet(LogsOf(b)) : b \in trunk} : Height[log.block] \in from .. to}
<1> DEFINE N == IF to < from THEN 0 ELSE to - from + 1
           at(n) == NodeBlock([number |-> from + n - 1])
           parts == [n \in 1 .. N |-> IF at(n) = Null THEN <<>> ELSE LogsOf(at(n))]
           all == LogsBetween(from, to)
<1>1. N \in Nat
  OBVIOUS
<1>2. all = FlattenSeq(parts)
  <2> DEFINE blocks == [n \in 1 .. N |-> at(n)]
  <2>1. all = FlattenSeq([n \in DOMAIN blocks |->
                            IF blocks[n] = Null THEN <<>> ELSE LogsOf(blocks[n])])
    BY DEF LogsBetween
  <2>2. DOMAIN blocks = 1 .. N /\ \A n \in 1 .. N : blocks[n] = at(n)
    OBVIOUS
  <2> HIDE DEF blocks, at, N
  <2> QED
    BY <2>1, <2>2
<1>3. ASSUME NEW n \in 1 .. N, at(n) # Null
      PROVE  at(n) \in trunk /\ at(n) \in BlockIds /\ Height[at(n)] \in from .. to
  <2>1. from + n - 1 \in from .. to
    <3>1. n \in Nat
      OBVIOUS
    <3> QED
      BY <3>1
  <2>2. at(n) \in trunk /\ at(n) \in BlockIds /\ Height[at(n)] = from + n - 1
    BY <1>3, BlockOfNumber
  <2> QED
    BY <2>1, <2>2
<1> HIDE DEF at
<1>4. parts \in [1 .. N -> Seq(Log)]
  <2>1. \A n \in 1 .. N : at(n) # Null => LogsOf(at(n)) \in Seq(Log)
    BY <1>3, LogsOfBlock
  <2> QED
    BY <2>1
<1>5. all \in Seq(Log) /\ ToSet(all) = UNION {ToSet(parts[n]) : n \in 1 .. N}
  <2> HIDE DEF N, parts, all
  <2> QED
    BY <1>1, <1>2, <1>4, FlattenOnes
<1>6. ASSUME NEW log \in ToSet(all)
      PROVE  \E b \in trunk : log \in ToSet(LogsOf(b)) /\ Height[log.block] \in from .. to
  <2>1. PICK n \in 1 .. N : log \in ToSet(parts[n])
    <3> HIDE DEF N, parts, all
    <3> QED
      BY <1>5
  <2>2. CASE at(n) = Null
    <3> HIDE DEF N
    <3>1. parts[n] = <<>>
      BY <2>2
    <3> HIDE DEF parts
    <3> QED
      BY <2>1, <3>1 DEF ToSet
  <2>3. CASE at(n) # Null
    <3>1. log \in ToSet(LogsOf(at(n)))
      BY <2>1, <2>3
    <3>2. log.block = at(n)
      BY <1>3, <2>3, <3>1, LogsNameTheirBlock
    <3> QED
      BY <1>3, <2>3, <3>1, <3>2
  <2> QED
    BY <2>2, <2>3
<1>7. ASSUME NEW b \in trunk, NEW log \in ToSet(LogsOf(b)), Height[log.block] \in from .. to
      PROVE  log \in ToSet(all)
  <2>1. b \in BlockIds /\ log.block = b /\ Height[b] \in Nat
    BY LogsNameTheirBlock, ReceiptAssumption
  <2> DEFINE n == Height[b] - from + 1
  <2>2. n \in 1 .. N /\ from + n - 1 = Height[b]
    BY <1>7, <2>1
  <2>3. at(n) = b /\ b # Null
    BY <2>2, BlockOfNumber DEF at
  <2> HIDE DEF n
  <2>4. log \in ToSet(parts[n])
    BY <2>2, <2>3
  <2> HIDE DEF N, parts, all
  <2> QED
    BY <1>5, <2>2, <2>4
<1> HIDE DEF all
<1>8. ToSet(all) = {log \in UNION {ToSet(LogsOf(b)) : b \in trunk} : Height[log.block] \in from .. to}
  BY <1>6, <1>7
<1> QED
  BY <1>5, <1>8 DEF all

\* Those that meet one of the criteria, if there are any, unless there are too many.
LEMMA LogsMeet ==
  ASSUME NEW logs \in Seq(Log), NEW criteria
  PROVE  LET met   == {log \in ToSet(logs) :
                         criteria = {} \/ \E c \in criteria : Meets(log, c)}
             found == NodeLogs(logs, criteria)
         IN  /\ ToSet(found) \subseteq met
             /\ Len(found) < MaxLimit => met \subseteq ToSet(found)
<1> DEFINE ones == {log \in ToSet(logs) :
                      criteria = {} \/ \E c \in criteria : Meets(log, c)}
           met == Selected(logs, ones)
           k == IF Len(met) < MaxLimit THEN Len(met) ELSE MaxLimit
           found == NodeLogs(logs, criteria)
<1>1. found = SubSeq(met, 1, k)
  BY DEF NodeLogs
<1> HIDE DEF found, ones
<1>2. met \in Seq(Log) /\ ToSet(met) = ToSet(logs) \intersect ones
  BY SelectedOnes
<1>3. ToSet(logs) \intersect ones = ones
  BY DEF ones
<1> HIDE DEF met
<1>4. MaxLimit \in Nat \ {0}
  BY ProviderAssumption
<1>5. k \in 0 .. Len(met) /\ (k < MaxLimit => k = Len(met)) /\ Len(met) \in Nat
  BY <1>2, <1>4
<1>6. Len(found) = k /\ DOMAIN found = 1 .. k /\ \A i \in 1 .. k : found[i] = met[i]
  <2> HIDE DEF k
  <2> QED
    BY <1>1, <1>2, <1>5
<1>7. DOMAIN met = 1 .. Len(met)
  BY <1>2
<1> HIDE DEF k
<1>8. ToSet(found) \subseteq ToSet(met)
  <2>1. \A i \in 1 .. k : i \in 1 .. Len(met)
    BY <1>5
  <2> QED
    BY <1>6, <1>7, <2>1 DEF ToSet
<1>9. Len(found) < MaxLimit => ToSet(met) \subseteq ToSet(found)
  BY <1>5, <1>6, <1>7 DEF ToSet
<1> QED
  BY <1>2, <1>3, <1>8, <1>9 DEF found, ones

-----------------------------------------------------------------------------
(***************************************************************************)
(* The criteria of a filter.                                               *)
(***************************************************************************)
IsPlain(t)  == "one" \in DOMAIN t
IsNested(t) == "any" \in DOMAIN t
Topic == [one : Topics \union {Null}] \union [any : SUBSET Topics]

LEMMA TopicKinds ==
  ASSUME NEW t \in Topic
  PROVE  /\ IsPlain(t) <=> ~IsNested(t)
         /\ IsPlain(t) => t = [one |-> t.one] /\ t.one \in Topics \union {Null}
         /\ IsNested(t) => t = [any |-> t.any] /\ t.any \subseteq Topics /\ t # [one |-> Null]
<1>1. CASE t \in [one : Topics \union {Null}]
  <2>1. DOMAIN t = {"one"}
    BY <1>1
  <2> QED
    BY <1>1, <2>1 DEF IsPlain, IsNested
<1>2. CASE t \in [any : SUBSET Topics]
  <2>1. DOMAIN t = {"any"}
    BY <1>2
  <2>2. DOMAIN [one |-> Null] = {"one"}
    OBVIOUS
  <2> QED
    BY <1>2, <2>1, <2>2 DEF IsPlain, IsNested
<1> QED
  BY <1>1, <1>2 DEF Topic

\* The plain topics of a filter.
PlainOnes(topics) == Selected(topics, {t \in ToSet(topics) : IsPlain(t)})

Together(plain) == [i \in DOMAIN plain |-> plain[i].one]

\* What the criteria of an address are made of.
LEMMA CriteriaOfTopics ==
  ASSUME NEW topics, NEW address, NEW k
  PROVE  k \in TopicsPerAddress(address, topics) <=>
           \/ \E j \in DOMAIN topics : \E t \in topics[j].any :
                IsNested(topics[j]) /\ k = ScatterArrayTopic(<<t>>, address)
           \/ PlainOnes(topics) # <<>> /\ k = ScatterArrayTopic(Together(PlainOnes(topics)), address)
           \/ /\ PlainOnes(topics) = <<>>
              /\ \A j \in DOMAIN topics : IsNested(topics[j]) => topics[j].any = {}
              /\ k = ScatterArrayTopic(<<>>, address)
<1> DEFINE plain  == PlainOnes(topics)
           nested == UNION {topics[i].any : i \in {j \in DOMAIN topics : "any" \in DOMAIN topics[j]}}
           set    == {ScatterArrayTopic(<<t>>, address) : t \in nested}
                       \union IF plain = <<>> THEN {}
                              ELSE {ScatterArrayTopic(Together(plain), address)}
<1>1. TopicsPerAddress(address, topics) =
        IF set = {} THEN {ScatterArrayTopic(<<>>, address)} ELSE set
  BY DEF TopicsPerAddress, PlainOnes, Together, IsPlain
<1>2. \A t : t \in nested <=> \E j \in DOMAIN topics : t \in topics[j].any /\ IsNested(topics[j])
  BY DEF IsNested
<1> HIDE DEF plain, nested
<1>3. set = {} <=> plain = <<>> /\ nested = {}
  OBVIOUS
<1>4. nested = {} <=> \A j \in DOMAIN topics : IsNested(topics[j]) => topics[j].any = {}
  BY <1>2
<1>5. k \in set <=> \/ \E t \in nested : k = ScatterArrayTopic(<<t>>, address)
                    \/ plain # <<>> /\ k = ScatterArrayTopic(Together(plain), address)
  OBVIOUS
<1> HIDE DEF set
<1>6. CASE set = {}
  BY <1>1, <1>2, <1>3, <1>4, <1>5, <1>6 DEF plain
<1>7. CASE set # {}
  BY <1>1, <1>2, <1>3, <1>4, <1>5, <1>7 DEF plain
<1> QED
  BY <1>6, <1>7

\* When no plain topic comes after a nested one, the plain ones keep their places.
LEMMA PlainOnesInPlace ==
  ASSUME NEW topics \in Seq(Topic),
         \A i, j \in DOMAIN topics : i < j /\ IsNested(topics[i]) => IsNested(topics[j])
  PROVE  \E n \in 0 .. Len(topics) :
           /\ \A i \in 1 .. Len(topics) : IsPlain(topics[i]) <=> i <= n
           /\ Len(PlainOnes(topics)) = n
           /\ \A i \in 1 .. n : PlainOnes(topics)[i] = topics[i]
<1> DEFINE N == Len(topics)
           T == {i \in 1 .. N : IsNested(topics[i])}
           ones == {t \in ToSet(topics) : IsPlain(t)}
<1>1. N \in Nat /\ DOMAIN topics = 1 .. N /\ \A i \in 1 .. N : topics[i] \in Topic
  OBVIOUS
<1>2. PICK n \in 0 .. N : \A i \in 1 .. N : IsPlain(topics[i]) <=> i <= n
  <2>1. CASE T = {}
    <3>1. \A i \in 1 .. N : IsPlain(topics[i]) <=> i <= N
      BY <1>1, <2>1, TopicKinds
    <3> QED
      BY <1>1, <3>1
  <2>2. CASE T # {}
    <3>1. T \in SUBSET Nat
      BY <1>1
    <3>2. PICK m \in T : \A i \in T : m <= i
      <4> HIDE DEF T
      <4> QED
        BY <2>2, <3>1, LeastNumber
    <3>3. m \in 1 .. N /\ IsNested(topics[m])
      OBVIOUS
    <3>4. ASSUME NEW i \in 1 .. N PROVE IsPlain(topics[i]) <=> i <= m - 1
      <4>1. IsPlain(topics[i]) <=> ~IsNested(topics[i])
        BY <1>1, TopicKinds
      <4>2. IsNested(topics[i]) => m <= i
        BY <3>2
      <4>3. m < i => IsNested(topics[i])
        BY <1>1, <3>3
      <4>4. m \in Nat /\ i \in Nat /\ (i = m => IsNested(topics[i]))
        BY <1>1, <3>3
      <4> HIDE DEF T, N
      <4> QED
        BY <4>1, <4>2, <4>3, <4>4
    <3>5. m - 1 \in 0 .. N
      BY <1>1, <3>3
    <3> QED
      BY <3>4, <3>5
  <2> QED
    BY <2>1, <2>2
<1>3. \A i \in 1 .. N : topics[i] \in ones <=> i <= n
  BY <1>1, <1>2 DEF ToSet
<1> HIDE DEF ones
<1>4. /\ Len(Selected(topics, ones)) = n
      /\ \A i \in 1 .. n : Selected(topics, ones)[i] = topics[i]
  <2>1. \A i \in 1 .. n : topics[i] \in ones
    BY <1>1, <1>3
  <2>2. \A i \in n + 1 .. N : topics[i] \notin ones
    BY <1>1, <1>3
  <2> QED
    BY <1>1, <2>1, <2>2, SelectedBeginning
<1> QED
  BY <1>2, <1>4 DEF PlainOnes, ones

\* The addresses of the criteria.
AddressesOf(c) == IF c.address = Null THEN {Null} ELSE c.address

\* A call of eth_getLogs.
LEMMA LogsCall ==
  ASSUME NEW c \in Calls, c.method = "eth_getLogs"
  PROVE  /\ Hexadecimal(c) => \A end \in {c.from, c.to} : end = Null \/ end.hex \in Nat
         /\ c.address # Null => Null \notin c.address
         /\ c.topics \in Seq(Topic)
         /\ Null \notin Nat /\ Null \notin Topics
BY ProviderAssumption DEF Topic, Hexadecimal

\* A log that matches a filter with criteria meets one of them.
LEMMA MatchingMeets ==
  ASSUME NEW c \in Calls, c.method = "eth_getLogs", InPosition(c),
         AddressesOf(c) # {},
         NEW log, log.tx \in Txs, Matches(log, c)
  PROVE  \E k \in CriteriaSetForInput(c.address, c.topics) : Meets(log, k)
<1> DEFINE topics == c.topics
           own == LogTopics[log.tx]
           N == Len(topics)
           plain == PlainOnes(topics)
           Fits(k) == /\ DOMAIN k = {"address", "topics"}
                      /\ \A i \in DOMAIN k.topics :
                           k.topics[i] # Null => i \in DOMAIN own /\ own[i] = k.topics[i]
<1>1. PICK a \in AddressesOf(c) : a \in {Null, LogAddress[log.tx]}
  BY DEF AddressesOf, Matches
<1>2. ASSUME NEW t, ScatterArrayTopic(t, a) \in TopicsPerAddress(a, topics),
             \A i \in DOMAIN t : t[i] # Null => i \in DOMAIN own /\ own[i] = t[i]
      PROVE  \E k \in CriteriaSetForInput(c.address, c.topics) : Meets(log, k)
  <2> DEFINE k == ScatterArrayTopic(t, a)
  <2>1. k.address = a /\ k.topics = t
    BY DEF ScatterArrayTopic
  <2>2. k \in CriteriaSetForInput(c.address, c.topics)
    BY <1>1, <1>2 DEF CriteriaSetForInput, AddressesOf
  <2> HIDE DEF k
  <2>3. Meets(log, k)
    BY <1>1, <1>2, <2>1 DEF Meets
  <2> QED
    BY <2>2, <2>3
<1>3. topics \in Seq(Topic) /\ N \in Nat /\ DOMAIN topics = 1 .. N
  BY LogsCall
<1>4. ASSUME NEW i \in 1 .. N
      PROVE  /\ topics[i] \in Topic
             /\ IsPlain(topics[i]) /\ topics[i].one # Null =>
                  i \in DOMAIN own /\ own[i] = topics[i].one
             /\ IsNested(topics[i]) => i \in DOMAIN own /\ own[i] \in topics[i].any
  <2>1. topics[i] \in Topic
    BY <1>3
  <2>2. \/ topics[i] = [one |-> Null]
        \/ /\ i \in DOMAIN own
           /\ own[i] \in IF "one" \in DOMAIN topics[i] THEN {topics[i].one} ELSE topics[i].any
    BY <1>3 DEF Matches
  <2>3. [one |-> Null].one = Null
    OBVIOUS
  <2> HIDE DEF topics, own
  <2> QED
    BY <2>1, <2>2, <2>3, TopicKinds DEF IsPlain
<1> HIDE DEF topics, own, N
<1>5. CASE topics # <<>> /\ IsNested(topics[1])
  <2>1. 1 \in 1 .. N
    BY <1>3, <1>5 DEF N
  <2>2. 1 \in DOMAIN own /\ own[1] \in topics[1].any
    BY <1>4, <1>5, <2>1
  <2>3. ScatterArrayTopic(<<own[1]>>, a) \in TopicsPerAddress(a, topics)
    BY <1>3, <1>5, <2>1, <2>2, CriteriaOfTopics
  <2>4. DOMAIN <<own[1]>> = {1} /\ <<own[1]>>[1] = own[1]
    OBVIOUS
  <2> QED
    BY <1>2, <2>2, <2>3, <2>4
<1>6. CASE ~(topics # <<>> /\ IsNested(topics[1]))
  <2>1. \A i, j \in DOMAIN topics : i < j /\ IsNested(topics[i]) => IsNested(topics[j])
    BY <1>6 DEF InPosition, IsNested, topics
  <2>2. PICK n \in 0 .. N : /\ \A i \in 1 .. N : IsPlain(topics[i]) <=> i <= n
                            /\ Len(plain) = n
                            /\ \A i \in 1 .. n : plain[i] = topics[i]
    BY <1>3, <2>1, PlainOnesInPlace DEF N
  <2>3. plain \in Seq(Topic)
    BY <1>3, SelectedOnes DEF PlainOnes
  <2> HIDE DEF plain
  <2>4. CASE n = 0
    <3>1. plain = <<>> /\ N = 0
      <4>1. CASE N = 0
        BY <2>2, <2>3, <2>4, <4>1
      <4>2. CASE N # 0
        <5>1. 1 \in 1 .. N /\ topics # <<>>
          BY <1>3, <4>2 DEF N
        <5>2. IsNested(topics[1])
          BY <1>4, <2>2, <2>4, <5>1, TopicKinds
        <5> QED
          BY <1>6, <5>1, <5>2
      <4> QED
        BY <4>1, <4>2
    <3>2. ScatterArrayTopic(<<>>, a) \in TopicsPerAddress(a, topics)
      BY <1>3, <3>1, CriteriaOfTopics DEF plain
    <3> QED
      BY <1>2, <3>2
  <2>5. CASE n # 0
    <3>1. plain # <<>> /\ DOMAIN plain = 1 .. n
      BY <2>2, <2>3, <2>5
    <3>2. ScatterArrayTopic(Together(plain), a) \in TopicsPerAddress(a, topics)
      BY <3>1, CriteriaOfTopics DEF plain
    <3>3. ASSUME NEW i \in 1 .. n, topics[i].one # Null
          PROVE  i \in DOMAIN own /\ own[i] = topics[i].one
      <4>1. i \in 1 .. N /\ i <= n
        BY <1>3
      <4> QED
        BY <1>4, <2>2, <3>3, <4>1
    <3>4. DOMAIN Together(plain) = 1 .. n /\ \A i \in 1 .. n : Together(plain)[i] = topics[i].one
      BY <2>2, <3>1 DEF Together
    <3> QED
      BY <1>2, <3>2, <3>3, <3>4
  <2> QED
    BY <2>4, <2>5
<1> QED
  BY <1>5, <1>6

\* An address always makes a criterion.
LEMMA CriteriaOfAddress ==
  ASSUME NEW topics, NEW address
  PROVE  TopicsPerAddress(address, topics) # {}
BY DEF TopicsPerAddress

\* A log that meets a criterion of a filter without nested topics, but for the only
\* one, matches it.
LEMMA MeetingMatches ==
  ASSUME NEW c \in Calls, c.method = "eth_getLogs", Plain(c),
         NEW log, log.tx \in Txs,
         NEW k \in CriteriaSetForInput(c.address, c.topics), Meets(log, k)
  PROVE  Matches(log, c)
<1> DEFINE topics == c.topics
           own == LogTopics[log.tx]
           N == Len(topics)
           plain == PlainOnes(topics)
<1>1. PICK a \in AddressesOf(c) : k \in TopicsPerAddress(a, topics)
  BY DEF AddressesOf, CriteriaSetForInput
<1>2. topics \in Seq(Topic) /\ N \in Nat /\ DOMAIN topics = 1 .. N
  BY LogsCall
<1>3. k.address = a
  BY <1>1, CriteriaOfTopics DEF ScatterArrayTopic
<1>4. c.address \notin {Null, {}} => LogAddress[log.tx] \in c.address
  BY <1>1, <1>3, LogsCall DEF AddressesOf, Meets
<1>5. \A i \in DOMAIN k.topics : k.topics[i] # Null => i \in DOMAIN own /\ own[i] = k.topics[i]
  BY DEF Meets
<1>6. SUFFICES ASSUME NEW i \in 1 .. N
               PROVE  \/ topics[i] = [one |-> Null]
                      \/ /\ i \in DOMAIN own
                         /\ own[i] \in IF "one" \in DOMAIN topics[i] THEN {topics[i].one}
                                       ELSE topics[i].any
  BY <1>2, <1>4 DEF Matches
<1>7. topics[i] \in Topic
  BY <1>2
<1>10. \/ \A j \in DOMAIN topics : IsPlain(topics[j])
       \/ Len(topics) = 1 /\ topics[1] # [any |-> {}]
  BY DEF Plain, IsPlain
<1> HIDE DEF topics, own, N
<1>8. CASE \A j \in 1 .. N : IsPlain(topics[j])
  <2>1. \A j \in 1 .. N : ~IsNested(topics[j])
    BY <1>2, <1>8, TopicKinds
  <2>2. PICK n \in 0 .. N : /\ \A j \in 1 .. N : IsPlain(topics[j]) <=> j <= n
                            /\ Len(plain) = n
                            /\ \A j \in 1 .. n : plain[j] = topics[j]
    BY <1>2, <2>1, PlainOnesInPlace DEF N
  <2>3. plain \in Seq(Topic)
    BY <1>2, SelectedOnes DEF PlainOnes
  <2> HIDE DEF plain
  <2>4. i <= n /\ i \in 1 .. n /\ n # 0
    BY <1>2, <1>8, <2>2
  <2>5. plain # <<>> /\ DOMAIN plain = 1 .. n
    BY <2>2, <2>3, <2>4
  <2>6. k = ScatterArrayTopic(Together(plain), a)
    BY <1>1, <1>2, <2>1, <2>5, CriteriaOfTopics DEF plain
  <2>7. i \in DOMAIN k.topics /\ k.topics[i] = topics[i].one
    BY <2>2, <2>4, <2>5, <2>6 DEF ScatterArrayTopic, Together
  <2> QED
    BY <1>5, <1>7, <1>8, <2>7, TopicKinds DEF IsPlain
<1>9. CASE ~ \A j \in 1 .. N : IsPlain(topics[j])
  <2>1. N = 1 /\ i = 1 /\ topics[1] # [any |-> {}]
    BY <1>2, <1>9, <1>10 DEF N
  <2>2. ~IsPlain(topics[1]) /\ IsNested(topics[1])
    <3>1. \A j \in 1 .. N : j = 1
      BY <2>1
    <3> QED
      BY <1>7, <1>9, <2>1, <3>1, TopicKinds
  <2>3. topics[1].any # {} /\ topics[1].any \subseteq Topics
    BY <1>7, <2>1, <2>2, TopicKinds
  <2>4. plain = <<>>
    <3> DEFINE ones == {t \in ToSet(topics) : IsPlain(t)}
    <3>1. \A j \in 1 .. N : topics[j] \notin ones
      BY <2>1, <2>2
    <3>2. plain \in Seq(Topic) /\ Len(plain) = 0
      <4>1. 0 \in 0 .. Len(topics) /\ (\A j \in 1 .. 0 : topics[j] \in ones)
        BY <1>2 DEF N
      <4>2. \A j \in 0 + 1 .. Len(topics) : topics[j] \notin ones
        BY <3>1 DEF N
      <4> HIDE DEF ones
      <4>3. Len(Selected(topics, ones)) = 0 /\ Selected(topics, ones) \in Seq(Topic)
        BY <1>2, <4>1, <4>2, SelectedBeginning, SelectedOnes
      <4> QED
        BY <4>3 DEF PlainOnes, ones
    <3> HIDE DEF plain
    <3> QED
      BY <3>2
  <2>5. PICK t \in topics[1].any : k = ScatterArrayTopic(<<t>>, a)
    <3>1. \A j \in DOMAIN topics : j = 1
      BY <1>2, <2>1
    <3>2. 1 \in DOMAIN topics
      BY <1>2, <2>1
    <3>3. \E j \in DOMAIN topics : \E t \in topics[j].any :
            IsNested(topics[j]) /\ k = ScatterArrayTopic(<<t>>, a)
      <4>1. PlainOnes(topics) = <<>>
        BY <2>4
      <4>2. ~ \A j \in DOMAIN topics : IsNested(topics[j]) => topics[j].any = {}
        BY <2>2, <2>3, <3>2
      <4> HIDE DEF plain
      <4> QED
        BY <1>1, <4>1, <4>2, CriteriaOfTopics
    <3> QED
      BY <3>1, <3>3
  <2>6. 1 \in DOMAIN k.topics /\ k.topics[1] = t /\ t # Null
    BY <2>3, <2>5, LogsCall DEF ScatterArrayTopic
  <2> QED
    BY <1>5, <2>1, <2>2, <2>5, <2>6 DEF IsPlain
<1> QED
  BY <1>8, <1>9

-----------------------------------------------------------------------------
(***************************************************************************)
(* A filter of logs, from the call to the result.                          *)
(***************************************************************************)
\* What LogsAsFiltered says of a result r of a call c.
Filtered(r, c) ==
  LET from     == IF c.from = Null THEN Height[r.best] ELSE c.from.hex
      to       == IF c.to = Null THEN Height[r.best] ELSE c.to.hex
      matching == {log \in UNION {ToSet(LogsOf(b)) : b \in r.trunk} :
                     Height[log.block] \in from .. to /\ Matches(log, c)}
  IN  /\ Len(r.logs) < MaxLimit /\ InPosition(c) => matching \subseteq ToSet(r.logs)
      /\ Plain(c) => ToSet(r.logs) \subseteq matching

\* The result of eth_getLogs, and the block that it reads the logs up to.
LogsInv ==
  /\ Returned /\ payloads[current].method = "eth_getLogs" /\ Hexadecimal(payloads[current]) =>
       Filtered(result, payloads[current])
  /\ front # "none" /\ payloads[current].method = "eth_getLogs" =>
       /\ step \in {"begin", "best", "logs", "returned", "threw"}
       /\ step = "logs" => block \in BlockIds

LEMMA LogsStart == ProviderInit => LogsInv
BY DEF ProviderInit, LogsInv, Returned

\* What neither begins a call nor goes on with one keeps it.
LEMMA LogsStay ==
  ASSUME LogsInv, payloads' = payloads, current' = current, result' = result,
         front' \in {front, "none"}, step' \in {step, "threw"}, block' = block
  PROVE  LogsInv'
BY DEF LogsInv, Returned

\* What the node finds is as the filter says.
LEMMA FoundAsFiltered ==
  ASSUME trunk \in Branches, NEW c \in Calls, c.method = "eth_getLogs",
         NEW from \in Nat, NEW to \in Nat
  PROVE  LET found    == NodeLogs(LogsBetween(from, to), CriteriaSetForInput(c.address, c.topics))
             matching == {log \in UNION {ToSet(LogsOf(b)) : b \in trunk} :
                            Height[log.block] \in from .. to /\ Matches(log, c)}
         IN  /\ Len(found) < MaxLimit /\ InPosition(c) => matching \subseteq ToSet(found)
             /\ Plain(c) => ToSet(found) \subseteq matching
<1> DEFINE logs == LogsBetween(from, to)
           criteria == CriteriaSetForInput(c.address, c.topics)
           found == NodeLogs(logs, criteria)
           inRange == {log \in UNION {ToSet(LogsOf(b)) : b \in trunk} :
                         Height[log.block] \in from .. to}
           met == {log \in ToSet(logs) : criteria = {} \/ \E k \in criteria : Meets(log, k)}
<1>1. logs \in Seq(Log) /\ ToSet(logs) = inRange
  BY LogsOfRange
<1>2. \A log \in inRange : log.tx \in Txs
  BY LogsNameTheirBlock, ReceiptAssumption
<1> HIDE DEF logs, criteria
<1>3. ToSet(found) \subseteq met /\ (Len(found) < MaxLimit => met \subseteq ToSet(found))
  BY <1>1, LogsMeet
<1>4. ASSUME NEW log \in inRange, InPosition(c), Matches(log, c) PROVE log \in met
  <2>1. CASE AddressesOf(c) = {}
    <3>1. criteria = {}
      BY <2>1 DEF criteria, CriteriaSetForInput, AddressesOf
    <3> QED
      BY <1>1, <3>1
  <2>2. CASE AddressesOf(c) # {}
    <3>1. \E k \in criteria : Meets(log, k)
      BY <1>2, <1>4, <2>2, MatchingMeets DEF criteria
    <3> QED
      BY <1>1, <3>1
  <2> QED
    BY <2>1, <2>2
<1>5. ASSUME NEW log \in met, Plain(c) PROVE log \in inRange /\ Matches(log, c)
  <2>1. log \in inRange
    BY <1>1
  <2>2. CASE criteria = {}
    <3>1. AddressesOf(c) = {}
      BY <2>2, CriteriaOfAddress DEF criteria, CriteriaSetForInput, AddressesOf
    <3>2. c.address = {} /\ c.topics = <<>>
      BY <1>5, <3>1 DEF AddressesOf, Plain
    <3>3. DOMAIN c.topics = {}
      BY <3>2
    <3> QED
      BY <2>1, <3>2, <3>3 DEF Matches
  <2>3. CASE criteria # {}
    BY <1>2, <1>5, <2>1, <2>3, MeetingMatches DEF criteria
  <2> QED
    BY <2>2, <2>3
<1> HIDE DEF found, met
<1>6. Len(found) < MaxLimit /\ InPosition(c) =>
        {log \in inRange : Matches(log, c)} \subseteq ToSet(found)
  BY <1>3, <1>4
<1>7. Plain(c) => ToSet(found) \subseteq {log \in inRange : Matches(log, c)}
  BY <1>3, <1>5
<1>8. {log \in inRange : Matches(log, c)} =
        {log \in UNION {ToSet(LogsOf(b)) : b \in trunk} :
           Height[log.block] \in from .. to /\ Matches(log, c)}
  OBVIOUS
<1> QED
  BY <1>6, <1>7, <1>8 DEF found, logs, criteria

\* An end of the range that is not given or hexadecimal is taken for itself.
LEMMA HexadecimalEnd ==
  ASSUME NEW end, end # Null => "hex" \in DOMAIN end,
         end = Null \/ end.hex \in Nat, Height[block] \in Nat, Null \notin Nat
  PROVE  TakenFor(RangeEnd(end)) = {IF end = Null THEN Height[block] ELSE end.hex}
<1>1. end # Null => ParseInt(end) = end.hex
  BY DEF ParseInt
<1> QED
  BY <1>1 DEF TakenFor, RangeEnd

\* A step of the method that finds logs.
LEMMA LogsFound ==
  ASSUME LogsInv, trunk \in Branches, NEW c \in Calls, c.method = "eth_getLogs",
         front # "none", payloads[current] = c, EthGetLogs(c),
         front' = front, payloads' = payloads, current' = current
  PROVE  LogsInv'
<1>1. CASE step = "begin" /\ Ask("best")
  BY <1>1 DEF Ask, LogsInv, Returned
<1>2. CASE step = "best" /\ Keep(Best, "logs")
  <2>1. Best \in BlockIds
    BY BestBlock
  <2> QED
    BY <1>2, <2>1 DEF Keep, LogsInv, Returned
<1>3. ASSUME NEW from, NEW to, from \in TakenFor(RangeEnd(c.from)), to \in TakenFor(RangeEnd(c.to)),
             step = "logs",
             Return([logs  |-> NodeLogs(LogsBetween(from, to),
                                        CriteriaSetForInput(c.address, c.topics)),
                     trunk |-> trunk, best |-> block])
      PROVE  LogsInv'
  <2> DEFINE found == NodeLogs(LogsBetween(from, to), CriteriaSetForInput(c.address, c.topics))
             r == [logs |-> found, trunk |-> trunk, best |-> block]
  <2>1. step' = "returned" /\ result' = r
    BY <1>3 DEF Return
  <2>2. block \in BlockIds /\ Height[block] \in Nat
    BY <1>3, ReceiptAssumption DEF LogsInv
  <2>3. r.logs = found /\ r.trunk = trunk /\ r.best = block
    OBVIOUS
  <2> HIDE DEF r
  <2>4. ASSUME Hexadecimal(c) PROVE Filtered(r, c)
    <3>1. /\ from \in Nat /\ from = IF c.from = Null THEN Height[block] ELSE c.from.hex
          /\ to \in Nat /\ to = IF c.to = Null THEN Height[block] ELSE c.to.hex
      BY <1>3, <2>2, <2>4, HexadecimalEnd, LogsCall DEF Hexadecimal
    <3> DEFINE matching == {log \in UNION {ToSet(LogsOf(b)) : b \in trunk} :
                              Height[log.block] \in from .. to /\ Matches(log, c)}
    <3>2. /\ Len(found) < MaxLimit /\ InPosition(c) => matching \subseteq ToSet(found)
          /\ Plain(c) => ToSet(found) \subseteq matching
      BY <3>1, FoundAsFiltered
    <3> HIDE DEF found
    <3> QED
      BY <2>3, <3>1, <3>2 DEF Filtered
  <2> HIDE DEF found
  <2> QED
    BY <2>1, <2>4 DEF LogsInv
<1>4. CASE step = "logs" /\ Throw
  BY <1>4 DEF Throw, LogsInv, Returned
<1> QED
  BY <1>1, <1>2, <1>3, <1>4, StepsOfLogs

\* No other method is that one.
LEMMA OnlyEthGetLogs ==
  ASSUME NEW c, c.method = "eth_getLogs", Method(c), step # "receipts"
  PROVE  EthGetLogs(c)
BY DEF Method, EthGetBalance, EthGetCode, EthGetStorageAt, EthCall, EthEstimateGas,
       EthGasPrice, EthBlockNumber, EthChainId, NetVersion, EthGetBlockByNumber,
       EthGetBlockByHash, EthGetTransactionByHash, EthSyncing, EvmMine, EthGetReceipts,
       ReceiptsEnd, DebugTraceTransaction, DebugTraceCall, EthAccounts, Web3ClientVersion,
       EthGetTransactionCount, EthRequestAccounts, NotImplemented, NotImplementedMethods,
       EngineMethods, MethodNotFound

\* Every step keeps what is known of a filter.
LEMMA LogsKept ==
  ProviderInv /\ LogsInv /\ [ProviderNext]_allVars => LogsInv'
<1> SUFFICES ASSUME ProviderInv, LogsInv, [ProviderNext]_allVars PROVE LogsInv'
  OBVIOUS
<1>1. trunk \in Branches /\ (front # "none" => payloads[current] \in Calls)
  BY DEF ProviderInv, ReceiptsInv, ReceiptsType, SessionType
<1>2. ASSUME NEW kind, NEW calls, Start(kind, calls) PROVE LogsInv'
  BY <1>2 DEF Start, LogsInv, Returned
<1>3. CASE MethodStep
  <2>1. /\ front # "none" /\ Method(payloads[current])
        /\ front' = front /\ payloads' = payloads /\ current' = current
    BY <1>3 DEF MethodStep
  <2> PICK c \in Calls : c = payloads[current]
    BY <1>1, <2>1
  <2>2. CASE c.method = "eth_getLogs"
    <3>1. EthGetLogs(c)
      BY <2>1, <2>2, OnlyEthGetLogs DEF LogsInv
    <3> QED
      BY <1>1, <2>1, <2>2, <3>1, LogsFound
  <2>3. CASE c.method # "eth_getLogs"
    BY <2>1, <2>3 DEF LogsInv
  <2> QED
    BY <2>2, <2>3
<1>4. CASE ReceiptsStep
  BY <1>4, LogsStay DEF ReceiptsStep, ownVars
<1>5. CASE RequestFails
  BY <1>5, LogsStay DEF RequestFails
<1>6. CASE Answer \/ HandleRequest \/ Callback
  BY <1>6, LogsStay DEF Answer, HandleRequest, Callback
<1>7. CASE NextOfBatch
  BY <1>7 DEF NextOfBatch, LogsInv, Returned
<1>8. CASE (Reorg /\ UNCHANGED ownVars) \/ UNCHANGED allVars
  BY <1>8, LogsStay DEF ownVars, allVars
<1>9. ASSUME NEW d, Request(d) PROVE LogsInv'
  BY <1>2, <1>9 DEF Request
<1>10. ASSUME NEW calls, SendOne(calls) \/ SendBatch(calls) PROVE LogsInv'
  BY <1>2, <1>10 DEF SendOne, SendBatch
<1> QED
  BY <1>3, <1>4, <1>5, <1>6, <1>7, <1>8, <1>9, <1>10 DEF ProviderNext, ProviderStep

-----------------------------------------------------------------------------
(***************************************************************************)
(* Theorems of ProviderSpec.                                               *)
(***************************************************************************)
\* The invariant holds of every behaviour of the provider.
THEOREM ProviderInvariant ==
  ProviderSpec => []ProviderInv
BY ProviderStart, ProviderKeeps, PTL DEF ProviderSpec

\* Two receipts of one block share neither an index nor a log index, whatever the
\* trunk did between the requests that they were made of.
THEOREM LogsNumberedApart ==
  ProviderSpec => []LogIndicesDisjoint
<1>1. ProviderInv => LogIndicesDisjoint
  BY CollectedApart DEF ProviderInv
<1> QED
  BY <1>1, ProviderInvariant, PTL

\* On a trunk that has not changed, eth_getBlockReceipts finds the receipts of its
\* block, in order, with all its logs numbered from 0 without a gap.
THEOREM BlocksReceiptsWhole ==
  ProviderSpec => []ReceiptsOfBlock
<1>1. ProviderInv => ReceiptsOfBlock
  BY CollectedWhole DEF ProviderInv
<1> QED
  BY <1>1, ProviderInvariant, PTL

\* Where a method says that a transaction is, it is, whatever the trunk did between
\* the requests that found it.
THEOREM TransactionsPlaced ==
  ProviderSpec => []PlaceOfTransaction
<1>1. ProviderInv => PlaceOfTransaction
  BY DEF ProviderInv
<1> QED
  BY <1>1, ProviderInvariant, PTL

\* Every call of a front end is answered once and in order, whatever became of the
\* others; only a callback that threw is called again.
THEOREM CallsAnswered ==
  ProviderSpec => []AnsweredOnce
<1>1. ProviderInv => AnsweredOnce
  BY DEF ProviderInv, AnswersInv
<1> QED
  BY <1>1, ProviderInvariant, PTL

\* eth_getLogs finds every log that its filter asks for, on the trunk that it read,
\* unless there are more than the limit or a nested array comes between plain
\* topics; without nested topics, or with a single one, and without an empty array
\* of addresses beside them, it finds no others.  The ends of the range are left
\* out or hexadecimal.
THEOREM LogsFoundAsFiltered ==
  ProviderSpec => []LogsAsFiltered
<1>1. ProviderInit => ProviderInv /\ LogsInv
  BY ProviderStart, LogsStart
<1>2. (ProviderInv /\ LogsInv) /\ [ProviderNext]_allVars => (ProviderInv /\ LogsInv)'
  BY ProviderKeeps, LogsKept
<1>3. LogsInv => LogsAsFiltered
  BY DEF LogsInv, LogsAsFiltered, Filtered
<1> QED
  BY <1>1, <1>2, <1>3, PTL DEF ProviderSpec
=============================================================================
