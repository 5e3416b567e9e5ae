----------------------------- MODULE PartsProofs -----------------------------
(***************************************************************************)
(* Theorems of the parts of the SDK that work without a node's chain, or   *)
(* with one answer of it at a time: waits, bloom filters, keystores and    *)
(* certificates, signers, the values of the data model, amounts in units.  *)
(* Each part has its own specification, and shares nothing with the others *)
(* but the keys that sign.                                                 *)
(***************************************************************************)
EXTENDS Waits, Bloom, Wallets, Vcdm, Units, TLAPS, FiniteSetTheorems, WellFoundedInduction

\* A set of numbers has a least one.
LEMMA LeastNumber ==
  ASSUME NEW T \in SUBSET Nat, T # {}
  PROVE  \E n \in T : \A m \in T : n <= m
<1>1. IsWellFoundedOn(OpToRel(<, Nat), Nat)
  BY NatLessThanWellFounded
<1>2. PICK n \in T : \A m \in T : ~ (<<m, n>> \in OpToRel(<, Nat))
  BY <1>1, WFMin
<1>3. \A m \in T : ~ (m < n)
  BY <1>2 DEF OpToRel
<1> QED
  BY <1>3

-----------------------------------------------------------------------------
(***************************************************************************)
(* Waits, for every interval, limit, chain and number of calls that share  *)
(* a SyncPoll object; and, for a wait that is alone, that its result is    *)
(* fresh.                                                                  *)
(***************************************************************************)
\* A saturating counter stays between zero and its limit, never goes back and
\* does not leave the limit once there.
LEMMA IncrementProperties ==
  ASSUME NEW limit \in (Nat \ {0}) \union {NoLimit}, NEW n \in UpTo(limit)
  PROVE  /\ Increment(n, limit) \in UpTo(limit)
         /\ Reached(n, limit) => Reached(Increment(n, limit), limit)
BY SyncPollAssumption DEF UpTo, Increment, Reached

\* The node answers with data of the type that the kind of wait calls for.
LEMMA PolledType == ASSUME NEW n \in Blocks PROVE Polled(n) \in Results
<1>1. CASE kind = "receipt"
  BY <1>1 DEF Polled, Results
<1>2. CASE kind # "receipt"
  <2>1. FormFetched(kind = "expanded") \in {"compressed", "expanded"}
    BY DEF FormFetched
  <2> QED
    BY <1>2, <2>1 DEF Polled, Results
<1> QED
  BY <1>1, <1>2

-----------------------------------------------------------------------------
\* Every step keeps the types.
LEMMA TypeStep == TypeOK /\ [Next]_vars => TypeOK'
<1> SUFFICES ASSUME TypeOK, [Next]_vars PROVE TypeOK'
  OBVIOUS
<1> USE SyncPollAssumption, WaitAssumption DEF TypeOK, SyncTypeOK, Stages, limits
<1>1. ASSUME NEW c \in Calls, Wait(c) PROVE TypeOK'
  BY <1>1 DEF Wait, WaitUntil
<1>2. ASSUME NEW c \in Calls, Answer(c) PROVE TypeOK'
  BY <1>2, PolledType DEF Answer, syncVars
<1>3. ASSUME NEW c \in Calls, Lose(c) PROVE TypeOK'
  BY <1>3 DEF Lose, syncVars
<1>4. ASSUME NEW c \in Calls, Receive(c) PROVE TypeOK'
  <2>1. CASE reply[c] = Failed
    BY <1>4, <2>1 DEF Receive, FetchFails
  <2>2. CASE reply[c] # Failed
    BY <1>4, <2>2 DEF Receive, Fetched
  <2> QED
    BY <2>1, <2>2
<1>5. ASSUME NEW c \in Calls, Wake(c) PROVE TypeOK'
  <2>1. currentIteration' \in UpTo(iterationLimit)
    BY <1>5, IncrementProperties DEF Wake, Check
  <2>2. stage' \in [Calls -> Stages] /\ result' \in [Calls -> Results \union {NoResult}]
    BY <1>5 DEF Wake, Check, Finish
  <2> QED
    BY <1>5, <2>1, <2>2 DEF Wake, Check, waitVars
<1>6. ASSUME NewBlock PROVE TypeOK'
  <2>1. best' \in Blocks
    BY <1>6 DEF NewBlock, Blocks
  <2> QED
    BY <1>6, <2>1 DEF NewBlock, syncVars
<1>7. ASSUME Time PROVE TypeOK'
  <2>1. elapsed' \in UpTo(timeLimit)
    BY <1>7, IncrementProperties DEF Time, PassTime
  <2>2. left' \in [Calls -> 0 .. Interval]
    BY <1>7 DEF Time, PassTime
  <2> QED
    BY <1>7, <2>1, <2>2 DEF Time, PassTime, waitVars
<1>8. ASSUME UNCHANGED vars PROVE TypeOK'
  BY <1>8 DEF vars, syncVars, waitVars
<1> QED
  BY <1>1, <1>2, <1>3, <1>4, <1>5, <1>6, <1>7, <1>8 DEF Next

\* Type correctness: a failed request never becomes a result.
THEOREM TypeCorrect == Spec => []TypeOK
<1>1. Init => TypeOK
  <2> SUFFICES ASSUME Init PROVE TypeOK
    OBVIOUS
  <2>1. SyncTypeOK(Results)
    BY SyncPollAssumption DEF Init, SyncInit, SyncTypeOK, Stages, UpTo
  <2>2. /\ best \in Blocks /\ failures \in 0 .. MaxFailures
        /\ since \in [Calls -> Blocks]
    BY WaitAssumption DEF Init, Blocks
  <2> QED
    BY <2>1, <2>2 DEF Init, TypeOK
<1> QED
  BY <1>1, TypeStep, PTL DEF Spec

-----------------------------------------------------------------------------
\* A limit that was reached stays reached.
LEMMA LimitsStay ==
  ASSUME TypeOK, [Next]_vars, IsMaximumReached(currentIteration)
  PROVE  IsMaximumReached(currentIteration)'
<1> USE SyncPollAssumption DEF TypeOK, SyncTypeOK, IsMaximumReached, limits
<1>1. ASSUME NEW c \in Calls, Wake(c) PROVE IsMaximumReached(currentIteration)'
  BY <1>1, IncrementProperties DEF Wake, Check
<1>2. ASSUME Time PROVE IsMaximumReached(currentIteration)'
  BY <1>2, IncrementProperties DEF Time, PassTime
<1>3. ASSUME UNCHANGED <<limits, currentIteration, elapsed>>
      PROVE  IsMaximumReached(currentIteration)'
  BY <1>3 DEF Reached
<1>4. ASSUME NEW c \in Calls, Wait(c) \/ Answer(c) \/ Lose(c) \/ Receive(c)
      PROVE  UNCHANGED <<limits, currentIteration, elapsed>>
  BY <1>4 DEF Wait, WaitUntil, Answer, Lose, Receive, Fetched, FetchFails, syncVars
<1>5. ASSUME NewBlock \/ UNCHANGED vars PROVE UNCHANGED <<limits, currentIteration, elapsed>>
  BY <1>5 DEF NewBlock, vars, syncVars
<1> QED
  BY <1>1, <1>2, <1>3, <1>4, <1>5 DEF Next

\* What the object waits for is fixed.
LEMMA KindStays == [Next]_vars => kind' = kind
BY DEF Next, Wait, Answer, Lose, Receive, Wake, NewBlock, Time, waitVars, vars

\* The property is inductive: a call ends when its condition holds of the very
\* result it returns, with no await between the two, or at a limit.
LEMMA CutShortStep == TypeOK /\ OnlyLimitsCutShort /\ [Next]_vars => OnlyLimitsCutShort'
<1> SUFFICES ASSUME TypeOK, OnlyLimitsCutShort, [Next]_vars, NEW d \in Calls, Returned(d)'
             PROVE  Satisfied(d, result'[d]) \/ IsMaximumReached(currentIteration)'
  BY KindStays DEF OnlyLimitsCutShort, Satisfied
<1>1. ASSUME Returned(d), result'[d] = result[d]
      PROVE  Satisfied(d, result'[d]) \/ IsMaximumReached(currentIteration)'
  BY <1>1, LimitsStay DEF OnlyLimitsCutShort
<1>2. ASSUME NEW c \in Calls, Wake(c)
      PROVE  Satisfied(d, result'[d]) \/ IsMaximumReached(currentIteration)'
  <2>1. CASE stage'[c] = "returned" /\ c = d
    <3>1. /\ result'[d] = currentResult
          /\ Satisfied(d, currentResult) \/ IsMaximumReached(currentIteration')
      BY <1>2, <2>1 DEF Wake, Check, Finish, TypeOK, SyncTypeOK
    <3>2. UNCHANGED <<iterationLimit, timeLimit, elapsed>>
      BY <1>2 DEF Wake, Check, limits
    <3> QED
      BY <3>1, <3>2 DEF IsMaximumReached, Reached
  <2>2. CASE c # d
    BY <1>2, <1>1, <2>2 DEF Wake, Check, Finish, TypeOK, SyncTypeOK, Returned
  <2> QED
    BY <2>1, <2>2 DEF Returned
<1>3. ASSUME NEW c \in Calls, Wait(c) \/ Answer(c) \/ Lose(c) \/ Receive(c)
      PROVE  Returned(d) /\ result'[d] = result[d]
  BY <1>3 DEF Wait, WaitUntil, Answer, Lose, Receive, Fetched, FetchFails, syncVars,
              TypeOK, SyncTypeOK, Returned
<1>4. ASSUME NewBlock \/ Time \/ UNCHANGED vars
      PROVE  Returned(d) /\ result'[d] = result[d]
  BY <1>4 DEF NewBlock, Time, PassTime, vars, syncVars, Returned
<1> QED
  BY <1>1, <1>2, <1>3, <1>4 DEF Next

\* However many calls share the object, none returns data that misses its
\* condition unless a limit of the object was reached.
THEOREM CutShortByLimits == Spec => []OnlyLimitsCutShort
<1>1. Init => OnlyLimitsCutShort
  BY DEF Init, SyncInit, OnlyLimitsCutShort, Returned
<1> QED
  BY <1>1, CutShortStep, TypeCorrect, PTL DEF Spec

-----------------------------------------------------------------------------
\* What makes the result of a block wait fresh: the answer of its request, and
\* the object's result while it sleeps if no other call can have replaced it, are
\* not older than the block that was best when it began.
FreshOnItsWay ==
  kind # "receipt" =>
    \A c \in Calls :
      /\ since[c] <= best
      /\ stage[c] # "fetching" => reply[c] = NoReply
      /\ reply[c] \notin {NoReply, Failed} => reply[c].number >= since[c]
      /\ Alone(c) /\ stage[c] = "sleeping" => currentResult.number >= since[c]
      /\ Alone(c) /\ stage[c] = "returned" => result[c].number >= since[c]

\* A call that is alone was alone before the step, and no other call made it.
LEMMA AloneStep ==
  ASSUME TypeOK, NEW c \in Calls, NEW d \in Calls,
         Wait(c) \/ Answer(c) \/ Lose(c) \/ Receive(c) \/ Wake(c), Alone(d)'
  PROVE  Alone(d) /\ c = d
<1>1. ASSUME Answer(c) \/ Lose(c) PROVE stage' = stage /\ stage[c] # "new"
  BY <1>1 DEF Answer, Lose, syncVars
<1>2. ASSUME Wait(c) \/ Receive(c) \/ Wake(c)
      PROVE  stage'[c] # "new" /\ \A b \in Calls : b # c => stage'[b] = stage[b]
  BY <1>2 DEF TypeOK, SyncTypeOK, Wait, WaitUntil, Receive, Fetched, FetchFails,
              Wake, Check, Finish
<1> QED
  BY <1>1, <1>2 DEF Alone

\* Every step keeps it.
LEMMA FreshStep == TypeOK /\ FreshOnItsWay /\ [Next]_vars => FreshOnItsWay'
<1> SUFFICES ASSUME TypeOK, FreshOnItsWay, [Next]_vars, kind # "receipt", kind' = kind
             PROVE  FreshOnItsWay'
  BY KindStays DEF FreshOnItsWay
<1> USE WaitAssumption DEF TypeOK, SyncTypeOK, FreshOnItsWay, Blocks, limits
<1>1. ASSUME NEW c \in Calls, Wait(c) PROVE FreshOnItsWay'
  <2>1. \A d \in Calls : Alone(d)' => stage'[d] = "fetching"
    BY <1>1, AloneStep DEF Wait, WaitUntil
  <2> QED
    BY <1>1, <2>1 DEF Wait, WaitUntil
<1>2. ASSUME NEW c \in Calls, Answer(c) PROVE FreshOnItsWay'
  <2>1. Polled(best).number = best
    BY DEF Polled
  <2> QED
    BY <1>2, <2>1 DEF Answer, syncVars, Alone
<1>3. ASSUME NEW c \in Calls, Lose(c) PROVE FreshOnItsWay'
  BY <1>3 DEF Lose, syncVars, Alone
<1>4. ASSUME NEW c \in Calls, Receive(c) PROVE FreshOnItsWay'
  <2>1. CASE reply[c] = Failed
    BY <1>4, <2>1, AloneStep DEF Receive, FetchFails
  <2>2. CASE reply[c] # Failed
    BY <1>4, <2>2, AloneStep DEF Receive, Fetched
  <2> QED
    BY <2>1, <2>2
<1>5. ASSUME NEW c \in Calls, Wake(c) PROVE FreshOnItsWay'
  BY <1>5, AloneStep DEF Wake, Check, Finish, waitVars
<1>6. ASSUME NewBlock PROVE FreshOnItsWay'
  BY <1>6 DEF NewBlock, syncVars, Alone
<1>7. ASSUME Time PROVE FreshOnItsWay'
  BY <1>7 DEF Time, PassTime, waitVars, Alone
<1>8. ASSUME UNCHANGED vars PROVE FreshOnItsWay'
  BY <1>8 DEF vars, syncVars, waitVars, Alone
<1> QED
  BY <1>1, <1>2, <1>3, <1>4, <1>5, <1>6, <1>7, <1>8 DEF Next

\* A block wait that is alone on its SyncPoll, as the two of BlocksModule are,
\* returns nothing the node said before the wait began.
THEOREM LoneWaitIsFresh == Spec => []FreshResult
<1>1. Init => FreshOnItsWay
  <2> SUFFICES ASSUME Init, NEW c \in Calls
               PROVE  /\ since[c] <= best /\ reply[c] = NoReply
                      /\ stage[c] = "new"
    BY DEF FreshOnItsWay
  <2> QED
    BY DEF Init, SyncInit
<1>2. TypeOK /\ FreshOnItsWay /\ [Next]_vars => FreshOnItsWay'
  BY FreshStep
<1>3. FreshOnItsWay => FreshResult
  BY DEF FreshOnItsWay, FreshResult, Returned
<1> QED
  BY <1>1, <1>2, <1>3, TypeCorrect, PTL DEF Spec

-----------------------------------------------------------------------------
(***************************************************************************)
(* Bloom filters, for every word, number of bits and of hash functions.    *)
(* The bits of a key in a filter are all that a filter is asked for, so a  *)
(* sound filter is one that has those of every key that it was made of.    *)
(***************************************************************************)
\* A bit of a filter.
LEMMA BitsOfKey ==
  ASSUME NEW hash \in 0 .. 2 ^ WordBits - 1, NEW k \in Nat, NEW nBits \in Nat \ {0}
  PROVE  Distribute(hash, k, nBits) \subseteq 0 .. nBits - 1
<1> DEFINE word == 2 ^ WordBits
<1>1. word \in Nat \ {0} /\ 2 ^ Rotation \in Nat \ {0} /\ WordBits - Rotation \in Nat
  BY BloomAssumption, PowerAssumption
<1>2. 2 ^ (WordBits - Rotation) \in Int
  BY <1>1
<1>3. Delta(hash) \in Int
  <2>1. hash \div 2 ^ Rotation \in Int
    BY <1>1
  <2>2. hash * 2 ^ (WordBits - Rotation) \in Int
    BY <1>1, <1>2
  <2>3. (hash * 2 ^ (WordBits - Rotation)) % word \in Int
    BY <1>1, <2>2
  <2> QED
    BY <2>1, <2>3 DEF Delta
<1>4. ASSUME NEW i \in 0 .. k - 1
      PROVE  AddWithUInt32Wrap(hash, i * Delta(hash)) % nBits \in 0 .. nBits - 1
  <2>1. i * Delta(hash) \in Int
    BY <1>3
  <2>2. hash + i * Delta(hash) \in Int
    BY <1>1, <2>1
  <2>3. AddWithUInt32Wrap(hash, i * Delta(hash)) \in Int
    BY <1>1, <2>2 DEF AddWithUInt32Wrap
  <2> QED
    BY <2>3
<1> QED
  BY <1>4 DEF Distribute

\* With fewer hash functions a key has fewer bits.
LEMMA FewerBits ==
  ASSUME NEW hash, NEW nBits, NEW k \in Nat, NEW l \in 0 .. k
  PROVE  Distribute(hash, l, nBits) \subseteq Distribute(hash, k, nBits)
<1>1. 0 .. l - 1 \subseteq 0 .. k - 1
  OBVIOUS
<1> QED
  BY <1>1 DEF Distribute

\* Sound: a filter has the bits of every key that it was made of, and only bits that
\* are there.
SoundFilter(f) ==
  /\ f.filter.bytes \in Nat /\ f.filter.bytes >= 8
  /\ f.filter.k \in Nat
  /\ f.filter.bits \subseteq 0 .. 8 * f.filter.bytes - 1
  /\ f.of \subseteq BloomKeys
  /\ \A key \in f.of :
       Distribute(HashOf[key], f.filter.k, 8 * f.filter.bytes) \subseteq f.filter.bits

BloomInv ==
  /\ added \subseteq BloomKeys
  /\ hashes = {HashOf[key] : key \in added}
  /\ \A f \in filters : SoundFilter(f)

\* A filter has 8 bytes or more, of no key too.
LEMMA SizeOfFilter ==
  ASSUME NEW size \in Nat, NEW bitsPerKey \in Nat
  PROVE  BytesFor(size, bitsPerKey) \in Nat /\ BytesFor(size, bitsPerKey) >= 8
<1>1. size * bitsPerKey + 7 \in Nat
  OBVIOUS
<1>2. (size * bitsPerKey + 7) \div 8 \in Nat
  BY <1>1
<1> QED
  BY <1>2 DEF BytesFor

\* What generate makes of the hashes of keys is sound.
LEMMA FilterIsSound ==
  ASSUME NEW keys \in SUBSET BloomKeys, NEW bitsPerKey \in Nat, NEW k \in Nat
  PROVE  SoundFilter([filter |-> Filter({HashOf[key] : key \in keys}, bitsPerKey, k),
                      of |-> keys])
<1> DEFINE hs     == {HashOf[key] : key \in keys}
           nBytes == BytesFor(Cardinality(hs), bitsPerKey)
<1>1. \A key \in BloomKeys : HashOf[key] \in 0 .. 2 ^ WordBits - 1
  BY BloomAssumption
<1>2. IsFiniteSet(hs)
  <2>1. IsFiniteSet(0 .. 2 ^ WordBits - 1)
    BY PowerAssumption, FS_Interval
  <2>2. hs \subseteq 0 .. 2 ^ WordBits - 1
    BY <1>1
  <2> QED
    BY <2>1, <2>2, FS_Subset
<1>3. nBytes \in Nat /\ nBytes >= 8
  BY <1>2, FS_CardinalityType, SizeOfFilter
<1>4. \A h \in hs : h \in 0 .. 2 ^ WordBits - 1
  BY <1>1
<1>5. \A key \in keys : HashOf[key] \in hs
  OBVIOUS
<1> HIDE DEF nBytes, hs
<1>6. 8 * nBytes \in Nat \ {0}
  BY <1>3
<1>7. \A h \in hs : Distribute(h, k, 8 * nBytes) \subseteq 0 .. 8 * nBytes - 1
  BY <1>4, <1>6, BitsOfKey
<1> DEFINE bits == UNION {Distribute(h, k, 8 * nBytes) : h \in hs}
<1>8. bits \subseteq 0 .. 8 * nBytes - 1
  BY <1>7
<1>9. \A key \in keys : Distribute(HashOf[key], k, 8 * nBytes) \subseteq bits
  BY <1>5
<1>10. Filter(hs, bitsPerKey, k) = [bytes |-> nBytes, k |-> k, bits |-> bits]
  BY DEF Filter, nBytes
<1> HIDE DEF bits
<1>11. SoundFilter([filter |-> Filter(hs, bitsPerKey, k), of |-> keys])
  <2> DEFINE f == [filter |-> Filter(hs, bitsPerKey, k), of |-> keys]
  <2>1. /\ f.filter.bytes = nBytes /\ f.filter.k = k /\ f.filter.bits = bits
        /\ f.of = keys
    BY <1>10
  <2> HIDE DEF f
  <2>2. SoundFilter(f)
    BY <1>3, <1>8, <1>9, <2>1 DEF SoundFilter
  <2> QED
    BY <2>2 DEF f
<1> QED
  BY <1>11 DEF hs

\* So is what compose makes of two of one size.
LEMMA CompositionIsSound ==
  ASSUME NEW f, NEW g, SoundFilter(f), SoundFilter(g), IsComposableWith(f.filter, g.filter)
  PROVE  SoundFilter([filter |-> Compose(f.filter, g.filter), of |-> f.of \union g.of])
<1>1. 8 * f.filter.bytes - 1 \in Int
  BY DEF SoundFilter
<1>2. Compose(f.filter, g.filter).bits = f.filter.bits \union g.filter.bits
  BY DEF Compose, SoundFilter, IsComposableWith
<1> QED
  BY <1>2 DEF Compose, SoundFilter, IsComposableWith

\* What the two numbers give for one another are numbers of hash functions and of bits.
LEMMA KOfBits ==
  ASSUME NEW n \in Nat
  PROVE  CalculateK(n) \in Nat /\ CalculateBitsPerKey(n) \in Nat
BY DEF CalculateK, CalculateBitsPerKey

\* Generating, composing and filterOf make sound filters; the hashes of a generator are
\* those of the keys that its next filter is of.
LEMMA BloomKept == BloomInv /\ [BloomNext]_bloomVars => BloomInv'
<1> SUFFICES ASSUME BloomInv, [BloomNext]_bloomVars PROVE BloomInv'
  OBVIOUS
<1>1. ASSUME NEW key \in BloomKeys, Add(key) PROVE BloomInv'
  BY <1>1 DEF Add, BloomInv
<1>2. ASSUME NEW bitsPerKey \in Nat, NEW k \in Nat, Generate(bitsPerKey, k) PROVE BloomInv'
  <2>1. SoundFilter([filter |-> Filter(hashes, bitsPerKey, k), of |-> added])
    BY FilterIsSound DEF BloomInv
  <2> QED
    BY <1>2, <2>1 DEF Generate, Keeps, BloomInv
<1>3. ASSUME NEW bitsPerKey \in BitsPerKeys, GenerateFor(bitsPerKey) PROVE BloomInv'
  BY <1>2, <1>3, KOfBits, BloomAssumption DEF GenerateFor
<1>4. ASSUME NEW f \in filters, NEW g \in filters, Composes(f, g) PROVE BloomInv'
  <2>1. SoundFilter([filter |-> Compose(f.filter, g.filter), of |-> f.of \union g.of])
    BY <1>4, CompositionIsSound DEF BloomInv, Composes
  <2> QED
    BY <1>4, <2>1 DEF Composes, BloomInv
<1>5. ASSUME NEW data \in SUBSET BloomKeys, NEW k \in Ks, Filters(data, k) PROVE BloomInv'
  <2>1. k \in Nat /\ CalculateBitsPerKey(k) \in Nat
    BY BloomAssumption, KOfBits
  <2>2. SoundFilter([filter |-> FilterOf(data, k), of |-> data \intersect Addresses])
    BY <2>1, FilterIsSound DEF FilterOf
  <2> QED
    BY <1>5, <2>2 DEF Filters, Keeps, BloomInv
<1>6. CASE UNCHANGED bloomVars
  BY <1>6 DEF bloomVars, BloomInv
<1> QED
  BY <1>1, <1>2, <1>3, <1>4, <1>5, <1>6, BloomAssumption DEF BloomNext

\* A filter says yes of every key that it was made of or composed of, and its text does
\* for as many hash functions or fewer: after any generating and composing.
THEOREM KeysAreFound == BloomSpec => []NoFalseNegatives
<1>1. BloomInit => BloomInv
  BY DEF BloomInit, BloomInv
<1>2. BloomInv => NoFalseNegatives
  <2> SUFFICES ASSUME BloomInv, NEW f \in filters, NEW key \in f.of
               PROVE  /\ IsIn(f.filter, key)
                      /\ \A k \in (Ks \ {0}) \intersect 0 .. f.filter.k :
                           /\ IsInBloom(f.filter, k, key)
                           /\ key \in Addresses => IsAddressInBloom(f.filter, k, key)
    BY DEF NoFalseNegatives
  <2>1. SoundFilter(f)
    BY DEF BloomInv
  <2>2. IsIn(f.filter, key)
    BY <2>1 DEF SoundFilter, IsIn
  <2>3. ASSUME NEW k \in (Ks \ {0}) \intersect 0 .. f.filter.k
        PROVE  IsInBloom(f.filter, k, key)
    <3>1. Distribute(HashOf[key], k, 8 * f.filter.bytes) \subseteq f.filter.bits
      BY <2>1, FewerBits DEF SoundFilter
    <3> QED
      BY <2>1, <3>1 DEF IsInBloom, IsBloom, IsIn, SoundFilter
  <2> QED
    BY <2>2, <2>3 DEF IsAddressInBloom
<1> QED
  BY <1>1, <1>2, BloomKept, PTL DEF BloomSpec

-----------------------------------------------------------------------------
(***************************************************************************)
(* Certificates.  A certificate on its way says whatever it was made to    *)
(* say, but its signature is that of a certificate which was signed.       *)
(***************************************************************************)
Accounts == [account : PrivateKeys, letters : {"checksum", "lower"}]

Issued(c) ==
  /\ c.signer \in Accounts
  /\ c.signature.hash = Encode(c)
  /\ c.signature.by \in PrivateKeys

CertificatesInv ==
  /\ \A c \in certificates : Issued(c)
  /\ \A r \in received :
       /\ r.signer \in Accounts
       /\ r.signature = NoSignature \/ \E c \in certificates : r.signature = c.signature

\* An address is that of the key, compressed or not.
LEMMA AddressOfPublicKey ==
  ASSUME NEW key, NEW isCompressed
  PROVE  OfPublicKey([of |-> key, compressed |-> isCompressed]) =
           [account |-> key, letters |-> "checksum"]
<1> DEFINE public == [of |-> key, compressed |-> isCompressed]
<1>1. InflatePublicKey(public).of = key
  BY DEF InflatePublicKey
<1> QED
  BY <1>1 DEF OfPublicKey, Address

\* The address of a private key.
LEMMA AddressOfKey ==
  ASSUME NEW key \in PrivateKeys
  PROVE  OfPrivateKey(key) = [account |-> key, letters |-> "checksum"]
<1>1. DerivePublicKey(key, TRUE) = [of |-> key, compressed |-> TRUE]
  BY DEF DerivePublicKey, IsValidPrivateKey
<1>2. DOMAIN DerivePublicKey(key, TRUE) = {"of", "compressed"} /\ DOMAIN NoKey = {"thrown"}
  BY <1>1 DEF NoKey
<1>3. DerivePublicKey(key, TRUE) # NoKey
  BY <1>2
<1>4. OfPublicKey(DerivePublicKey(key, TRUE)) = [account |-> key, letters |-> "checksum"]
  BY <1>1, AddressOfPublicKey
<1> QED
  BY <1>3, <1>4 DEF OfPrivateKey

\* A mnemonic derives a private key or none.
LEMMA AddressOfMnemonic ==
  ASSUME NEW words \in Mnemonics, NEW path \in Paths, OfMnemonic(words, path) # NoKey
  PROVE  OfMnemonic(words, path) \in Accounts
<1> DEFINE key == FromMnemonic(words, path)
<1>1. key # NoKey /\ OfMnemonic(words, path) = OfPublicKey(DerivePublicKey(key, TRUE))
  BY DEF OfMnemonic
<1>2. key \in PrivateKeys
  BY <1>1, KeysAssumption DEF FromMnemonic
<1> HIDE DEF key
<1>3. DerivePublicKey(key, TRUE) = [of |-> key, compressed |-> TRUE]
  BY <1>2 DEF DerivePublicKey, IsValidPrivateKey
<1>4. OfPublicKey(DerivePublicKey(key, TRUE)) = [account |-> key, letters |-> "checksum"]
  BY <1>3, AddressOfPublicKey
<1>5. [account |-> key, letters |-> "checksum"] \in Accounts
  BY <1>2 DEF Accounts
<1> QED
  BY <1>1, <1>4, <1>5

\* What is signed has a signature of its own content and signer.
LEMMA CertifyKeeps ==
  ASSUME CertificatesInv, NEW b \in Buffers, NEW content, NEW named \in Accounts,
         Certify(b, content, named)
  PROVE  CertificatesInv'
<1> DEFINE bare == [content |-> content, signer |-> named, signature |-> NoSignature]
           c    == [bare EXCEPT !.signature = Signature(Encode(bare), buffer[b])]
<1>1. certificates' = certificates \union {c} /\ received' = received
  BY DEF Certify
<1>2. buffer[b] \in PrivateKeys
  BY DEF Certify, IsValidPrivateKey
<1>3. /\ c.content = content /\ c.signer = named
      /\ c.signature = Signature(Encode(bare), buffer[b])
  OBVIOUS
<1>4. Encode(c) = Encode(bare)
  BY <1>3 DEF Encode
<1>5. c.signature.hash = Encode(bare) /\ c.signature.by = buffer[b]
  BY <1>3 DEF Signature
<1>6. Issued(c)
  BY <1>2, <1>3, <1>4, <1>5 DEF Issued
<1> HIDE DEF c
<1> QED
  BY <1>1, <1>6 DEF CertificatesInv

\* A certificate that is changed on its way still has a signature that was made, or none.
LEMMA AlterKeeps ==
  ASSUME CertificatesInv, NEW c \in certificates \union received, Alter(c)
  PROVE  CertificatesInv'
<1>1. /\ c.signer \in Accounts
      /\ c.signature = NoSignature \/ \E e \in certificates : c.signature = e.signature
  BY DEF CertificatesInv, Issued
<1>2. certificates' = certificates
  BY DEF Alter
<1>3. PICK d : /\ received' = {d}
               /\ d.signer = c.signer \/ \E k \in PrivateKeys : d.signer = Address(k, "lower")
               /\ d.signature = c.signature \/ d.signature = NoSignature
                    \/ \E e \in certificates : d.signature = e.signature
  BY DEF Alter
<1>4. d.signer \in Accounts
  <2>1. \A k \in PrivateKeys : Address(k, "lower") \in Accounts
    BY DEF Address, Accounts
  <2> QED
    BY <1>1, <1>3, <2>1
<1> QED
  BY <1>1, <1>2, <1>3, <1>4 DEF CertificatesInv

\* Only these two actions have to do with certificates.
LEMMA CertificatesKept == CertificatesInv /\ [KeysNext]_keysVars => CertificatesInv'
<1> SUFFICES ASSUME CertificatesInv, [KeysNext]_keysVars PROVE CertificatesInv'
  OBVIOUS
<1>1. ASSUME UNCHANGED <<certificates, received>> PROVE CertificatesInv'
  BY <1>1 DEF CertificatesInv
<1>2. CASE Obtains
  BY <1>1, <1>2 DEF Obtains, GeneratePrivateKey, ToPrivateKey, Others
<1>3. CASE KeystoresNext
  BY <1>1, <1>3 DEF KeystoresNext, UseExperimentalCryptography, EncryptEthers, Stores,
                    EncryptExperimental, Edit, Decrypt, NodeFromPrivateKey, Others
<1>4. CASE CertificatesNext
  <2>1. ASSUME NEW k \in PrivateKeys PROVE OfPrivateKey(k) \in Accounts
    BY AddressOfKey DEF Accounts
  <2> QED
    BY <1>4, <2>1, AddressOfMnemonic, CertifyKeeps, AlterKeeps DEF CertificatesNext
<1>5. CASE UNCHANGED keysVars
  BY <1>1, <1>5 DEF keysVars
<1> QED
  BY <1>2, <1>3, <1>4, <1>5 DEF KeysNext

\* What verify lets pass was signed: the same content, by the account of its signer.
\* A recovered key is no zeros, so the hash is that of what was signed; and a hash has
\* one content and one signer.
THEOREM VerifiedIsSigned == KeysSpec => []CertificatesAreSigned
<1>1. KeysInit => CertificatesInv
  BY DEF KeysInit, CertificatesInv
<1>2. CertificatesInv => CertificatesAreSigned
  <2> SUFFICES ASSUME CertificatesInv, NEW r \in received, Verifies(r)
               PROVE  \E c \in certificates :
                        /\ c.content = r.content
                        /\ c.signer.account = r.signer.account
                        /\ c.signature.by = r.signer.account
    BY DEF CertificatesAreSigned
  <2>1. PICK c \in certificates : r.signature = c.signature
    BY DEF CertificatesInv, Verifies
  <2>2. /\ c.signer \in Accounts /\ c.signature.hash = Encode(c)
        /\ r.signer \in Accounts
    BY DEF CertificatesInv, Issued
  <2> DEFINE key == IF r.signature.hash = Encode(r) THEN r.signature.by ELSE Zeros32
  <2>3. OfPublicKey(Recover(Encode(r), r.signature)) = [account |-> key, letters |-> "checksum"]
    BY AddressOfPublicKey DEF Recover
  <2>4. ToLowerCase(OfPublicKey(Recover(Encode(r), r.signature))) =
          [account |-> key, letters |-> "lower"]
    BY <2>3 DEF ToLowerCase
  <2>5. ToLowerCase(r.signer) = [account |-> r.signer.account, letters |-> "lower"]
    BY <2>2 DEF ToLowerCase, Accounts
  <2>6. key = r.signer.account
    <3> HIDE DEF key
    <3>1. [account |-> key, letters |-> "lower"] =
            [account |-> r.signer.account, letters |-> "lower"]
      BY <2>4, <2>5 DEF Verifies
    <3> QED
      BY <3>1
  <2>7. r.signature.hash = Encode(r) /\ r.signature.by = r.signer.account
    BY <2>2, <2>6, KeysAssumption DEF Accounts
  <2>8. c.content = r.content /\ ToLowerCase(c.signer) = ToLowerCase(r.signer)
    BY <2>1, <2>2, <2>7 DEF Encode
  <2>9. ToLowerCase(c.signer) = [account |-> c.signer.account, letters |-> "lower"]
    BY <2>2 DEF ToLowerCase, Accounts
  <2> QED
    BY <2>1, <2>5, <2>7, <2>8, <2>9
<1> QED
  BY <1>1, <1>2, CertificatesKept, PTL DEF KeysSpec

-----------------------------------------------------------------------------
(***************************************************************************)
(* Keystores.  Whatever is edited, the cipher and the mac of a keystore    *)
(* stay those that it was made with.                                       *)
(***************************************************************************)
Locked(key, password) == [key |-> key, derived |-> Derived(password, ScryptParams)]

LockedStores(key, password) ==
  [field : {"Crypto", "crypto"}, address : Accounts \union {NoAddress}, version : {3, 4},
   scrypt : [N : Int, r : Int, p : Int], cipher : {Locked(key, password)},
   mac : {Locked(key, password)}]

Stored(s) ==
  /\ s = [store |-> s.store, key |-> s.key, password |-> s.password]
  /\ s.key \in PrivateKeys
  /\ s.store \in LockedStores(s.key, s.password)

KeystoresInv ==
  /\ \A s \in stores : Stored(s)
  /\ KeystoreOpens

\* A new keystore is locked by its password, and has the address of its key.
LEMMA KeystoreIsLocked ==
  ASSUME NEW by \in {"ethers", "experimental"}, NEW key \in PrivateKeys, NEW password
  PROVE  Keystore(by, key, password) \in LockedStores(key, password)
<1>1. OfPrivateKey(key) \in Accounts
  BY AddressOfKey DEF Accounts
<1>2. ScryptParams \in [N : Int, r : Int, p : Int]
  BY DEF ScryptParams
<1>3. Keystore(by, key, password) =
        [field |-> IF by = "ethers" THEN "Crypto" ELSE "crypto",
         address |-> OfPrivateKey(key), version |-> 3, scrypt |-> ScryptParams,
         cipher |-> Locked(key, password), mac |-> Locked(key, password)]
  BY DEF Keystore, Locked
<1> QED
  BY <1>1, <1>2, <1>3 DEF LockedStores

\* No edit of address, version or parameters unlocks a keystore.
LEMMA EditIsLocked ==
  ASSUME NEW key \in PrivateKeys, NEW password, NEW store \in LockedStores(key, password),
         NEW edited \in Edits(store)
  PROVE  edited \in LockedStores(key, password)
<1> USE DEF LockedStores
<1>1. CASE \/ edited = [store EXCEPT !.address = NoAddress]
           \/ edited = [store EXCEPT !.field = "crypto"]
           \/ edited = [store EXCEPT !.field = "Crypto"]
  BY <1>1
<1>2. CASE edited = [store EXCEPT !.version = 4]
  BY <1>2
<1>3. CASE edited = [store EXCEPT !.scrypt.N = 3] \/ edited = [store EXCEPT !.scrypt.p = 2]
  BY <1>3
<1>4. CASE store.address # NoAddress /\ edited = [store EXCEPT !.address.letters = "lower"]
  BY <1>4 DEF Accounts
<1>5. ASSUME NEW k \in PrivateKeys, edited = [store EXCEPT !.address = Address(k, "lower")]
      PROVE  edited \in LockedStores(key, password)
  <2>1. Address(k, "lower") \in Accounts
    BY DEF Address, Accounts
  <2> QED
    BY <1>5, <2>1
<1> QED
  BY <1>1, <1>2, <1>3, <1>4, <1>5 DEF Edits

\* Of a buffer that holds no key no keystore is made.
LEMMA StoresKeeps ==
  ASSUME KeystoresInv, NEW by \in {"ethers", "experimental"}, NEW b \in Buffers, NEW password,
         Stores(by, b, password)
  PROVE  KeystoresInv'
<1> DEFINE s == [store |-> Keystore(by, buffer[b], password), key |-> buffer[b],
                 password |-> password]
<1>1. (buffer[b] \in PrivateKeys /\ stores' = stores \union {s}) \/ stores' = stores
  BY DEF Stores, IsValidPrivateKey
<1>2. opened' = opened
  BY DEF Stores
<1>3. KeystoreOpens'
  BY <1>2 DEF KeystoresInv, KeystoreOpens
<1>4. CASE buffer[b] \in PrivateKeys /\ stores' = stores \union {s}
  <2>1. Keystore(by, buffer[b], password) \in LockedStores(buffer[b], password)
    BY <1>4, KeystoreIsLocked
  <2>2. Stored(s)
    BY <1>4, <2>1 DEF Stored
  <2> HIDE DEF s
  <2> QED
    BY <1>3, <1>4, <2>2 DEF KeystoresInv
<1>5. CASE stores' = stores
  BY <1>3, <1>5 DEF KeystoresInv
<1> QED
  BY <1>1, <1>4, <1>5

\* A keystore that is edited is of the same key and password.
LEMMA EditKeeps ==
  ASSUME KeystoresInv, NEW s \in stores, NEW store \in Edits(s.store), Edit(s, store)
  PROVE  KeystoresInv'
<1>1. KeystoreOpens'
  BY DEF Edit, KeystoresInv, KeystoreOpens
<1>2. Stored(s)
  BY DEF KeystoresInv
<1>3. store \in LockedStores(s.key, s.password)
  BY <1>2, EditIsLocked DEF Stored
<1> DEFINE t == [s EXCEPT !.store = store]
<1>4. t = [store |-> store, key |-> s.key, password |-> s.password]
  BY <1>2 DEF Stored
<1>5. Stored(t)
  BY <1>2, <1>3, <1>4 DEF Stored
<1>6. stores' = (stores \ {s}) \union {t}
  BY DEF Edit
<1> HIDE DEF t
<1> QED
  BY <1>1, <1>5, <1>6 DEF KeystoresInv

\* Either implementation looks at the mac, at the cipher and at the address.
LEMMA DecryptKeeps ==
  ASSUME KeystoresInv, NEW s \in stores, NEW password, NEW key \in PrivateKeys,
         Decrypt(s, password, key)
  PROVE  KeystoresInv'
<1>1. /\ AuthenticatedBy(s.store, password)
      /\ key \in Deciphered(s.store, password)
      /\ NamesAddressOf(s.store, key)
  BY DEF Decrypt, OpensExperimental, OpensEthers, DecryptKeystoreJson
<1>2. Stored(s)
  BY DEF KeystoresInv
<1>3. /\ s.store.cipher = Locked(s.key, s.password)
      /\ s.store.mac = Locked(s.key, s.password)
      /\ s.store.address \in Accounts \union {NoAddress}
  BY <1>2 DEF Stored, LockedStores
<1>4. Derived(s.password, ScryptParams) = Derived(password, s.store.scrypt)
  BY <1>1, <1>3 DEF AuthenticatedBy, Locked
<1>5. password = s.password
  BY <1>4 DEF Derived
<1>6. key = s.key
  BY <1>1, <1>3, <1>4 DEF Deciphered, Locked
<1>7. s.store.address.account \in {key, Short}
  <2>1. CASE s.store.address = NoAddress
    BY <2>1 DEF NoAddress
  <2>2. CASE s.store.address \in Accounts /\ Checksum(s.store.address) = OfPrivateKey(key)
    <3>1. Checksum(s.store.address) =
            [account |-> s.store.address.account, letters |-> "checksum"]
      BY <2>2 DEF Checksum, Accounts
    <3>2. [account |-> s.store.address.account, letters |-> "checksum"] =
            [account |-> key, letters |-> "checksum"]
      BY <2>2, <3>1, AddressOfKey
    <3> QED
      BY <3>2
  <2> QED
    BY <1>1, <1>3, <2>1, <2>2 DEF NamesAddressOf
<1> DEFINE o == [of |-> s, given |-> password, key |-> key, address |-> OfPrivateKey(key)]
<1>8. opened' = {o} /\ stores' = stores
  BY DEF Decrypt
<1>9. /\ o.key = o.of.key /\ o.given = o.of.password
      /\ o.of.store.address.account \in {o.key, Short}
  BY <1>5, <1>6, <1>7
<1> HIDE DEF o
<1> QED
  BY <1>8, <1>9 DEF KeystoresInv, KeystoreOpens

\* Every step of a program keeps its keystores locked.
LEMMA KeystoresKept == KeystoresInv /\ [KeysNext]_keysVars => KeystoresInv'
<1> SUFFICES ASSUME KeystoresInv, [KeysNext]_keysVars PROVE KeystoresInv'
  OBVIOUS
<1>1. ASSUME UNCHANGED <<stores, opened>> PROVE KeystoresInv'
  BY <1>1 DEF KeystoresInv, KeystoreOpens
<1>2. CASE Obtains
  BY <1>1, <1>2 DEF Obtains, GeneratePrivateKey, ToPrivateKey, Others
<1>3. CASE KeystoresNext
  <2>1. ASSUME NEW on, UseExperimentalCryptography(on) PROVE KeystoresInv'
    BY <1>1, <2>1 DEF UseExperimentalCryptography, Others
  <2>2. ASSUME NEW b \in Buffers, NEW password \in Passwords,
               EncryptEthers(b, password) \/ EncryptExperimental(b, password)
        PROVE  KeystoresInv'
    BY <2>2, StoresKeeps DEF EncryptEthers, EncryptExperimental
  <2>3. ASSUME NEW b \in Buffers, NodeFromPrivateKey(b) PROVE KeystoresInv'
    BY <1>1, <2>3 DEF NodeFromPrivateKey, Others
  <2> QED
    BY <1>3, <2>1, <2>2, <2>3, EditKeeps, DecryptKeeps DEF KeystoresNext
<1>4. CASE CertificatesNext
  BY <1>1, <1>4 DEF CertificatesNext, Certify, Alter
<1>5. CASE UNCHANGED keysVars
  BY <1>1, <1>5 DEF keysVars
<1> QED
  BY <1>2, <1>3, <1>4, <1>5 DEF KeysNext

\* decrypt gives the key that was encrypted, to its password alone, and never under the
\* address of another: with either implementation, after any edits, whatever buffers hold.
THEOREM KeystoresOpen == KeysSpec => []KeystoreOpens
<1>1. KeysInit => KeystoresInv
  BY DEF KeysInit, KeystoresInv, KeystoreOpens
<1>2. KeystoresInv => KeystoreOpens
  BY DEF KeystoresInv
<1> QED
  BY <1>1, <1>2, KeystoresKept, PTL DEF KeysSpec

-----------------------------------------------------------------------------
(***************************************************************************)
(* Who signs.                                                              *)
(***************************************************************************)
\* The accounts of a provider are those of its configuration, in order.
AccountsOf(network, accounts) ==
  \E n \in Nat :
    /\ DOMAIN accounts = 1 .. n
    /\ \A i \in 1 .. n : accounts[i] = Account(KeyAt(network, i - 1))

\* A signer of a buffer of the program, or got of the provider for an account.
OwnSigner ==
  /\ signer = [buffer |-> signer.buffer, connected |-> signer.connected,
               for |-> [own |-> signer.buffer]]

GotSigner ==
  /\ signer = [key |-> signer.key, connected |-> signer.connected, for |-> signer.for]
  /\ provider # NoProvider
  /\ "text" \in DOMAIN signer.for => AddressText[signer.key] = signer.for.text
  /\ "index" \in DOMAIN signer.for => signer.key = KeyAt(provider.of, signer.for.index)

SignersInv ==
  /\ provider # NoProvider => AccountsOf(provider.of, provider.wallet.accounts)
  /\ signer = NoSigner \/ OwnSigner \/ GotSigner
  /\ SignedByTheAccount
  /\ sent # Unset /\ "signature" \in DOMAIN sent /\ "index" \in DOMAIN sent.for =>
       provider # NoProvider

\* A wallet made of a configuration, by the plugin or by the proxy.
LEMMA HDWalletOf ==
  ASSUME NEW network, NEW count \in Nat, NEW initialIndex \in Nat, NEW delegator,
         "keys" \notin DOMAIN network.accounts,
         initialIndex = IF network.host = "proxy" THEN 0 ELSE network.accounts.initialIndex
  PROVE  AccountsOf(network,
           HDWallet(network.accounts.words, count, initialIndex, delegator).accounts)
<1> DEFINE words    == network.accounts.words
           accounts == [i \in 1 .. count |-> Account(HdKeyOf[words, initialIndex + i - 1])]
<1>1. HDWallet(words, count, initialIndex, delegator).accounts = accounts
  BY DEF HDWallet, BaseWallet
<1>2. ASSUME NEW i \in 1 .. count PROVE accounts[i] = Account(KeyAt(network, i - 1))
  <2>1. KeyAt(network, i - 1) = HdKeyOf[words, i - 1 + initialIndex]
    BY DEF KeyAt
  <2>2. i - 1 + initialIndex = initialIndex + i - 1
    OBVIOUS
  <2> QED
    BY <2>1, <2>2
<1>3. DOMAIN accounts = 1 .. count
  OBVIOUS
<1> HIDE DEF accounts
<1> QED
  BY <1>1, <1>2, <1>3 DEF AccountsOf

\* A wallet of keys has them in order.
LEMMA WalletOfKeys ==
  ASSUME NEW network \in Networks, DOMAIN network.accounts \in {{"unset"}, {"remote"}, {"keys"}},
         CreateWallet(network) # NoWallet
  PROVE  AccountsOf(network, CreateWallet(network).accounts)
<1>1. CASE DOMAIN network.accounts = {"unset"}
  <2>1. CreateWallet(network).accounts = <<>>
    BY <1>1 DEF CreateWallet, BaseWallet
  <2> QED
    BY <2>1 DEF AccountsOf
<1>2. CASE DOMAIN network.accounts = {"remote"}
  BY <1>2 DEF CreateWallet
<1>3. CASE DOMAIN network.accounts = {"keys"}
  <2> DEFINE keys     == network.accounts.keys
             accounts == [i \in DOMAIN keys |-> Account(keys[i])]
  <2>1. CreateWallet(network).accounts = accounts
    BY <1>3 DEF CreateWallet, BaseWallet
  <2>2. \A i : KeyAt(network, i) = keys[i + 1]
    BY <1>3 DEF KeyAt
  <2>3. keys \in Seq(PrivateKeys \union {Short})
    BY <1>3, ConfigurationAssumption
  <2>4. DOMAIN accounts = DOMAIN keys /\ \A i \in DOMAIN keys : accounts[i] = Account(keys[i])
    OBVIOUS
  <2> HIDE DEF accounts, keys
  <2>5. \A i \in DOMAIN keys : accounts[i] = Account(KeyAt(network, i - 1))
    BY <2>2, <2>3, <2>4
  <2>6. PICK n \in Nat : DOMAIN keys = 1 .. n
    BY <2>3
  <2> QED
    BY <2>1, <2>4, <2>5, <2>6 DEF AccountsOf
<1> QED
  BY <1>1, <1>2, <1>3

\* What getAccountSync finds has the address, or the key of the index, that was asked for.
LEMMA SignerIsOfAccount ==
  ASSUME NEW network, NEW wallet, NEW which \in Whiches, AccountsOf(network, wallet.accounts),
         GetAccount(wallet, which) # NoAccount
  PROVE  LET key == GetAccount(wallet, which).privateKey
         IN  /\ "text" \in DOMAIN which => AddressText[key] = which.text
             /\ "index" \in DOMAIN which => key = KeyAt(network, which.index)
<1> DEFINE accounts == wallet.accounts
<1>1. PICK n \in Nat : /\ DOMAIN accounts = 1 .. n
                       /\ \A i \in 1 .. n : accounts[i] = Account(KeyAt(network, i - 1))
  BY DEF AccountsOf
<1>2. \A i \in 1 .. n : /\ accounts[i].privateKey = KeyAt(network, i - 1)
                       /\ accounts[i].address = AddressText[KeyAt(network, i - 1)]
  <2>1. ASSUME NEW key
        PROVE  Account(key).privateKey = key /\ Account(key).address = AddressText[key]
    BY DEF Account
  <2> QED
    BY <1>1, <2>1
<1>3. CASE "index" \in DOMAIN which
  <2>1. DOMAIN which = {"index"} /\ which.index \in Nat
    BY <1>3, ConfigurationAssumption
  <2>2. /\ which.index + 1 \in 1 .. n
        /\ GetAccount(wallet, which) = accounts[which.index + 1]
    BY <1>1, <1>3 DEF GetAccount
  <2>3. (which.index + 1) - 1 = which.index
    BY <2>1
  <2> QED
    BY <1>2, <2>1, <2>2, <2>3
<1>4. CASE "index" \notin DOMAIN which
  <2> DEFINE First(i) == /\ accounts[i].address = which.text
                         /\ \A j \in 1 .. i - 1 : accounts[j].address # which.text
             T == {i \in 1 .. n : accounts[i].address = which.text}
  <2>1. T # {} /\ GetAccount(wallet, which) = accounts[CHOOSE i \in 1 .. n : First(i)]
    BY <1>1, <1>4 DEF GetAccount
  <2>2. PICK m \in T : \A j \in T : m <= j
    <3>1. T \in SUBSET Nat
      OBVIOUS
    <3> HIDE DEF T
    <3> QED
      BY <2>1, <3>1, LeastNumber
  <2>3. \E i \in 1 .. n : First(i)
    BY <2>2
  <2> HIDE DEF First
  <2>4. PICK i \in 1 .. n : First(i) /\ GetAccount(wallet, which) = accounts[i]
    BY <2>1, <2>3
  <2>5. accounts[i].address = which.text
    BY <2>4 DEF First
  <2> QED
    BY <1>2, <1>4, <2>4, <2>5
<1> QED
  BY <1>3, <1>4

\* Once there is a provider, it stays.
LEMMA ProviderComes ==
  ASSUME SignersInv, NEW network \in Networks,
         ExtendEnvironment(network) \/ StartProxy(network)
  PROVE  SignersInv'
<1>1. provider = NoProvider /\ UNCHANGED <<signer, sent>>
  BY DEF ExtendEnvironment, StartProxy
<1>2. provider'.of = network /\ AccountsOf(network, provider'.wallet.accounts)
  <2>1. CASE DOMAIN network.accounts \in {{"unset"}, {"remote"}, {"keys"}}
    <3>1. provider'.of = network /\ provider'.wallet = CreateWallet(network)
            /\ CreateWallet(network) # NoWallet
      BY <2>1 DEF ExtendEnvironment, StartProxy, ProxyWallet
    <3> QED
      BY <2>1, <3>1, WalletOfKeys
  <2>2. CASE DOMAIN network.accounts = {"words", "count", "initialIndex"}
    <3> DEFINE a == network.accounts
    <3>1. a.count \in Nat /\ a.initialIndex \in Nat
      BY <2>2, ConfigurationAssumption
    <3>2. ASSUME ExtendEnvironment(network)
          PROVE  provider'.of = network /\ AccountsOf(network, provider'.wallet.accounts)
      <4>1. provider'.of = network /\ provider'.wallet = CreateWallet(network)
              /\ network.host = "hardhat"
        BY <3>2 DEF ExtendEnvironment
      <4>2. CreateWallet(network) = HDWallet(a.words, a.count, a.initialIndex,
                                             DelegatorOrUndefined(network.delegator))
        BY <2>2 DEF CreateWallet
      <4> QED
        BY <2>2, <3>1, <4>1, <4>2, HDWalletOf
    <3>3. ASSUME StartProxy(network)
          PROVE  provider'.of = network /\ AccountsOf(network, provider'.wallet.accounts)
      <4>1. provider'.of = network /\ provider'.wallet = ProxyWallet(network)
              /\ network.host = "proxy"
        BY <3>3 DEF StartProxy
      <4>2. ProxyWallet(network) = HDWallet(a.words, a.count, 0, network.delegator)
        BY <2>2 DEF ProxyWallet
      <4> QED
        BY <2>2, <3>1, <4>1, <4>2, HDWalletOf
    <3> QED
      BY <3>2, <3>3
  <2> QED
    BY <2>1, <2>2, ConfigurationAssumption
<1>3. signer = NoSigner \/ OwnSigner
  BY <1>1 DEF SignersInv, GotSigner
<1>4. (signer = NoSigner \/ OwnSigner)'
  BY <1>1, <1>3 DEF OwnSigner
<1>5. ~(sent # Unset /\ "signature" \in DOMAIN sent /\ "index" \in DOMAIN sent.for)
  BY <1>1 DEF SignersInv
<1>6. SignedByTheAccount'
  BY <1>1, <1>5 DEF SignersInv, SignedByTheAccount
<1> QED
  BY <1>1, <1>2, <1>4, <1>5, <1>6 DEF SignersInv

\* Another signer in use changes nothing of what was signed.
LEMMA SignerComes ==
  ASSUME SignersInv, UNCHANGED <<provider, sent>>, (signer = NoSigner \/ OwnSigner \/ GotSigner)'
  PROVE  SignersInv'
BY DEF SignersInv, SignedByTheAccount

\* getSigner gives a signer of the account that was asked for, or none.
LEMMA GetSignerKeeps ==
  ASSUME SignersInv, NEW which \in Whiches, GetSigner(which)
  PROVE  SignersInv'
<1> DEFINE account == GetAccount(provider.wallet, which)
<1>1. UNCHANGED <<provider, sent>> /\ provider # NoProvider
  BY DEF GetSigner
<1>2. CASE account = NoAccount
  <2>1. signer' = NoSigner
    BY <1>2 DEF GetSigner, SignerOf
  <2> QED
    BY <1>1, <2>1, SignerComes
<1>3. CASE account # NoAccount
  <2>1. signer' = [key |-> account.privateKey, connected |-> TRUE, for |-> which]
    BY <1>3 DEF GetSigner, SignerOf
  <2>2. /\ "text" \in DOMAIN which => AddressText[account.privateKey] = which.text
        /\ "index" \in DOMAIN which => account.privateKey = KeyAt(provider.of, which.index)
    BY <1>1, <1>3, SignerIsOfAccount DEF SignersInv
  <2> HIDE DEF account
  <2>3. GotSigner'
    BY <1>1, <2>1, <2>2 DEF GotSigner, KeyAt
  <2> QED
    BY <1>1, <2>3, SignerComes
<1> QED
  BY <1>2, <1>3

\* A signer of a buffer was got for no account.
LEMMA NewSignerKeeps ==
  ASSUME SignersInv, NEW b \in Buffers, NewSigner(b)
  PROVE  SignersInv'
<1>1. signer' = [buffer |-> b, connected |-> FALSE, for |-> [own |-> b]]
  BY DEF NewSigner
<1>2. OwnSigner'
  BY <1>1 DEF OwnSigner
<1> QED
  BY <1>2, SignerComes DEF NewSigner

\* connect makes a signer of the same key for the same account.
LEMMA ConnectKeeps ==
  ASSUME SignersInv, Connect
  PROVE  SignersInv'
<1>1. /\ signer # NoSigner /\ signer' = [signer EXCEPT !.connected = provider # NoProvider]
      /\ UNCHANGED <<provider, sent>>
  BY DEF Connect
<1> DEFINE connected == provider # NoProvider
<1>2. CASE OwnSigner
  <2>1. signer' = [buffer |-> signer.buffer, connected |-> connected,
                   for |-> [own |-> signer.buffer]]
    BY <1>1, <1>2 DEF OwnSigner
  <2> HIDE DEF connected
  <2>2. OwnSigner'
    BY <2>1 DEF OwnSigner
  <2> QED
    BY <1>1, <2>2, SignerComes
<1>3. CASE GotSigner
  <2>1. signer' = [key |-> signer.key, connected |-> connected, for |-> signer.for]
    BY <1>1, <1>3 DEF GotSigner
  <2> HIDE DEF connected
  <2>2. signer'.key = signer.key /\ signer'.for = signer.for /\ signer'.connected = connected
    BY <2>1
  <2>3. signer' = [key |-> signer'.key, connected |-> signer'.connected, for |-> signer'.for]
    BY <2>1, <2>2
  <2>4. GotSigner'
    BY <1>1, <1>3, <2>2, <2>3 DEF GotSigner, KeyAt
  <2> QED
    BY <1>1, <2>4, SignerComes
<1> QED
  BY <1>1, <1>2, <1>3 DEF SignersInv

\* A signer signs with its key and gives the address of that key.
LEMMA SignsKeeps ==
  ASSUME SignersInv, NEW asked, NEW message, Signs(asked, message)
  PROVE  SignersInv'
<1>1. signer # NoSigner /\ UNCHANGED <<provider, signer>>
  BY DEF Signs
<1>2. sent' = [kind |-> asked, for |-> signer.for, address |-> AddressText[KeyNow],
               signature |-> [hash |-> <<asked, message>>, by |-> KeyNow], v |-> 27]
  BY DEF Signs, GetAddress, Signature
<1>3. /\ sent'.for = signer.for /\ sent'.address = AddressText[KeyNow]
      /\ sent'.signature.by = KeyNow
  BY <1>2
<1>4. CASE OwnSigner
  <2>1. DOMAIN sent'.for = {"own"}
    BY <1>3, <1>4 DEF OwnSigner
  <2> QED
    BY <1>1, <1>3, <1>4, <2>1 DEF SignersInv, SignedByTheAccount, OwnSigner
<1>5. CASE GotSigner
  <2>1. KeyNow = signer.key
    BY <1>5 DEF GotSigner, KeyNow
  <2> QED
    BY <1>1, <1>3, <1>5, <2>1 DEF SignersInv, SignedByTheAccount, GotSigner, KeyAt
<1> QED
  BY <1>1, <1>4, <1>5 DEF SignersInv

\* What is simulated is no signature.
LEMMA SimulatesKeeps ==
  ASSUME SignersInv, NEW asked, Simulates(asked)
  PROVE  SignersInv'
<1>1. UNCHANGED <<provider, signer>> /\ "signature" \notin DOMAIN sent'
  BY DEF Simulates
<1> QED
  BY <1>1 DEF SignersInv, SignedByTheAccount, OwnSigner, GotSigner, KeyAt

\* Every step of a program, and every change of a buffer, keeps signers to their accounts.
LEMMA SignersKept ==
  /\ SignersInv
  /\ [WalletsNext \/ (KeysNext /\ UNCHANGED walletVars)]_<<keysVars, walletVars>>
  => SignersInv'
<1> SUFFICES ASSUME SignersInv, WalletsNext \/ UNCHANGED walletVars PROVE SignersInv'
  BY DEF walletVars
<1>1. ASSUME UNCHANGED <<provider, signer, sent>> PROVE SignersInv'
  BY <1>1 DEF SignersInv, SignedByTheAccount, OwnSigner, GotSigner, KeyAt
<1>2. ASSUME NEW network \in Networks, ExtendEnvironment(network) \/ StartProxy(network)
      PROVE  SignersInv'
  BY <1>2, ProviderComes
<1>3. ASSUME NEW message \in Messages, SignMessage(message) \/ SignTypedData(message)
      PROVE  SignersInv'
  BY <1>3, SignsKeeps DEF SignMessage, SignTypedData
<1>4. ASSUME NEW intended, NEW asClauses, NEW keepsFrom, Write(intended, asClauses, keepsFrom)
      PROVE  SignersInv'
  BY <1>1, <1>4 DEF Write
<1>5. CASE UNCHANGED walletVars
  BY <1>1, <1>5 DEF walletVars
<1> QED
  BY <1>2, <1>3, <1>4, <1>5, GetSignerKeeps, NewSignerKeeps, ConnectKeeps, SimulatesKeeps
  DEF WalletsNext, Call, EstimateGas

\* Who signs is the account whose address the signer gives, and the one that the signer
\* was got for, by its address or by its index in the configuration of the host.
THEOREM AccountsSign == WalletsSpec => []SignedByTheAccount
<1>1. WalletsInit => SignersInv
  BY DEF WalletsInit, SignersInv, SignedByTheAccount
<1>2. SignersInv => SignedByTheAccount
  BY DEF SignersInv
<1> QED
  BY <1>1, <1>2, SignersKept, PTL DEF WalletsSpec

-----------------------------------------------------------------------------
(***************************************************************************)
(* What is simulated.  The object holds the clauses of what was written    *)
(* last, or what _buildClauses makes them of.                              *)
(***************************************************************************)
Asked == [i \in DOMAIN written |-> ClauseFor(written[i])]

\* What is left undefined or null in the object when it is populated.
WithRecipient(o) == [o EXCEPT !.to = IF @ = Unset THEN Nobody ELSE @]

Whole(o) ==
  o = [from |-> o.from, to |-> o.to, value |-> o.value, data |-> o.data, clauses |-> o.clauses]

HoldsClauses(o, clauses) ==
  /\ Whole(o)
  /\ \/ o.clauses # Unset /\ o.clauses = clauses
     \/ o.clauses = Unset /\ BuildClauses(WithRecipient(o)) = clauses

ObjectInv ==
  /\ HoldsClauses(object, Asked)
  /\ written = [i \in DOMAIN written |-> Does(Asked[i])]
  /\ SimulatedAsWritten

\* The chain does with the clause for an intention what was intended.
LEMMA ClauseDoes ==
  ASSUME NEW i, IsIntention(i), ClauseFor(i) # BadClause
  PROVE  LET c == ClauseFor(i)
         IN  /\ c = [to |-> c.to, value |-> c.value, data |-> c.data]
             /\ c.to = Nobody => c.value = 0
             /\ Does(c) = i
<1> DEFINE c == ClauseFor(i)
<1>1. CASE i.what = "create"
  <2>1. i = [what |-> "create", code |-> i.code, params |-> i.params]
    BY <1>1 DEF IsIntention
  <2>2. c = [to |-> Nobody, value |-> 0, data |-> <<"code", i.code, i.params>>]
    BY <1>1 DEF ClauseFor, DeployContract
  <2>3. c.to = Nobody /\ c.value = 0 /\ c.data[2] = i.code /\ c.data[3] = i.params
    BY <2>2
  <2> HIDE DEF c
  <2>4. Does(c) = [what |-> "create", code |-> i.code, params |-> i.params]
    BY <2>3 DEF Does
  <2> QED
    BY <2>1, <2>2, <2>3, <2>4 DEF c
<1>2. CASE i.what = "token"
  <2> DEFINE args == <<[address |-> i.to], [amount |-> i.amount]>>
  <2>1. i = [what |-> "token", of |-> i.of, to |-> i.to, amount |-> i.amount] /\ i.of # Nobody
    BY <1>2 DEF IsIntention
  <2>2. c = [to |-> i.of, value |-> 0, data |-> <<"call", "transfer", args>>]
    BY <1>2 DEF ClauseFor, TransferToken, FunctionInteraction
  <2>3. c.to = i.of /\ c.value = 0 /\ c.data = <<"call", "transfer", args>>
    BY <2>2
  <2>4. args[1].address = i.to /\ args[2].amount = i.amount
    OBVIOUS
  <2> HIDE DEF c, args
  <2>5. c.data # Nothing /\ c.data[2] = "transfer" /\ c.data[3] = args
    BY <2>3 DEF Nothing
  <2>6. Does(c) = [what |-> "token", of |-> i.of, to |-> i.to, amount |-> i.amount]
    BY <2>1, <2>3, <2>4, <2>5 DEF Does
  <2> QED
    BY <2>1, <2>2, <2>3, <2>6 DEF c
<1>3. CASE i.what = "VET"
  <2>1. i = [what |-> "VET", to |-> i.to, amount |-> i.amount] /\ i.to # Nobody
    BY <1>3 DEF IsIntention
  <2>2. c = [to |-> i.to, value |-> i.amount, data |-> Nothing]
    BY <1>3 DEF ClauseFor, TransferVET
  <2>3. c.to = i.to /\ c.value = i.amount /\ c.data = Nothing
    BY <2>2
  <2> HIDE DEF c
  <2>4. Does(c) = [what |-> "VET", to |-> i.to, amount |-> i.amount]
    BY <2>1, <2>3 DEF Does
  <2> QED
    BY <2>1, <2>2, <2>3, <2>4 DEF c
<1>4. CASE i.what = "NFT"
  <2> DEFINE args == <<[address |-> i.from], [address |-> i.to], [id |-> i.id]>>
  <2>1. /\ i = [what |-> "NFT", of |-> i.of, from |-> i.from, to |-> i.to, id |-> i.id]
        /\ i.of # Nobody
    BY <1>4 DEF IsIntention
  <2>2. c = [to |-> i.of, value |-> 0, data |-> <<"call", "transferFrom", args>>]
    BY <1>4 DEF ClauseFor, TransferNFT, FunctionInteraction
  <2>3. c.to = i.of /\ c.value = 0 /\ c.data = <<"call", "transferFrom", args>>
    BY <2>2
  <2>4. args[1].address = i.from /\ args[2].address = i.to /\ args[3].id = i.id
    OBVIOUS
  <2> HIDE DEF c, args
  <2>5. c.data # Nothing /\ c.data[2] = "transferFrom" /\ c.data[3] = args
    BY <2>3 DEF Nothing
  <2>6. Does(c) = [what |-> "NFT", of |-> i.of, from |-> i.from, to |-> i.to, id |-> i.id]
    BY <2>1, <2>3, <2>4, <2>5 DEF Does
  <2> QED
    BY <2>1, <2>2, <2>3, <2>6 DEF c
<1> QED
  BY <1>1, <1>2, <1>3, <1>4 DEF IsIntention

\* What is written into the fields is what _buildClauses puts together again.
LEMMA BuildsWritten ==
  ASSUME NEW c, NEW from, c = [to |-> c.to, value |-> c.value, data |-> c.data],
         c.to = Nobody => c.value = 0, Unset \notin {c.to, c.value, c.data}
  PROVE  LET o == [from |-> from, to |-> c.to, value |-> c.value, data |-> c.data,
                   clauses |-> Unset]
         IN  HoldsClauses(o, <<c>>)
<1> DEFINE o == [from |-> from, to |-> c.to, value |-> c.value, data |-> c.data,
                 clauses |-> Unset]
<1>1. Whole(o) /\ o.clauses = Unset
  BY DEF Whole
<1>2. /\ WithRecipient(o).to = c.to /\ WithRecipient(o).value = c.value
      /\ WithRecipient(o).data = c.data
  BY DEF WithRecipient
<1> HIDE DEF o
<1>3. CASE c.to # Nobody
  <2>1. BuildClauses(WithRecipient(o)) = <<[to |-> c.to, value |-> c.value, data |-> c.data]>>
    BY <1>2, <1>3 DEF BuildClauses
  <2> QED
    BY <1>1, <2>1 DEF HoldsClauses, o
<1>4. CASE c.to = Nobody
  <2>1. BuildClauses(WithRecipient(o)) = <<[to |-> c.to, value |-> c.value, data |-> c.data]>>
    BY <1>2, <1>4 DEF BuildClauses
  <2> QED
    BY <1>1, <2>1 DEF HoldsClauses, o
<1> QED
  BY <1>3, <1>4

\* populateCall keeps what the object holds, names the signer, and is simulated as it.
LEMMA PopulatedHolds ==
  ASSUME NEW o, NEW address, NEW clauses, HoldsClauses(o, clauses),
         PopulateCall(o, address) # BadClause
  PROVE  /\ HoldsClauses(PopulateCall(o, address), clauses)
         /\ PopulateCall(o, address).from = address
         /\ ClausesOf(PopulateCall(o, address)) = clauses
<1> DEFINE p     == PopulateCall(o, address)
           named == [o EXCEPT !.from = address, !.to = IF @ = Unset THEN Nobody ELSE @]
<1>1. o.from \in {Unset, address}
  BY DEF PopulateCall
<1>2. /\ Whole(named) /\ named.from = address /\ named.clauses = o.clauses
      /\ named.value = o.value /\ named.data = o.data
      /\ named.to = IF o.to = Unset THEN Nobody ELSE o.to
  <2> DEFINE to == IF o.to = Unset THEN Nobody ELSE o.to
  <2>1. named = [from |-> address, to |-> to, value |-> o.value, data |-> o.data,
                 clauses |-> o.clauses]
    <3>1. Whole(o)
      BY DEF HoldsClauses
    <3>2. named = [f \in {"from", "to", "value", "data", "clauses"} |->
                     IF f = "from" THEN address ELSE IF f = "to" THEN to ELSE o[f]]
      BY <3>1 DEF Whole
    <3> HIDE DEF named
    <3> QED
      BY <3>2
  <2> HIDE DEF to, named
  <2>2. /\ named.from = address /\ named.to = to /\ named.value = o.value
        /\ named.data = o.data /\ named.clauses = o.clauses
    BY <2>1
  <2> QED
    BY <2>1, <2>2 DEF Whole, to
<1>3. CASE o.clauses \notin {Unset, <<>>}
  <2>1. p = [named EXCEPT !.to = o.clauses[1].to, !.value = o.clauses[1].value,
                          !.data = o.clauses[1].data]
    BY <1>1, <1>3 DEF PopulateCall
  <2> HIDE DEF p, named
  <2>2. Whole(p) /\ p.from = address /\ p.clauses = o.clauses
    BY <1>2, <2>1 DEF Whole
  <2> QED
    BY <1>3, <2>2 DEF HoldsClauses, ClausesOf, p
<1>4. CASE o.clauses \in {Unset, <<>>}
  <2>1. p = named
    BY <1>1, <1>4 DEF PopulateCall
  <2> HIDE DEF p
  <2>2. CASE o.clauses # Unset
    BY <1>2, <2>1, <2>2 DEF HoldsClauses, ClausesOf, p
  <2>3. CASE o.clauses = Unset
    <3>1. /\ WithRecipient(o).to = named.to /\ WithRecipient(o).value = named.value
          /\ WithRecipient(o).data = named.data
      BY <1>2 DEF HoldsClauses, Whole, WithRecipient
    <3>2. /\ WithRecipient(named).to = named.to /\ WithRecipient(named).value = named.value
          /\ WithRecipient(named).data = named.data
      BY <1>2, IntentionsAssumption DEF Whole, WithRecipient
    <3> HIDE DEF named
    <3>3. BuildClauses(WithRecipient(o)) = BuildClauses(named)
      BY <3>1 DEF BuildClauses
    <3>4. BuildClauses(WithRecipient(named)) = BuildClauses(named)
      BY <3>2 DEF BuildClauses
    <3>5. BuildClauses(named) = clauses
      BY <2>3, <3>3 DEF HoldsClauses
    <3> QED
      BY <1>2, <2>1, <2>3, <3>4, <3>5 DEF HoldsClauses, ClausesOf, p
  <2> QED
    BY <2>2, <2>3
<1> QED
  BY <1>3, <1>4

\* The object of a program that wrote nothing creates a contract of nothing.
LEMMA ObjectInit == WalletsInit => ObjectInv
<1> SUFFICES ASSUME WalletsInit PROVE ObjectInv
  OBVIOUS
<1> DEFINE create == [what |-> "create", code |-> "", params |-> <<>>]
<1>1. object = Blank /\ written = <<create>> /\ sent = Unset
  BY DEF WalletsInit
<1>2. IsIntention(create) /\ ClauseFor(create) = DeployContract("", <<>>)
  BY DEF IsIntention, ClauseFor
<1>3. Does(ClauseFor(create)) = create
  <2> DEFINE c == DeployContract("", <<>>)
  <2>1. c.to = Nobody /\ c.data[2] = "" /\ c.data[3] = <<>>
    BY DEF DeployContract
  <2> HIDE DEF c
  <2>2. Does(c) = create
    BY <2>1 DEF Does
  <2> QED
    BY <1>2, <2>2 DEF c
<1> HIDE DEF create
<1>4. Asked = <<ClauseFor(create)>>
  BY <1>1 DEF Asked
<1>5. written = [i \in DOMAIN written |-> Does(Asked[i])]
  BY <1>1, <1>3, <1>4
<1>6. HoldsClauses(object, Asked)
  <2>1. Whole(Blank) /\ Blank.clauses = Unset
    BY DEF Whole, Blank
  <2>2. WithRecipient(Blank).to = Nobody /\ WithRecipient(Blank).data = Unset
    BY DEF WithRecipient, Blank
  <2>3. BuildClauses(WithRecipient(Blank)) = <<DeployContract("", <<>>)>>
    BY <2>2 DEF BuildClauses
  <2> QED
    BY <1>1, <1>2, <1>4, <2>1, <2>3 DEF HoldsClauses
<1> QED
  BY <1>1, <1>5, <1>6 DEF ObjectInv, SimulatedAsWritten

\* Whether an intention is written as clauses or as fields, the object holds its clauses,
\* whatever it held before.
LEMMA WriteKeeps ==
  ASSUME ObjectInv, NEW intended \in Intentions, NEW asClauses \in BOOLEAN,
         NEW keepsFrom \in BOOLEAN, Write(intended, asClauses, keepsFrom)
  PROVE  ObjectInv'
<1> DEFINE clauses == [i \in DOMAIN intended |-> ClauseFor(intended[i])]
           from    == IF keepsFrom THEN object.from ELSE Unset
<1>1. /\ \A i \in DOMAIN intended : ClauseFor(intended[i]) # BadClause
      /\ asClauses \/ Len(clauses) = 1
      /\ written' = intended /\ UNCHANGED sent
  BY DEF Write
<1>2. Asked' = clauses
  BY <1>1 DEF Asked
<1>3. \A i \in DOMAIN intended :
        LET c == ClauseFor(intended[i])
        IN  /\ c = [to |-> c.to, value |-> c.value, data |-> c.data]
            /\ c.to = Nobody => c.value = 0
            /\ Does(c) = intended[i]
            /\ Unset \notin {c.to, c.value, c.data}
  <2> SUFFICES ASSUME NEW i \in DOMAIN intended
               PROVE  LET c == ClauseFor(intended[i])
                      IN  /\ c = [to |-> c.to, value |-> c.value, data |-> c.data]
                          /\ c.to = Nobody => c.value = 0
                          /\ Does(c) = intended[i]
                          /\ Unset \notin {c.to, c.value, c.data}
    OBVIOUS
  <2>1. IsIntention(intended[i]) /\ ClauseFor(intended[i]) # BadClause
    BY <1>1, IntentionsAssumption
  <2>2. LET c == ClauseFor(intended[i]) IN Unset \notin {c.to, c.value, c.data}
    BY <2>1, IntentionsAssumption
  <2> QED
    BY <2>1, <2>2, ClauseDoes
<1>4. intended \in Seq({intended[i] : i \in DOMAIN intended}) /\ Unset # clauses
  BY IntentionsAssumption
<1>5. (written = [i \in DOMAIN written |-> Does(Asked[i])])'
  <2>1. intended = [i \in DOMAIN intended |-> intended[i]]
    BY <1>4
  <2> HIDE DEF clauses
  <2>2. \A i \in DOMAIN intended : Does(clauses[i]) = intended[i]
    BY <1>3 DEF clauses
  <2> QED
    BY <1>1, <1>2, <2>1, <2>2
<1>6. SimulatedAsWritten'
  BY <1>1 DEF ObjectInv, SimulatedAsWritten
<1>7. CASE asClauses
  <2> HIDE DEF clauses, from
  <2>1. object' = [object EXCEPT !.from = from, !.clauses = clauses]
    BY <1>7 DEF Write, clauses, from
  <2>2. Whole(object') /\ object'.clauses = clauses
    BY <2>1 DEF ObjectInv, HoldsClauses, Whole
  <2>3. HoldsClauses(object', clauses)
    BY <1>4, <2>2 DEF HoldsClauses
  <2> QED
    BY <1>2, <1>5, <1>6, <2>3 DEF ObjectInv
<1>8. CASE ~asClauses
  <2>1. DOMAIN intended = 1 .. Len(intended) /\ Len(intended) \in Nat
    BY <1>4
  <2>2. Len(clauses) = Len(intended)
    BY <2>1
  <2>3. Len(intended) = 1 /\ 1 \in DOMAIN intended
    BY <1>1, <1>8, <2>1, <2>2
  <2> DEFINE c == ClauseFor(intended[1])
  <2>4. clauses = <<c>>
    BY <2>1, <2>3
  <2>5. clauses[1] = c
    BY <2>3
  <2> HIDE DEF clauses, from
  <2>6. object' = [from |-> from, to |-> clauses[1].to, value |-> clauses[1].value,
                   data |-> clauses[1].data, clauses |-> Unset]
    BY <1>8 DEF Write, clauses, from
  <2>7. /\ c = [to |-> c.to, value |-> c.value, data |-> c.data]
        /\ c.to = Nobody => c.value = 0
        /\ Unset \notin {c.to, c.value, c.data}
    BY <1>3, <2>3
  <2> HIDE DEF c
  <2>8. HoldsClauses(object', <<c>>)
    BY <2>5, <2>6, <2>7, BuildsWritten
  <2> QED
    BY <1>2, <1>5, <1>6, <2>4, <2>8 DEF ObjectInv
<1> QED
  BY <1>7, <1>8

\* call and estimateGas simulate what the object holds, and leave it in the object.
LEMMA SimulationKeeps ==
  ASSUME ObjectInv, NEW asked, Simulates(asked)
  PROVE  ObjectInv'
<1> DEFINE o == PopulateCall(object, GetAddress)
<1>1. o # BadClause /\ object' = o /\ written' = written
  BY DEF Simulates
<1>2. sent' = [kind |-> asked, signer |-> GetAddress, caller |-> o.from,
               clauses |-> ClausesOf(o), wrote |-> written]
  BY DEF Simulates
<1>3. HoldsClauses(o, Asked) /\ o.from = GetAddress /\ ClausesOf(o) = Asked
  BY <1>1, PopulatedHolds DEF ObjectInv
<1> HIDE DEF o
<1>4. Asked' = Asked
  BY <1>1 DEF Asked
<1>5. /\ sent'.caller = GetAddress /\ sent'.signer = GetAddress
      /\ sent'.clauses = Asked /\ sent'.wrote = written
  BY <1>2, <1>3
<1>6. DOMAIN Asked = DOMAIN written
  BY DEF Asked
<1>7. SimulatedAsWritten'
  BY <1>5, <1>6 DEF ObjectInv, SimulatedAsWritten
<1> QED
  BY <1>1, <1>3, <1>4, <1>7 DEF ObjectInv

\* Every step of a program keeps to what it last wrote.
LEMMA ObjectKept ==
  /\ ObjectInv
  /\ [WalletsNext \/ (KeysNext /\ UNCHANGED walletVars)]_<<keysVars, walletVars>>
  => ObjectInv'
<1> SUFFICES ASSUME ObjectInv, WalletsNext \/ UNCHANGED walletVars PROVE ObjectInv'
  BY DEF walletVars
<1>1. ASSUME UNCHANGED <<object, written>>, UNCHANGED sent \/ "clauses" \notin DOMAIN sent'
      PROVE  ObjectInv'
  BY <1>1 DEF ObjectInv, Asked, SimulatedAsWritten
<1>2. ASSUME NEW network, ExtendEnvironment(network) \/ StartProxy(network) PROVE ObjectInv'
  BY <1>1, <1>2 DEF ExtendEnvironment, StartProxy
<1>3. ASSUME NEW which, GetSigner(which) PROVE ObjectInv'
  BY <1>1, <1>3 DEF GetSigner
<1>4. ASSUME NEW b, NewSigner(b) \/ Connect PROVE ObjectInv'
  BY <1>1, <1>4 DEF NewSigner, Connect
<1>5. ASSUME NEW message, SignMessage(message) \/ SignTypedData(message) PROVE ObjectInv'
  <2>1. PICK asked : Signs(asked, message)
    BY <1>5 DEF SignMessage, SignTypedData
  <2>2. UNCHANGED <<object, written>> /\ "clauses" \notin DOMAIN sent'
    BY <2>1 DEF Signs
  <2> QED
    BY <1>1, <2>2
<1>6. CASE UNCHANGED walletVars
  BY <1>1, <1>6 DEF walletVars
<1> QED
  BY <1>2, <1>3, <1>4, <1>5, <1>6, WriteKeeps, SimulationKeeps DEF WalletsNext, Call, EstimateGas

\* However often, by whichever signers and in whichever form a request object was used,
\* what is simulated is what was last written into it, called by the signer.
THEOREM WrittenIsSimulated == WalletsSpec => []SimulatedAsWritten
<1>1. ObjectInv => SimulatedAsWritten
  BY DEF ObjectInv
<1> QED
  BY <1>1, ObjectInit, ObjectKept, PTL DEF WalletsSpec

-----------------------------------------------------------------------------
(***************************************************************************)
(* Induction, recursion over the numbers, and folds from the left.         *)
(***************************************************************************)
\* A set of numbers that holds every number below which it holds all, holds all.
LEMMA AllNumbers ==
  ASSUME NEW S, \A n \in Nat : (\A m \in Nat : m < n => m \in S) => n \in S
  PROVE  Nat \subseteq S
<1> DEFINE T == Nat \ S
<1>1. SUFFICES ASSUME T # {} PROVE FALSE
  OBVIOUS
<1>2. T \in SUBSET Nat
  OBVIOUS
<1>3. PICK n \in T : \A m \in T : n <= m
  <2> HIDE DEF T
  <2> QED
    BY <1>1, <1>2, LeastNumber
<1>4. \A m \in Nat : m < n => m \in S
  BY <1>3
<1> QED
  BY <1>3, <1>4

\* A set that holds 0 and, with a number below N, the next, holds all up to N.
LEMMA UpToAll ==
  ASSUME NEW N \in Nat, NEW S, 0 \in S, \A n \in 0 .. N - 1 : n \in S => n + 1 \in S
  PROVE  0 .. N \subseteq S
<1> DEFINE T == (0 .. N) \ S
<1>1. SUFFICES ASSUME T # {} PROVE FALSE
  OBVIOUS
<1>2. T \in SUBSET Nat
  OBVIOUS
<1>3. PICK n \in T : \A m \in T : n <= m
  <2> HIDE DEF T
  <2> QED
    BY <1>1, <1>2, LeastNumber
<1>4. n \in 0 .. N /\ n # 0 /\ n \notin S
  OBVIOUS
<1>5. n - 1 \in 0 .. N - 1 /\ n - 1 \in S
  BY <1>3, <1>4
<1> QED
  BY <1>4, <1>5

\* The equation of a function of the numbers up to k that is given for the small ones,
\* and for every other is a step from that of a lower one.
Recurs(f, k, small, base, step, lower) ==
  \A n \in 0 .. k : f[n] = IF n \in small THEN base[n] ELSE step[n][f[lower[n]]]

\* It has a solution for all numbers at once.
LEMMA RecursiveFunction ==
  ASSUME NEW A, NEW small \in SUBSET Nat, NEW base \in [small -> A],
         NEW step \in [Nat -> [A -> A]], NEW lower \in [Nat -> Nat],
         \A n \in Nat \ small : lower[n] < n
  PROVE  \E f \in [Nat -> A] :
           \A n \in Nat : f[n] = IF n \in small THEN base[n] ELSE step[n][f[lower[n]]]
<1> DEFINE Solves(f, k) == f \in [0 .. k -> A] /\ Recurs(f, k, small, base, step, lower)
<1>1. \A k \in Nat : \E f : Solves(f, k)
  <2> DEFINE S == {k \in Nat : \E f : Solves(f, k)}
  <2>1. ASSUME NEW k \in Nat, \A j \in Nat : j < k => j \in S PROVE k \in S
    <3>1. CASE k = 0
      <4> DEFINE f == [n \in 0 .. 0 |-> base[0]]
      <4>1. 0 \in small
        BY <3>1
      <4>2. Solves(f, 0)
        BY <4>1 DEF Recurs
      <4> HIDE DEF Solves
      <4> QED
        BY <3>1, <4>2
    <3>2. CASE k # 0
      <4>1. k - 1 \in Nat /\ k - 1 < k
        BY <3>2
      <4>2. PICK g : Solves(g, k - 1)
        BY <2>1, <4>1
      <4> DEFINE last == IF k \in small THEN base[k] ELSE step[k][g[lower[k]]]
                 f == [n \in 0 .. k |-> IF n = k THEN last ELSE g[n]]
      <4>3. \A n \in Nat \ small : n <= k => lower[n] \in 0 .. k - 1
        BY <4>1
      <4>4. last \in A
        <5>1. CASE k \in small
          BY <5>1
        <5>2. CASE k \notin small
          <6>1. g[lower[k]] \in A
            BY <4>2, <4>3, <5>2
          <6> QED
            BY <5>2, <6>1
        <5> QED
          BY <5>1, <5>2
      <4> HIDE DEF last
      <4>5. f \in [0 .. k -> A]
        BY <4>2, <4>4
      <4>6. ASSUME NEW n \in 0 .. k
            PROVE  f[n] = IF n \in small THEN base[n] ELSE step[n][f[lower[n]]]
        <5>1. n \notin small => lower[n] \in 0 .. k - 1 /\ f[lower[n]] = g[lower[n]]
          BY <4>3
        <5>2. CASE n = k
          BY <5>1, <5>2 DEF last
        <5>3. CASE n # k
          <6>1. n \in 0 .. k - 1 /\ f[n] = g[n]
            BY <5>3
          <6> QED
            BY <4>2, <5>1, <6>1 DEF Recurs
        <5> QED
          BY <5>2, <5>3
      <4>7. Solves(f, k)
        BY <4>5, <4>6 DEF Recurs
      <4> HIDE DEF Solves
      <4> QED
        BY <4>7
    <3> QED
      BY <3>1, <3>2
  <2>2. Nat \subseteq S
    <3> HIDE DEF S
    <3> QED
      BY <2>1, AllNumbers
  <2> HIDE DEF Solves
  <2> QED
    BY <2>2
<1> DEFINE G == [k \in Nat |-> CHOOSE f : Solves(f, k)]
<1>2. \A k \in Nat : Solves(G[k], k)
  <2> HIDE DEF Solves
  <2> QED
    BY <1>1
<1> HIDE DEF G
<1>3. ASSUME NEW j \in Nat, NEW k \in Nat, NEW m \in Nat, m <= j, m <= k PROVE G[j][m] = G[k][m]
  <2> DEFINE S == {n \in Nat : n <= j /\ n <= k => G[j][n] = G[k][n]}
  <2>1. ASSUME NEW n \in Nat, \A i \in Nat : i < n => i \in S PROVE n \in S
    <3>1. SUFFICES ASSUME n <= j, n <= k PROVE G[j][n] = G[k][n]
      OBVIOUS
    <3>2. /\ G[j][n] = IF n \in small THEN base[n] ELSE step[n][G[j][lower[n]]]
          /\ G[k][n] = IF n \in small THEN base[n] ELSE step[n][G[k][lower[n]]]
      BY <1>2, <3>1 DEF Recurs
    <3>3. n \notin small => G[j][lower[n]] = G[k][lower[n]]
      BY <2>1, <3>1
    <3> QED
      BY <3>2, <3>3
  <2>2. Nat \subseteq S
    <3> HIDE DEF S
    <3> QED
      BY <2>1, AllNumbers
  <2> QED
    BY <1>3, <2>2
<1> DEFINE F == [n \in Nat |-> G[n][n]]
<1>4. F \in [Nat -> A]
  BY <1>2
<1>5. ASSUME NEW n \in Nat
      PROVE  F[n] = IF n \in small THEN base[n] ELSE step[n][F[lower[n]]]
  <2>1. G[n][n] = IF n \in small THEN base[n] ELSE step[n][G[n][lower[n]]]
    BY <1>2 DEF Recurs
  <2>2. n \notin small => G[n][lower[n]] = G[lower[n]][lower[n]]
    <3> SUFFICES ASSUME n \notin small PROVE G[n][lower[n]] = G[lower[n]][lower[n]]
      OBVIOUS
    <3>1. lower[n] \in Nat /\ lower[n] <= n
      OBVIOUS
    <3> QED
      BY <1>3, <3>1
  <2> QED
    BY <2>1, <2>2
<1> QED
  BY <1>4, <1>5

\* The greatest member of a set of numbers up to n that holds n is n.
LEMMA MaxOfUpTo ==
  ASSUME NEW n \in Nat, NEW s \in SUBSET (1 .. n), n \in s
  PROVE  Max(s) = n
<1>1. \A x \in s : (\A y \in s : x >= y) <=> x = n
  OBVIOUS
<1> QED
  BY <1>1 DEF Max

\* The greatest member is a member.
LEMMA MaxIsMember ==
  ASSUME NEW n \in Nat, NEW s \in SUBSET (1 .. n), s # {}
  PROVE  Max(s) \in s
<1> DEFINE T == {m \in Nat : n - m \in s}
<1>1. T \in SUBSET Nat /\ T # {}
  <2>1. PICK x \in s : TRUE
    OBVIOUS
  <2>2. n - x \in Nat /\ n - (n - x) \in s
    OBVIOUS
  <2> QED
    BY <2>2
<1>2. PICK m \in T : \A k \in T : m <= k
  <2> HIDE DEF T
  <2> QED
    BY <1>1, LeastNumber
<1>3. \A y \in s : n - m >= y
  <2> TAKE y \in s
  <2>1. n - y \in Nat /\ n - (n - y) \in s
    OBVIOUS
  <2>2. m <= n - y
    BY <1>2, <2>1
  <2> QED
    BY <2>2
<1> QED
  BY <1>2, <1>3 DEF Max

\* What a fold computes for the indexes in a set: from base, by a step for each index.
Folds(f, A, base, step, n) ==
  /\ f \in [SUBSET (1 .. n) -> A]
  /\ \A s \in SUBSET (1 .. n) :
       f[s] = IF s = {} THEN base ELSE step[Max(s)][f[s \ {Max(s)}]]

\* There is such a function, whatever the step.
LEMMA FoldExists ==
  ASSUME NEW A, NEW base \in A, NEW N \in Nat, NEW step \in [1 .. N -> [A -> A]]
  PROVE  \E f : Folds(f, A, base, step, N)
<1> DEFINE S == {n \in 0 .. N : \E f : Folds(f, A, base, step, n)}
<1>1. 0 \in S
  <2>1. SUBSET (1 .. 0) = {{}}
    OBVIOUS
  <2>2. Folds([s \in {{}} |-> base], A, base, step, 0)
    BY <2>1 DEF Folds
  <2> QED
    BY <2>2
<1>2. ASSUME NEW n \in 0 .. N - 1, n \in S PROVE n + 1 \in S
  <2>1. PICK f : Folds(f, A, base, step, n)
    BY <1>2
  <2> DEFINE old(s) == s \ {n + 1}
             g == [s \in SUBSET (1 .. n + 1) |->
                     IF n + 1 \in s THEN step[n + 1][f[old(s)]] ELSE f[s]]
  <2>2. \A s \in SUBSET (1 .. n + 1) : old(s) \in SUBSET (1 .. n)
    OBVIOUS
  <2>3. \A s \in SUBSET (1 .. n + 1) : n + 1 \notin s => s \in SUBSET (1 .. n)
    OBVIOUS
  <2>4. g \in [SUBSET (1 .. n + 1) -> A]
    BY <2>1, <2>2, <2>3 DEF Folds
  <2>5. ASSUME NEW s \in SUBSET (1 .. n + 1), n + 1 \in s
        PROVE  s # {} /\ g[s] = step[Max(s)][g[s \ {Max(s)}]]
    <3>1. Max(s) = n + 1
      BY <2>5, MaxOfUpTo
    <3>2. old(s) \in SUBSET (1 .. n + 1) /\ n + 1 \notin old(s)
      OBVIOUS
    <3>3. g[old(s)] = f[old(s)]
      BY <3>2
    <3> QED
      BY <2>5, <3>1, <3>3
  <2>6. ASSUME NEW s \in SUBSET (1 .. n + 1), n + 1 \notin s, s # {}
        PROVE  g[s] = step[Max(s)][g[s \ {Max(s)}]]
    <3>1. s \in SUBSET (1 .. n) /\ s \ {Max(s)} \in SUBSET (1 .. n)
      BY <2>3, <2>6
    <3>2. g[s] = f[s] /\ g[s \ {Max(s)}] = f[s \ {Max(s)}]
      BY <2>6, <3>1
    <3>3. f[s] = step[Max(s)][f[s \ {Max(s)}]]
      BY <2>1, <2>6, <3>1 DEF Folds
    <3> QED
      BY <3>2, <3>3
  <2>7. g[{}] = base
    BY <2>1 DEF Folds
  <2>8. Folds(g, A, base, step, n + 1)
    <3> HIDE DEF g
    <3> QED
      BY <2>4, <2>5, <2>6, <2>7 DEF Folds
  <2> QED
    BY <2>8
<1>3. N \in S
  <2>1. 0 \in S /\ \A n \in 0 .. N - 1 : n \in S => n + 1 \in S
    BY <1>1, <1>2
  <2> HIDE DEF S
  <2>2. 0 .. N \subseteq S
    BY <2>1, UpToAll
  <2> QED
    BY <2>2
<1> QED
  BY <1>3

-----------------------------------------------------------------------------
(***************************************************************************)
(* The numbers that digits are of.                                         *)
(***************************************************************************)
\* The numbers that the beginnings of digits are of.
Values(v, base, digits) ==
  /\ v[0] = 0
  /\ \A i \in 1 .. Len(digits) : v[i] = base * v[i - 1] + digits[i]

\* The fold that Value is.
ValueFold(f, base, digits) ==
  f = [s \in SUBSET DOMAIN digits |->
         IF s = {} THEN 0 ELSE base * f[s \ {Max(s)}] + digits[Max(s)]]

\* There are such numbers, and Value is the last of them.
LEMMA ValueEquation ==
  ASSUME NEW base \in Nat, NEW digits \in Seq(Nat)
  PROVE  \E v \in [0 .. Len(digits) -> Nat] :
           Values(v, base, digits) /\ Value(base, digits) = v[Len(digits)]
<1> DEFINE N == Len(digits)
           step == [i \in 1 .. N |-> [n \in Nat |-> base * n + digits[i]]]
<1>1. N \in Nat /\ DOMAIN digits = 1 .. N /\ \A i \in 1 .. N : digits[i] \in Nat
  OBVIOUS
<1>2. step \in [1 .. N -> [Nat -> Nat]]
  BY <1>1
<1>3. PICK f : Folds(f, Nat, 0, step, N)
  <2> HIDE DEF step, N
  <2> QED
    BY <1>1, <1>2, FoldExists
<1>4. f \in [SUBSET (1 .. N) -> Nat] /\ f[{}] = 0
  <2> HIDE DEF step, N
  <2> QED
    BY <1>3 DEF Folds
<1>5. ASSUME NEW s \in SUBSET (1 .. N), s # {}
      PROVE  f[s] = base * f[s \ {Max(s)}] + digits[Max(s)]
  <2>1. f[s] = step[Max(s)][f[s \ {Max(s)}]]
    <3> HIDE DEF step, N
    <3> QED
      BY <1>3, <1>5 DEF Folds
  <2>2. Max(s) \in 1 .. N
    <3> HIDE DEF N
    <3> QED
      BY <1>1, <1>5, MaxIsMember
  <2>3. f[s \ {Max(s)}] \in Nat
    <3> HIDE DEF step, N
    <3> QED
      BY <1>4
  <2> QED
    BY <2>1, <2>2, <2>3
<1>6. ValueFold(f, base, digits)
  <2> HIDE DEF step, N
  <2> QED
    BY <1>1, <1>4, <1>5 DEF ValueFold
<1> DEFINE g == CHOOSE h : ValueFold(h, base, digits)
<1>7. ValueFold(g, base, digits)
  BY <1>6
<1>8. Value(base, digits) = g[DOMAIN digits]
  BY DEF Value, FoldLeft, MapThenFoldSet, ValueFold
<1> HIDE DEF g, N, step
<1> DEFINE v == [i \in 0 .. N |-> g[1 .. i]]
<1>9. v[0] = 0
  <2>1. g[{}] = 0
    BY <1>7 DEF ValueFold
  <2>2. 1 .. 0 = {}
    OBVIOUS
  <2> QED
    BY <1>1, <2>1, <2>2
<1>10. ASSUME NEW i \in 1 .. N PROVE v[i] = base * v[i - 1] + digits[i]
  <2>1. (1 .. i) \in SUBSET DOMAIN digits /\ i \in 1 .. i
    BY <1>1
  <2>2. Max(1 .. i) = i /\ (1 .. i) \ {i} = 1 .. i - 1
    BY <2>1, MaxOfUpTo
  <2>3. g[1 .. i] = base * g[1 .. i - 1] + digits[i]
    BY <1>7, <2>1, <2>2 DEF ValueFold
  <2> QED
    BY <1>1, <2>3
<1>11. v \in [0 .. N -> Nat]
  <2> DEFINE S == {i \in 0 .. N : v[i] \in Nat}
  <2>1. 0 \in S
    BY <1>1, <1>9
  <2>2. ASSUME NEW i \in 0 .. N - 1, i \in S PROVE i + 1 \in S
    <3>1. i + 1 \in 1 .. N /\ (i + 1) - 1 = i
      BY <1>1
    <3>2. v[i + 1] = base * v[i] + digits[i + 1]
      BY <1>10, <3>1
    <3>3. v[i] \in Nat /\ digits[i + 1] \in Nat
      BY <1>1, <2>2, <3>1
    <3>4. base * v[i] \in Nat
      BY <3>3
    <3> HIDE DEF v
    <3>5. v[i + 1] \in Nat
      BY <3>2, <3>3, <3>4
    <3> QED
      BY <1>1, <3>1, <3>5
  <2>3. 0 .. N \subseteq S
    <3> HIDE DEF S
    <3> QED
      BY <1>1, <2>1, <2>2, UpToAll
  <2> QED
    BY <2>3
<1>12. Value(base, digits) = v[N]
  BY <1>1, <1>8
<1> HIDE DEF v
<1> QED
  BY <1>9, <1>10, <1>11, <1>12 DEF Values, N

\* Any such numbers end with Value.
LEMMA ValueIs ==
  ASSUME NEW base \in Nat, NEW digits \in Seq(Nat), NEW v, Values(v, base, digits)
  PROVE  Value(base, digits) = v[Len(digits)]
<1> DEFINE N == Len(digits)
<1>1. PICK w \in [0 .. N -> Nat] : Values(w, base, digits) /\ Value(base, digits) = w[N]
  BY ValueEquation
<1>2. N \in Nat
  OBVIOUS
<1> DEFINE S == {i \in 0 .. N : v[i] = w[i]}
<1>3. 0 \in S
  BY <1>1, <1>2 DEF Values
<1>4. ASSUME NEW i \in 0 .. N - 1, i \in S PROVE i + 1 \in S
  <2>1. i + 1 \in 1 .. N /\ (i + 1) - 1 = i
    BY <1>2
  <2>2. v[i + 1] = base * v[i] + digits[i + 1] /\ w[i + 1] = base * w[i] + digits[i + 1]
    BY <1>1, <2>1 DEF Values
  <2> QED
    BY <1>4, <2>1, <2>2
<1>5. 0 .. N \subseteq S
  <2> HIDE DEF S, N
  <2> QED
    BY <1>2, <1>3, <1>4, UpToAll
<1> QED
  BY <1>1, <1>2, <1>5

\* Digits are of a number.
LEMMA ValueIsNumber ==
  ASSUME NEW base \in Nat, NEW digits \in Seq(Nat)
  PROVE  Value(base, digits) \in Nat
<1>1. PICK v \in [0 .. Len(digits) -> Nat] : Value(base, digits) = v[Len(digits)]
  BY ValueEquation
<1> QED
  BY <1>1

\* Of none, of one more.
LEMMA ValueOfMore ==
  ASSUME NEW base \in Nat
  PROVE  /\ Value(base, <<>>) = 0
         /\ \A digits \in Seq(Nat), d \in Nat :
              Value(base, Append(digits, d)) = base * Value(base, digits) + d
<1>1. Value(base, <<>>) = 0
  <2>1. <<>> \in Seq(Nat) /\ Len(<<>>) = 0 /\ Values([i \in 0 .. 0 |-> 0], base, <<>>)
    BY DEF Values
  <2>2. Value(base, <<>>) = [i \in 0 .. 0 |-> 0][0]
    BY <2>1, ValueIs
  <2> QED
    BY <2>2
<1>2. ASSUME NEW digits \in Seq(Nat), NEW d \in Nat
      PROVE  Value(base, Append(digits, d)) = base * Value(base, digits) + d
  <2> DEFINE N == Len(digits)
             more == Append(digits, d)
             last == base * Value(base, digits) + d
  <2>1. PICK v \in [0 .. N -> Nat] : Values(v, base, digits) /\ Value(base, digits) = v[N]
    BY ValueEquation
  <2>2. /\ N \in Nat /\ more \in Seq(Nat) /\ Len(more) = N + 1 /\ more[N + 1] = d
        /\ \A i \in 1 .. N : more[i] = digits[i]
    OBVIOUS
  <2> DEFINE w == [i \in 0 .. N + 1 |-> IF i = N + 1 THEN last ELSE v[i]]
  <2> HIDE DEF more, last, N
  <2>3. w[0] = 0
    BY <2>1, <2>2 DEF Values, N
  <2>4. ASSUME NEW i \in 1 .. N + 1 PROVE w[i] = base * w[i - 1] + more[i]
    <3>1. w[i - 1] = v[i - 1]
      BY <2>2
    <3>2. CASE i = N + 1
      BY <2>1, <2>2, <3>1, <3>2 DEF last
    <3>3. CASE i # N + 1
      <4>1. i \in 1 .. N /\ w[i] = v[i] /\ more[i] = digits[i]
        BY <2>2, <3>3
      <4> QED
        BY <2>1, <3>1, <4>1 DEF Values, N
    <3> QED
      BY <3>2, <3>3
  <2>5. Values(w, base, more)
    BY <2>2, <2>3, <2>4 DEF Values
  <2>6. Value(base, more) = w[N + 1] /\ w[N + 1] = last
    BY <2>2, <2>5, ValueIs
  <2> QED
    BY <2>6 DEF more, last
<1> QED
  BY <1>1, <1>2

\* Zeros before the digits change nothing.
LEMMA ValueAfterZeros ==
  ASSUME NEW base \in Nat, NEW digits \in Seq(Nat), NEW k \in Nat
  PROVE  /\ Zeros(k) \o digits \in Seq(Nat)
         /\ Len(Zeros(k) \o digits) = k + Len(digits)
         /\ Value(base, Zeros(k) \o digits) = Value(base, digits)
<1> DEFINE N == Len(digits)
           all == Zeros(k) \o digits
<1>1. Zeros(k) \in Seq(Nat) /\ Len(Zeros(k)) = k /\ \A i \in 1 .. k : Zeros(k)[i] = 0
  BY DEF Zeros
<1>2. /\ N \in Nat /\ all \in Seq(Nat) /\ Len(all) = k + N
      /\ \A i \in 1 .. k : all[i] = 0
      /\ \A i \in k + 1 .. k + N : all[i] = digits[i - k]
  BY <1>1
<1>3. PICK v \in [0 .. N -> Nat] : Values(v, base, digits) /\ Value(base, digits) = v[N]
  BY ValueEquation
<1> DEFINE w == [i \in 0 .. k + N |-> IF i <= k THEN 0 ELSE v[i - k]]
<1> HIDE DEF all, N
<1>4. w[0] = 0
  BY <1>2
<1>5. v[0] = 0 /\ \A i \in 1 .. N : v[i] = base * v[i - 1] + digits[i]
  BY <1>3 DEF Values, N
<1>6. ASSUME NEW i \in 1 .. k + N PROVE w[i] = base * w[i - 1] + all[i]
  <2>1. CASE i <= k
    <3>1. w[i] = 0 /\ w[i - 1] = 0 /\ all[i] = 0
      BY <1>2, <2>1
    <3> QED
      BY <3>1
  <2>2. CASE i > k
    <3>1. i - k \in 1 .. N /\ w[i] = v[i - k] /\ all[i] = digits[i - k]
      BY <1>2, <2>2
    <3>2. w[i - 1] = v[(i - k) - 1]
      <4>1. CASE i = k + 1
        BY <1>2, <1>5, <4>1
      <4>2. CASE i > k + 1
        BY <1>2, <4>2
      <4> QED
        BY <1>2, <2>2, <4>1, <4>2
    <3> QED
      BY <1>5, <3>1, <3>2
  <2> QED
    BY <1>2, <2>1, <2>2
<1>7. Values(w, base, all)
  BY <1>2, <1>4, <1>6 DEF Values
<1>8. Value(base, all) = w[k + N]
  <2> HIDE DEF w
  <2>1. Value(base, all) = w[Len(all)]
    BY <1>2, <1>7, ValueIs
  <2> QED
    BY <1>2, <2>1
<1>9. w[k + N] = v[N]
  <2>1. CASE N = 0
    BY <1>5, <2>1
  <2>2. CASE N > 0
    BY <1>2, <2>2
  <2> QED
    BY <1>2, <2>1, <2>2
<1> QED
  BY <1>2, <1>3, <1>8, <1>9 DEF all, N

\* Digits, of a number and of its last one.
Digit == 0 .. 15

Digits == Seq(Digit)

LEMMA DigitsEquation ==
  \A n \in Nat : /\ DigitsOf[n] = IF n < 16 THEN <<n>> ELSE Append(DigitsOf[n \div 16], n % 16)
                 /\ DigitsOf[n] \in Digits
<1> DEFINE Q(f) == f = [n \in Nat |-> IF n < 16 THEN <<n>> ELSE Append(f[n \div 16], n % 16)]
           small == 0 .. 15
           lower == [n \in Nat |-> n \div 16]
           step == [n \in Nat |-> [s \in Digits |-> Append(s, n % 16)]]
           base == [n \in small |-> <<n>>]
<1>1. PICK f \in [Nat -> Digits] :
        \A n \in Nat : f[n] = IF n \in small THEN base[n] ELSE step[n][f[lower[n]]]
  <2>1. base \in [small -> Digits]
    BY DEF Digits, Digit
  <2>2. \A n \in Nat, s \in Digits : Append(s, n % 16) \in Digits
    BY DEF Digits, Digit
  <2>3. step \in [Nat -> [Digits -> Digits]]
    BY <2>2
  <2>4. lower \in [Nat -> Nat] /\ \A n \in Nat \ small : lower[n] < n
    OBVIOUS
  <2>5. small \in SUBSET Nat
    OBVIOUS
  <2> HIDE DEF base, step, lower, small
  <2> QED
    BY <2>1, <2>3, <2>4, <2>5, RecursiveFunction
<1>2. ASSUME NEW n \in Nat
      PROVE  f[n] = IF n < 16 THEN <<n>> ELSE Append(f[n \div 16], n % 16)
  <2>1. n \div 16 \in Nat /\ lower[n] = n \div 16 /\ (n \in small <=> n < 16)
    OBVIOUS
  <2>2. n < 16 => base[n] = <<n>>
    BY <2>1
  <2>3. step[n][f[n \div 16]] = Append(f[n \div 16], n % 16)
    BY <2>1
  <2> QED
    BY <1>1, <2>1, <2>2, <2>3
<1>3. Q(f)
  BY <1>2
<1>4. DigitsOf = CHOOSE g : Q(g)
  BY DEF DigitsOf
<1>5. Q(DigitsOf)
  <2> HIDE DEF Q
  <2> QED
    BY <1>3, <1>4
<1>6. \A n \in Nat : DigitsOf[n] = IF n < 16 THEN <<n>> ELSE Append(DigitsOf[n \div 16], n % 16)
  BY <1>5
<1> DEFINE S == {n \in Nat : DigitsOf[n] \in Digits}
<1>7. ASSUME NEW n \in Nat, \A m \in Nat : m < n => m \in S PROVE n \in S
  <2>1. CASE n < 16
    <3>1. DigitsOf[n] = <<n>>
      BY <1>6, <2>1
    <3>2. <<n>> \in Digits
      BY <2>1 DEF Digits, Digit
    <3>3. DigitsOf[n] \in Digits
      BY <3>1, <3>2
    <3> QED
      BY <3>3
  <2>2. CASE ~(n < 16)
    <3>1. n \div 16 \in Nat /\ n \div 16 < n /\ n % 16 \in 0 .. 15
      BY <2>2
    <3>2. DigitsOf[n \div 16] \in Digits
      BY <1>7, <3>1
    <3>3. DigitsOf[n] = Append(DigitsOf[n \div 16], n % 16)
      BY <1>6, <2>2
    <3>4. DigitsOf[n] \in Digits
      BY <3>1, <3>2, <3>3 DEF Digits, Digit
    <3> QED
      BY <3>4
  <2> QED
    BY <2>1, <2>2
<1>8. Nat \subseteq S
  <2> HIDE DEF S
  <2> QED
    BY <1>7, AllNumbers
<1> QED
  BY <1>6, <1>8

\* They are of that number.
LEMMA ValueOfDigits == \A n \in Nat : Value(16, DigitsOf[n]) = n
<1> DEFINE S == {n \in Nat : Value(16, DigitsOf[n]) = n}
<1>1. ASSUME NEW n \in Nat, \A m \in Nat : m < n => m \in S PROVE n \in S
  <2>1. CASE n < 16
    <3>1. DigitsOf[n] = <<n>>
      BY <2>1, DigitsEquation
    <3>3. <<n>> = Append(<<>>, n) /\ <<>> \in Seq(Nat)
      OBVIOUS
    <3>2. Value(16, <<>>) = 0
      BY ValueOfMore
    <3>4. Value(16, Append(<<>>, n)) = 16 * Value(16, <<>>) + n
      BY <3>3, ValueOfMore
    <3>5. Value(16, DigitsOf[n]) = n
      BY <3>1, <3>2, <3>3, <3>4
    <3> QED
      BY <3>5
  <2>2. CASE ~(n < 16)
    <3> DEFINE q == n \div 16
               d == n % 16
    <3>1. q \in Nat /\ q < n /\ d \in Nat /\ n = 16 * q + d
      BY <2>2
    <3>2. DigitsOf[n] = Append(DigitsOf[q], d)
      BY <2>2, DigitsEquation
    <3>5. DigitsOf[q] \in Seq(Nat)
      <4>1. DigitsOf[q] \in Digits
        BY <3>1, DigitsEquation
      <4> QED
        BY <4>1 DEF Digits, Digit
    <3> HIDE DEF q, d
    <3>3. Value(16, DigitsOf[q]) = q
      BY <1>1, <3>1
    <3>4. Value(16, DigitsOf[n]) = 16 * q + d
      BY <3>1, <3>2, <3>3, <3>5, ValueOfMore
    <3> QED
      BY <3>1, <3>4
  <2> QED
    BY <2>1, <2>2
<1>2. Nat \subseteq S
  <2> HIDE DEF S
  <2> QED
    BY <1>1, AllNumbers
<1> QED
  BY <1>2

-----------------------------------------------------------------------------
(***************************************************************************)
(* Values of the data model: every way of making one.                      *)
(***************************************************************************)
\* What is made from base, by a step for each number up to n.
Steps(f, base, grow, n) ==
  /\ f[0] = base
  /\ \A i \in 1 .. n : f[i] = grow[i][f[i - 1]]

\* There is such a function, whatever the steps.
LEMMA StepsExist ==
  ASSUME NEW A, NEW base \in A, NEW N \in Nat, NEW grow \in [1 .. N -> [A -> A]]
  PROVE  \E f \in [0 .. N -> A] : Steps(f, base, grow, N)
<1> DEFINE Solves(f, n) == f \in [0 .. n -> A] /\ Steps(f, base, grow, n)
           S == {n \in 0 .. N : \E f : Solves(f, n)}
<1>1. 0 \in S
  <2> DEFINE f == [i \in 0 .. 0 |-> base]
  <2>1. Solves(f, 0)
    BY DEF Steps
  <2> HIDE DEF Solves, f
  <2> QED
    BY <2>1
<1>2. ASSUME NEW n \in 0 .. N - 1, n \in S PROVE n + 1 \in S
  <2>1. PICK f : Solves(f, n)
    BY <1>2
  <2>2. n + 1 \in 1 .. N /\ n + 1 \in 0 .. N /\ n \in 0 .. n
    OBVIOUS
  <2> DEFINE last == grow[n + 1][f[n]]
             g == [i \in 0 .. n + 1 |-> IF i = n + 1 THEN last ELSE f[i]]
  <2>3. last \in A
    BY <2>1, <2>2
  <2> HIDE DEF last
  <2>4. g \in [0 .. n + 1 -> A]
    BY <2>1, <2>3
  <2>5. g[0] = base
    BY <2>1 DEF Steps
  <2>6. ASSUME NEW i \in 1 .. n + 1 PROVE g[i] = grow[i][g[i - 1]]
    <3>1. g[i - 1] = f[i - 1]
      OBVIOUS
    <3>2. CASE i = n + 1
      BY <3>1, <3>2 DEF last
    <3>3. CASE i # n + 1
      <4>1. i \in 1 .. n /\ g[i] = f[i]
        BY <3>3
      <4> QED
        BY <2>1, <3>1, <4>1 DEF Steps
    <3> QED
      BY <3>2, <3>3
  <2> HIDE DEF g
  <2>7. Solves(g, n + 1)
    BY <2>4, <2>5, <2>6 DEF Steps
  <2> HIDE DEF Solves
  <2> QED
    BY <2>2, <2>7
<1>3. N \in S
  <2> HIDE DEF S
  <2>1. 0 .. N \subseteq S
    BY <1>1, <1>2, UpToAll
  <2> QED
    BY <2>1
<1> QED
  BY <1>3

\* What the first of n sequences are together, and FlattenSeq all of them.
Joins(f, seqs, n) ==
  /\ f[1] = seqs[1]
  /\ \A i \in 2 .. n : f[i] = f[i - 1] \o seqs[i]
  /\ FlattenSeq(seqs) = f[n]

\* Sequences are put together one after the other.
LEMMA FlattenEquation ==
  ASSUME NEW A, NEW N \in Nat \ {0}, NEW seqs \in [1 .. N -> Seq(A)]
  PROVE  \E f \in [1 .. N -> Seq(A)] : Joins(f, seqs, N)
<1> DEFINE All == Seq(A)
           grow == [i \in 1 .. N |-> [t \in All |-> IF i = 1 THEN seqs[i] ELSE t \o seqs[i]]]
           Q(h) == h = [i \in 1 .. N |-> IF i = 1 THEN seqs[i] ELSE h[i - 1] \o seqs[i]]
           h == CHOOSE k : Q(k)
<1>1. PICK g \in [0 .. N -> All] : Steps(g, <<>>, grow, N)
  <2>1. \A i \in 1 .. N, t \in All : seqs[i] \in All /\ t \o seqs[i] \in All
    OBVIOUS
  <2>2. <<>> \in All
    OBVIOUS
  <2> HIDE DEF All
  <2>3. grow \in [1 .. N -> [All -> All]]
    BY <2>1
  <2> HIDE DEF grow
  <2> QED
    BY <2>2, <2>3, StepsExist
<1> DEFINE f == [i \in 1 .. N |-> g[i]]
<1>2. f \in [1 .. N -> All]
  <2> HIDE DEF All
  <2> QED
    BY <1>1
<1>3. \A i \in 1 .. N : f[i] = IF i = 1 THEN seqs[i] ELSE f[i - 1] \o seqs[i]
  <2> TAKE i \in 1 .. N
  <2>1. g[i - 1] \in All /\ f[i] = g[i] /\ (i # 1 => f[i - 1] = g[i - 1])
    <3> HIDE DEF All
    <3> QED
      BY <1>1
  <2>2. g[i] = grow[i][g[i - 1]]
    BY <1>1 DEF Steps
  <2> HIDE DEF All, f
  <2>3. grow[i][g[i - 1]] = IF i = 1 THEN seqs[i] ELSE g[i - 1] \o seqs[i]
    BY <2>1
  <2> QED
    BY <2>1, <2>2, <2>3
<1>4. Q(f)
  <2>1. f = [i \in 1 .. N |-> f[i]]
    OBVIOUS
  <2> HIDE DEF f
  <2> QED
    BY <1>3, <2>1
<1>5. Q(h)
  <2> HIDE DEF Q
  <2> QED
    BY <1>4
<1>6. Len(seqs) = N
  OBVIOUS
<1>7. FlattenSeq(seqs) = h[N]
  BY <1>6 DEF FlattenSeq
<1> HIDE DEF h, f
<1>8. DOMAIN h = 1 .. N /\ \A i \in 1 .. N : h[i] = IF i = 1 THEN seqs[i] ELSE h[i - 1] \o seqs[i]
  BY <1>5
<1> DEFINE T == {n \in 0 .. N : n = 0 \/ h[n] = f[n]}
<1>9. ASSUME NEW n \in 0 .. N - 1, n \in T PROVE n + 1 \in T
  <2>1. n + 1 \in 1 .. N /\ (n + 1) - 1 = n /\ n + 1 \in 0 .. N
    OBVIOUS
  <2>2. /\ h[n + 1] = IF n + 1 = 1 THEN seqs[n + 1] ELSE h[n] \o seqs[n + 1]
        /\ f[n + 1] = IF n + 1 = 1 THEN seqs[n + 1] ELSE f[n] \o seqs[n + 1]
    BY <1>3, <1>8, <2>1
  <2>3. h[n + 1] = f[n + 1]
    BY <1>9, <2>1, <2>2
  <2> QED
    BY <2>1, <2>3
<1>10. 0 .. N \subseteq T
  <2>1. 0 \in T
    OBVIOUS
  <2> HIDE DEF T
  <2> QED
    BY <1>9, <2>1, UpToAll
<1>11. h[N] = f[N]
  BY <1>10
<1>12. f \in [1 .. N -> Seq(A)]
  BY <1>2
<1>13. f[1] = seqs[1] /\ \A i \in 2 .. N : f[i] = f[i - 1] \o seqs[i]
  <2>1. f[1] = IF 1 = 1 THEN seqs[1] ELSE f[1 - 1] \o seqs[1]
    BY <1>3
  <2>2. ASSUME NEW i \in 2 .. N PROVE f[i] = f[i - 1] \o seqs[i]
    <3>1. i \in 1 .. N /\ i # 1
      OBVIOUS
    <3> QED
      BY <1>3, <3>1
  <2> QED
    BY <2>1, <2>2
<1>14. Joins(f, seqs, N)
  <2> HIDE DEF Q
  <2> QED
    BY <1>7, <1>11, <1>13 DEF Joins
<1> QED
  BY <1>12, <1>14

Octet == 0 .. 255

\* A byte is of two digits.
LEMMA TwoDigits ==
  ASSUME NEW b \in Octet
  PROVE  /\ b \div 16 \in Digit /\ b % 16 \in Digit
         /\ b = 16 * (b \div 16) + (b % 16)
<1>1. b \in Nat /\ b <= 255
  BY DEF Octet
<1>2. b \div 16 \in Nat /\ b % 16 \in Digit /\ b = 16 * (b \div 16) + (b % 16)
  BY <1>1, Z3 DEF Digit
<1>3. b \div 16 <= 15
  BY <1>1, <1>2 DEF Digit
<1> QED
  BY <1>2, <1>3 DEF Digit

\* Of a sequence.
LEMMA SequenceIs ==
  ASSUME NEW A, NEW s \in Seq(A)
  PROVE  Len(s) \in Nat /\ DOMAIN s = 1 .. Len(s) /\ \A i \in 1 .. Len(s) : s[i] \in A
OBVIOUS

LEMMA SequenceOver ==
  ASSUME NEW A, NEW B, A \subseteq B, NEW s \in Seq(A)
  PROVE  s \in Seq(B)
<1>1. Len(s) \in Nat /\ s = [i \in 1 .. Len(s) |-> s[i]] /\ \A i \in 1 .. Len(s) : s[i] \in B
  OBVIOUS
<1> QED
  BY <1>1

\* Two more digits.
LEMMA ValueOfTwoMore ==
  ASSUME NEW s \in Digits, NEW a \in Digit, NEW b \in Digit
  PROVE  Value(16, s \o <<a, b>>) = 256 * Value(16, s) + (16 * a + b)
<1>1. s \in Seq(Nat) /\ a \in Nat /\ b \in Nat
  <2>1. Digit \subseteq Nat
    BY DEF Digit
  <2> QED
    BY <2>1, SequenceOver DEF Digits
<1>2. s \o <<a, b>> = Append(Append(s, a), b) /\ Append(s, a) \in Seq(Nat)
  BY <1>1
<1>3. Value(16, Append(s, a)) = 16 * Value(16, s) + a
  BY <1>1, ValueOfMore
<1>4. Value(16, Append(Append(s, a), b)) = 16 * Value(16, Append(s, a)) + b
  BY <1>1, <1>2, ValueOfMore
<1>5. Value(16, s) \in Nat
  BY <1>1, ValueIsNumber
<1>6. \A n \in Nat : 16 * (16 * n + a) + b = 256 * n + (16 * a + b)
  BY <1>1
<1> QED
  BY <1>2, <1>3, <1>4, <1>5, <1>6

\* The digits of bytes, two of each, are of the same number.
LEMMA ValueOfPairs ==
  ASSUME NEW bytes \in Seq(Octet)
  PROVE  LET digits == FlattenSeq([i \in DOMAIN bytes |-> <<bytes[i] \div 16, bytes[i] % 16>>])
         IN  digits \in Digits /\ Value(16, digits) = Value(256, bytes)
<1> DEFINE N == Len(bytes)
           pairs == [i \in DOMAIN bytes |-> <<bytes[i] \div 16, bytes[i] % 16>>]
<1>0. bytes \in Seq(Nat)
  <2>1. Octet \subseteq Nat
    BY DEF Octet
  <2> QED
    BY <2>1, SequenceOver
<1>1. N \in Nat /\ DOMAIN bytes = 1 .. N /\ \A i \in 1 .. N : bytes[i] \in Octet
  <2>1. \A i \in 1 .. Len(bytes) : bytes[i] \in Octet
    BY SequenceIs
  <2> QED
    BY <2>1
<1>2. ASSUME NEW i \in 1 .. N
      PROVE  \E a \in Digit, b \in Digit : pairs[i] = <<a, b>> /\ bytes[i] = 16 * a + b
  <2>1. pairs[i] = <<bytes[i] \div 16, bytes[i] % 16>>
    BY <1>1
  <2> HIDE DEF pairs, N
  <2> QED
    BY <1>1, <2>1, TwoDigits
<1>3. pairs \in [1 .. N -> Digits] /\ Len(pairs) = N
  <2>1. \A i \in 1 .. N : pairs[i] \in Digits
    <3> TAKE i \in 1 .. N
    <3>1. PICK a \in Digit, b \in Digit : pairs[i] = <<a, b>>
      BY <1>2
    <3> HIDE DEF pairs, N
    <3> QED
      BY <3>1 DEF Digits
  <2>2. pairs = [i \in 1 .. N |-> pairs[i]]
    BY <1>1
  <2> HIDE DEF pairs, N
  <2> QED
    BY <1>1, <2>1, <2>2
<1>4. PICK v \in [0 .. N -> Nat] : Values(v, 256, bytes) /\ Value(256, bytes) = v[N]
  BY <1>0, ValueEquation
<1>5. /\ v[0] = 0
      /\ \A i \in 1 .. N : v[i] = 256 * v[i - 1] + bytes[i]
  BY <1>4 DEF Values
<1> HIDE DEF pairs, N
<1>6. CASE N = 0
  <2>1. FlattenSeq(pairs) = <<>>
    BY <1>3, <1>6 DEF FlattenSeq
  <2>2. <<>> \in Digits /\ Value(16, <<>>) = 0
    BY ValueOfMore DEF Digits
  <2> QED
    BY <1>4, <1>5, <1>6, <2>1, <2>2 DEF pairs
<1>7. CASE N # 0
  <2>1. PICK f \in [1 .. N -> Digits] : Joins(f, pairs, N)
    <3>1. N \in Nat \ {0}
      BY <1>1, <1>7
    <3> QED
      BY <1>3, <3>1, FlattenEquation DEF Digits
  <2>2. /\ f[1] = pairs[1] /\ FlattenSeq(pairs) = f[N]
        /\ \A i \in 2 .. N : f[i] = f[i - 1] \o pairs[i]
    BY <2>1 DEF Joins
  <2> DEFINE S == {n \in 0 .. N : n = 0 \/ Value(16, f[n]) = v[n]}
  <2>3. ASSUME NEW n \in 0 .. N - 1, n \in S PROVE n + 1 \in S
    <3>1. n + 1 \in 1 .. N /\ (n + 1) - 1 = n /\ n + 1 \in 0 .. N
      BY <1>1
    <3>2. PICK a \in Digit, b \in Digit : pairs[n + 1] = <<a, b>> /\ bytes[n + 1] = 16 * a + b
      BY <1>2, <3>1
    <3>3. v[n + 1] = 256 * v[n] + (16 * a + b)
      BY <1>5, <3>1, <3>2
    <3>4. CASE n = 0
      <4>1. <<>> \in Digits /\ <<>> \o <<a, b>> = <<a, b>>
        BY DEF Digits
      <4>4. Value(16, <<>> \o <<a, b>>) = 256 * Value(16, <<>>) + (16 * a + b)
        <5>1. PICK none : none = <<>>
          OBVIOUS
        <5>2. none \in Digits
          BY <4>1, <5>1
        <5>3. Value(16, none \o <<a, b>>) = 256 * Value(16, none) + (16 * a + b)
          BY <5>2, ValueOfTwoMore
        <5> QED
          BY <5>1, <5>3
      <4>5. Value(16, <<>>) = 0
        BY ValueOfMore
      <4>2. Value(16, <<a, b>>) = 256 * 0 + (16 * a + b)
        BY <4>1, <4>4, <4>5
      <4>3. Value(16, f[n + 1]) = v[n + 1]
        BY <1>5, <2>2, <3>2, <3>3, <3>4, <4>2
      <4> QED
        BY <3>1, <4>3
    <3>5. CASE n # 0
      <4>1. n + 1 \in 2 .. N /\ n \in 1 .. N
        BY <1>1, <3>5
      <4>2. f[n + 1] = f[n] \o <<a, b>>
        BY <2>2, <3>1, <3>2, <4>1
      <4>3. f[n] \in Digits /\ Value(16, f[n]) = v[n]
        BY <2>1, <2>3, <3>5, <4>1
      <4>5. Value(16, f[n] \o <<a, b>>) = 256 * Value(16, f[n]) + (16 * a + b)
        BY <4>3, ValueOfTwoMore
      <4>4. Value(16, f[n + 1]) = v[n + 1]
        BY <3>3, <4>2, <4>3, <4>5
      <4> QED
        BY <3>1, <4>4
    <3> QED
      BY <3>4, <3>5
  <2>4. 0 .. N \subseteq S
    <3>1. 0 \in S
      BY <1>1
    <3> HIDE DEF S
    <3> QED
      BY <1>1, <2>3, <3>1, UpToAll
  <2>5. Value(16, f[N]) = v[N] /\ f[N] \in Digits
    BY <1>1, <1>7, <2>1, <2>4
  <2> QED
    BY <1>4, <2>2, <2>5 DEF pairs
<1> QED
  BY <1>6, <1>7

-----------------------------------------------------------------------------
\* An unsigned value stands for a number.
Stands(hex, n) == \E digits \in Digits : hex = Hex(1, digits) /\ Value(16, digits) = n

\* Its parts.
LEMMA StandsFor ==
  ASSUME NEW hex, NEW n, Stands(hex, n)
  PROVE  /\ hex.sign = 1 /\ hex.digits \in Digits /\ hex.digits \in Seq(Nat)
         /\ hex = Hex(1, hex.digits) /\ hex # Thrown
         /\ Value(16, hex.digits) = n /\ n \in Nat /\ Bi(hex) = n
<1>1. PICK digits \in Digits : hex = Hex(1, digits) /\ Value(16, digits) = n
  BY DEF Stands
<1>2. digits \in Seq(Nat)
  <2>1. Digit \subseteq Nat
    BY DEF Digit
  <2> QED
    BY <2>1, SequenceOver DEF Digits
<1>3. n \in Nat
  BY <1>1, <1>2, ValueIsNumber
<1>4. hex.sign = 1 /\ hex.digits = digits
  BY <1>1 DEF Hex
<1>5. hex # Thrown
  BY <1>1 DEF Hex, Thrown
<1>6. Bi(hex) = n
  BY <1>1, <1>3, <1>4 DEF Bi
<1> QED
  BY <1>1, <1>2, <1>3, <1>4, <1>5, <1>6

\* Zeros are digits.
LEMMA ZerosAreDigits ==
  ASSUME NEW k \in Nat, NEW digits \in Digits
  PROVE  Zeros(k) \o digits \in Digits
<1>1. Zeros(k) \in Digits
  BY DEF Zeros, Digits, Digit
<1> QED
  BY <1>1 DEF Digits

\* The rest of a sequence.
LEMMA RestOf ==
  ASSUME NEW A, NEW s \in Seq(A), NEW k \in 0 .. Len(s)
  PROVE  /\ Len(SubSeq(s, k + 1, Len(s))) = Len(s) - k
         /\ \A i \in 1 .. Len(s) - k : SubSeq(s, k + 1, Len(s))[i] = s[k + i]
<1>1. Len(s) \in Nat /\ k \in Nat /\ k <= Len(s)
  OBVIOUS
<1>2. CASE k = Len(s)
  BY <1>1, <1>2
<1>3. CASE k < Len(s)
  <2>1. Len(SubSeq(s, k + 1, Len(s))) = Len(s) - k
    BY <1>1, <1>3
  <2>2. ASSUME NEW i \in 1 .. Len(s) - k PROVE SubSeq(s, k + 1, Len(s))[i] = s[k + i]
    BY <1>1, <1>3
  <2> QED
    BY <2>1, <2>2
<1> QED
  BY <1>1, <1>2, <1>3

\* Leading zeros may be taken away.
LEMMA ValueWithoutZeros ==
  ASSUME NEW digits \in Digits, NEW k \in 0 .. Len(digits), \A i \in 1 .. k : digits[i] = 0
  PROVE  LET rest == SubSeq(digits, k + 1, Len(digits))
         IN  rest \in Digits /\ Len(rest) = Len(digits) - k /\ Value(16, rest) = Value(16, digits)
<1> DEFINE N == Len(digits)
           rest == SubSeq(digits, k + 1, N)
           all == Zeros(k) \o rest
<1>1. /\ N \in Nat /\ k \in Nat /\ k <= N
      /\ DOMAIN digits = 1 .. N /\ \A i \in 1 .. N : digits[i] \in Digit
  <2>1. \A i \in 1 .. Len(digits) : digits[i] \in Digit
    BY SequenceIs DEF Digits
  <2> QED
    BY <2>1 DEF Digits
<1>2. Len(rest) = N - k /\ \A i \in 1 .. N - k : rest[i] = digits[k + i]
  BY RestOf DEF Digits
<1>3. rest \in Digits
  <2>1. rest = [i \in 1 .. N - k |-> digits[k + i]]
    BY <1>1
  <2>2. \A i \in 1 .. N - k : k + i \in 1 .. N
    BY <1>1
  <2> HIDE DEF rest, N
  <2> QED
    BY <1>1, <2>1, <2>2 DEF Digits
<1>4. rest \in Seq(Nat)
  <2>1. Digit \subseteq Nat
    BY DEF Digit
  <2> HIDE DEF rest
  <2> QED
    BY <1>3, <2>1, SequenceOver DEF Digits
<1>5. all = digits
  <2>1. Zeros(k) \in Seq(Nat) /\ Len(Zeros(k)) = k /\ \A i \in 1 .. k : Zeros(k)[i] = 0
    BY DEF Zeros
  <2> HIDE DEF rest, N
  <2>2. all \in Seq(Nat) /\ Len(all) = N
    <3>1. Len(all) = k + Len(rest) /\ all \in Seq(Nat)
      BY <1>4, <2>1
    <3> QED
      BY <1>1, <1>2, <3>1
  <2>3. ASSUME NEW i \in 1 .. N PROVE all[i] = digits[i]
    <3>1. CASE i <= k
      <4>1. all[i] = Zeros(k)[i]
        BY <1>1, <1>2, <1>4, <2>1, <3>1
      <4> QED
        BY <1>1, <2>1, <3>1, <4>1
    <3>2. CASE i > k
      <4>1. all[i] = rest[i - k] /\ i - k \in 1 .. N - k
        BY <1>1, <1>2, <1>4, <2>1, <3>2
      <4>2. rest[i - k] = digits[k + (i - k)] /\ k + (i - k) = i
        BY <1>1, <1>2, <3>2, <4>1
      <4> QED
        BY <4>1, <4>2
    <3>3. i <= k \/ i > k
      BY <1>1
    <3> HIDE DEF all
    <3> QED
      BY <3>1, <3>2, <3>3
  <2>4. digits \in Seq(Digit)
    BY DEF Digits
  <2> HIDE DEF all
  <2> QED
    BY <2>2, <2>3, <2>4 DEF N
<1>6. Value(16, all) = Value(16, rest)
  <2> HIDE DEF rest
  <2> QED
    BY <1>4, ValueAfterZeros
<1> HIDE DEF all
<1> QED
  BY <1>2, <1>3, <1>5, <1>6

\* A value that is fitted stands for what it did.
LEMMA FitStands ==
  ASSUME NEW hex, NEW n, Stands(hex, n), NEW k \in Nat
  PROVE  /\ Fit(hex, k) # Thrown => Stands(Fit(hex, k), n) /\ Len(Fit(hex, k).digits) = k
         /\ k >= Len(hex.digits) => Fit(hex, k) # Thrown
<1> DEFINE d == hex.digits
           N == Len(d)
<1>1. d \in Digits /\ d \in Seq(Nat) /\ Value(16, d) = n /\ hex.sign = 1
  BY StandsFor
<1>2. N \in Nat
  BY <1>1
<1>3. CASE N - k <= 0
  <2>1. Fit(hex, k) = Hex(1, Zeros(k - N) \o d)
    <3>1. -(N - k) = k - N
      BY <1>2
    <3> QED
      BY <1>1, <1>3, <3>1 DEF Fit
  <2> HIDE DEF d
  <2>2. k - N \in Nat
    BY <1>2, <1>3
  <2>3. /\ Zeros(k - N) \o d \in Digits /\ Value(16, Zeros(k - N) \o d) = n
        /\ Len(Zeros(k - N) \o d) = (k - N) + N
    BY <1>1, <2>2, ValueAfterZeros, ZerosAreDigits
  <2>4. Stands(Fit(hex, k), n)
    BY <2>1, <2>3 DEF Stands
  <2>5. Len(Fit(hex, k).digits) = k
    BY <1>2, <2>1, <2>3 DEF Hex
  <2> QED
    BY <2>4, <2>5, StandsFor
<1>4. CASE ~(N - k <= 0)
  <2>1. CASE \A i \in 1 .. N - k : d[i] = 0
    <3> DEFINE rest == SubSeq(d, (N - k) + 1, N)
    <3>1. Fit(hex, k) = Hex(1, rest)
      BY <1>1, <1>4, <2>1 DEF Fit
    <3>2. N - k \in 0 .. N
      BY <1>2, <1>4
    <3>3. rest \in Digits /\ Len(rest) = N - (N - k) /\ Value(16, rest) = n
      <4> HIDE DEF d
      <4> QED
        BY <1>1, <2>1, <3>2, ValueWithoutZeros
    <3> HIDE DEF rest, d
    <3>4. Stands(Fit(hex, k), n) /\ Len(Fit(hex, k).digits) = k
      BY <1>2, <3>1, <3>3 DEF Stands, Hex
    <3> QED
      BY <1>2, <1>4, <3>4 DEF d
  <2>2. CASE ~ \A i \in 1 .. N - k : d[i] = 0
    <3>1. Fit(hex, k) = Thrown
      BY <1>4, <2>2 DEF Fit
    <3> QED
      BY <1>2, <1>4, <3>1
  <2> QED
    BY <2>1, <2>2
<1> QED
  BY <1>3, <1>4

\* One that is aligned to bytes.
LEMMA AlignStands ==
  ASSUME NEW hex, NEW n, Stands(hex, n)
  PROVE  /\ Stands(AlignToBytes(hex), n)
         /\ Len(AlignToBytes(hex).digits) = IF Len(hex.digits) % 2 = 0 THEN Len(hex.digits)
                                            ELSE Len(hex.digits) + 1
<1> DEFINE d == hex.digits
<1>1. d \in Digits /\ d \in Seq(Nat) /\ Value(16, d) = n /\ hex.sign = 1 /\ Len(d) \in Nat
  BY StandsFor
<1>2. CASE Len(d) % 2 = 0
  BY <1>2 DEF AlignToBytes
<1>3. CASE Len(d) % 2 # 0
  <2>1. AlignToBytes(hex) = Hex(1, <<0>> \o d)
    BY <1>1, <1>3 DEF AlignToBytes
  <2>2. Zeros(1) = <<0>>
    <3>1. Zeros(1) \in Seq({0}) /\ Len(Zeros(1)) = 1 /\ Zeros(1)[1] = 0
      BY DEF Zeros
    <3> QED
      BY <3>1
  <2> HIDE DEF d
  <2>3. <<0>> \o d \in Digits /\ Value(16, <<0>> \o d) = n /\ Len(<<0>> \o d) = 1 + Len(d)
    <3>1. /\ Zeros(1) \o d \in Digits /\ Value(16, Zeros(1) \o d) = n
          /\ Len(Zeros(1) \o d) = 1 + Len(d)
      BY <1>1, ValueAfterZeros, ZerosAreDigits
    <3> QED
      BY <2>2, <3>1
  <2>4. Stands(AlignToBytes(hex), n)
    BY <2>1, <2>3 DEF Stands
  <2>5. Len(AlignToBytes(hex).digits) = Len(d) + 1
    BY <1>1, <2>1, <2>3 DEF Hex
  <2> QED
    BY <1>3, <2>4, <2>5 DEF d
<1> QED
  BY <1>2, <1>3

\* The values that are made of an expression.
LEMMA BytesGiven ==
  ASSUME NEW bytes \in Seq(0 .. 255)
  PROVE  Stands(OfBytes(bytes), Value(256, bytes))
BY ValueOfPairs DEF OfBytes, Stands, Octet

LEMMA BigGiven ==
  ASSUME NEW n \in Nat
  PROVE  Stands(OfBigInt(n), n)
<1>1. OfBigInt(n) = Hex(1, DigitsOf[n])
  BY DEF OfBigInt
<1>2. DigitsOf[n] \in Digits /\ Value(16, DigitsOf[n]) = n
  BY DigitsEquation, ValueOfDigits
<1> QED
  BY <1>1, <1>2 DEF Stands

\* A negative one makes no unsigned value.
LEMMA NegativeGiven ==
  ASSUME NEW n \in Int, n < 0
  PROVE  OfBigInt(n).sign = -1
BY DEF OfBigInt, Hex

\* An expression makes an unsigned value of the number it is, if any.
LEMMA GivenStands ==
  ASSUME NEW exp \in Expressions, HexUIntOf(exp) # Thrown
  PROVE  Stands(HexUIntOf(exp), ValueOf(exp)) /\ HexIntOf(exp) = HexUIntOf(exp)
<1>1. HexUIntOf(exp) = HexIntOf(exp) /\ HexIntOf(exp) # Thrown /\ HexIntOf(exp).sign >= 1
  BY DEF HexUIntOf
<1>2. \/ exp \in [minus : BOOLEAN, prefix : BOOLEAN, chars : Seq(0 .. 16)]
      \/ exp \in [bytes : Seq(0 .. 255)]
      \/ exp \in [big : Int]
      \/ exp \in [halves : Int]
  BY VcdmAssumption
<1>3. CASE exp \in [minus : BOOLEAN, prefix : BOOLEAN, chars : Seq(0 .. 16)]
  <2>1. "chars" \in DOMAIN exp /\ exp.chars \in Seq(0 .. 16) /\ exp.minus \in BOOLEAN
    BY <1>3
  <2>2. /\ HexIntOf(exp) = OfText(exp)
        /\ ValueOf(exp) = Bi(Hex(IF exp.minus THEN -1 ELSE 1, exp.chars))
    BY <2>1 DEF HexIntOf, ValueOf
  <2>3. IsHex(exp) /\ HexIntOf(exp) = Hex(IF exp.minus THEN -1 ELSE 1, exp.chars)
    BY <1>1, <2>2 DEF OfText
  <2>4. ~exp.minus
    BY <1>1, <2>3 DEF Hex
  <2>5. exp.chars \in Digits
    <3>1. \A i \in 1 .. Len(exp.chars) : exp.chars[i] \in Digit
      BY <2>1, <2>3 DEF IsHex, ToSet, Digit
    <3>2. Len(exp.chars) \in Nat /\ exp.chars = [i \in 1 .. Len(exp.chars) |-> exp.chars[i]]
      BY <2>1
    <3> QED
      BY <3>1, <3>2 DEF Digits
  <2>6. Value(16, exp.chars) \in Nat
    <3>1. Stands(Hex(1, exp.chars), Value(16, exp.chars))
      BY <2>5 DEF Stands
    <3> QED
      BY <3>1, StandsFor
  <2>7. ValueOf(exp) = Value(16, exp.chars)
    BY <2>2, <2>4, <2>6 DEF Bi, Hex
  <2> QED
    BY <1>1, <2>3, <2>4, <2>5, <2>7 DEF Stands
<1>4. CASE exp \in [bytes : Seq(0 .. 255)]
  <2>1. "chars" \notin DOMAIN exp /\ "bytes" \in DOMAIN exp /\ exp.bytes \in Seq(0 .. 255)
    BY <1>4
  <2>2. HexIntOf(exp) = OfBytes(exp.bytes) /\ ValueOf(exp) = Value(256, exp.bytes)
    BY <2>1 DEF HexIntOf, ValueOf
  <2> QED
    BY <1>1, <2>1, <2>2, BytesGiven
<1>5. CASE exp \in [big : Int]
  <2>1. /\ "chars" \notin DOMAIN exp /\ "bytes" \notin DOMAIN exp
        /\ "big" \in DOMAIN exp /\ exp.big \in Int
    BY <1>5
  <2>2. HexIntOf(exp) = OfBigInt(exp.big) /\ ValueOf(exp) = exp.big
    BY <2>1 DEF HexIntOf, ValueOf
  <2>3. exp.big \in Nat
    BY <1>1, <2>1, <2>2, NegativeGiven
  <2> QED
    BY <1>1, <2>2, <2>3, BigGiven
<1>6. CASE exp \in [halves : Int]
  <2>1. /\ "chars" \notin DOMAIN exp /\ "bytes" \notin DOMAIN exp /\ "big" \notin DOMAIN exp
        /\ exp.halves \in Int
    BY <1>6
  <2>2. HexIntOf(exp) = OfBigInt(exp.halves \div 2) /\ ValueOf(exp) = exp.halves \div 2
    BY <1>1, <2>1 DEF HexIntOf, ValueOf
  <2>3. exp.halves \div 2 \in Int
    BY <2>1
  <2>4. exp.halves \div 2 \in Nat
    BY <1>1, <2>2, <2>3, NegativeGiven
  <2> QED
    BY <1>1, <2>2, <2>4, BigGiven
<1> QED
  BY <1>2, <1>3, <1>4, <1>5, <1>6

\* The first digit that is not zero, if there is one.
LEMMA FirstDigit ==
  ASSUME NEW s, Len(s) \in Nat
  PROVE  LET first == SelectInSeq(s, LAMBDA d : d # 0)
         IN  \/ first = 0 /\ \A i \in 1 .. Len(s) : s[i] = 0
             \/ /\ first \in 1 .. Len(s) /\ s[first] # 0
                /\ \A i \in 1 .. first - 1 : s[i] = 0
<1> DEFINE I == {i \in 1 .. Len(s) : s[i] # 0}
           first == SelectInSeq(s, LAMBDA d : d # 0)
<1>1. first = IF I # {} THEN Min(I) ELSE 0
  BY DEF SelectInSeq
<1>2. CASE I = {}
  BY <1>1, <1>2
<1>3. CASE I # {}
  <2>1. I \in SUBSET Nat
    OBVIOUS
  <2>2. PICK m \in I : \A i \in I : m <= i
    <3> HIDE DEF I
    <3> QED
      BY <1>3, <2>1, LeastNumber
  <2>3. Min(I) \in I /\ \A i \in I : Min(I) <= i
    <3> HIDE DEF I
    <3> QED
      BY <2>2 DEF Min
  <2>4. first \in I /\ \A i \in I : first <= i
    BY <1>1, <1>3, <2>3
  <2> HIDE DEF first
  <2>5. \A i \in 1 .. first - 1 : i \in 1 .. Len(s) /\ i \notin I
    BY <2>4
  <2> QED
    BY <2>4, <2>5 DEF first
<1> QED
  BY <1>2, <1>3

\* A quantity.
LEMMA QuantityStands ==
  ASSUME NEW n \in Nat
  PROVE  Stands(QuantityOf(n), n)
<1> DEFINE huint == HexUIntOf([big |-> n])
           d == huint.digits
           first == SelectInSeq(d, LAMBDA x : x # 0)
<1>1. huint = OfBigInt(n) /\ Stands(huint, n)
  <2>1. HexIntOf([big |-> n]) = OfBigInt(n)
    BY DEF HexIntOf
  <2>2. Stands(OfBigInt(n), n) /\ OfBigInt(n) # Thrown /\ OfBigInt(n).sign = 1
    BY BigGiven, StandsFor
  <2> QED
    BY <2>1, <2>2 DEF HexUIntOf
<1>2. huint # Thrown /\ huint.sign = 1 /\ d \in Digits /\ d \in Seq(Nat) /\ Value(16, d) = n
  BY <1>1, StandsFor
<1>3. QuantityOf(n) = Hex(1, IF first = 0 THEN <<0>> ELSE SubSeq(d, first, Len(d)))
  BY <1>2 DEF QuantityOf
<1>4. Len(d) \in Nat
  BY <1>2
<1>5. \/ first = 0 /\ \A i \in 1 .. Len(d) : d[i] = 0
      \/ /\ first \in 1 .. Len(d) /\ d[first] # 0
         /\ \A i \in 1 .. first - 1 : d[i] = 0
  <2> HIDE DEF d
  <2> QED
    BY <1>4, FirstDigit
<1> HIDE DEF first, d
<1>6. CASE first = 0
  <2>1. Value(16, SubSeq(d, Len(d) + 1, Len(d))) = n
    <3>1. Len(d) \in 0 .. Len(d) /\ \A i \in 1 .. Len(d) : d[i] = 0
      BY <1>4, <1>5, <1>6
    <3> QED
      BY <1>2, <3>1, ValueWithoutZeros
  <2>2. SubSeq(d, Len(d) + 1, Len(d)) = <<>>
    <3> DEFINE rest == SubSeq(d, Len(d) + 1, Len(d))
    <3>1. Len(d) \in 0 .. Len(d) /\ \A i \in 1 .. Len(d) : d[i] = 0
      BY <1>4, <1>5, <1>6
    <3>2. rest \in Digits /\ Len(rest) = Len(d) - Len(d)
      BY <1>2, <3>1, ValueWithoutZeros
    <3> HIDE DEF rest
    <3>3. rest \in Seq(Digit) /\ Len(rest) = 0
      BY <1>4, <3>2 DEF Digits
    <3>4. rest = <<>>
      BY <3>3
    <3> QED
      BY <3>4 DEF rest
  <2>3. n = 0
    <3>1. Value(16, <<>>) = 0
      BY ValueOfMore
    <3> QED
      BY <2>1, <2>2, <3>1
  <2>4. <<0>> \in Digits /\ Value(16, <<0>>) = 0
    <3>1. DigitsOf[0] = <<0>>
      <4>1. 0 \in Nat /\ 0 < 16
        OBVIOUS
      <4> QED
        BY <4>1, DigitsEquation
    <3> QED
      BY <3>1, DigitsEquation, ValueOfDigits
  <2> QED
    BY <1>3, <1>6, <2>3, <2>4 DEF Stands
<1>7. CASE first # 0
  <2>1. first - 1 \in 0 .. Len(d) /\ (first - 1) + 1 = first
    BY <1>4, <1>5, <1>7
  <2>2. SubSeq(d, first, Len(d)) \in Digits /\ Value(16, SubSeq(d, first, Len(d))) = n
    BY <1>2, <1>5, <1>7, <2>1, ValueWithoutZeros
  <2> QED
    BY <1>3, <1>7, <2>2 DEF Stands
<1> QED
  BY <1>6, <1>7

\* The bytes of a value are of the same number.
LEMMA BytesStand ==
  ASSUME NEW hex, NEW n, Stands(hex, n)
  PROVE  /\ Bytes(hex) \in Seq(Octet) /\ Value(256, Bytes(hex)) = n
         /\ Len(Bytes(hex)) = Len(AlignToBytes(hex).digits) \div 2
<1> DEFINE d == AlignToBytes(hex).digits
           N == Len(d)
           L == N \div 2
           bytes == Bytes(hex)
<1>1. /\ Stands(AlignToBytes(hex), n)
      /\ N = IF Len(hex.digits) % 2 = 0 THEN Len(hex.digits) ELSE Len(hex.digits) + 1
  BY AlignStands
<1>2. d \in Digits /\ d \in Seq(Nat) /\ Value(16, d) = n
  BY <1>1, StandsFor
<1>3. Len(hex.digits) \in Nat
  <2>1. hex.digits \in Seq(Nat)
    BY StandsFor
  <2> QED
    BY <2>1
<1>4. N \in Nat /\ N % 2 = 0
  <2>1. \A m \in Nat : m % 2 # 0 => (m + 1) % 2 = 0
    BY Z3
  <2> DEFINE m == Len(hex.digits)
  <2>2. m \in Nat /\ N = IF m % 2 = 0 THEN m ELSE m + 1
    BY <1>1, <1>3
  <2> HIDE DEF N, m
  <2>3. CASE m % 2 = 0
    BY <2>2, <2>3
  <2>4. CASE m % 2 # 0
    <3>1. N = m + 1 /\ (m + 1) % 2 = 0
      BY <2>1, <2>2, <2>4
    <3> QED
      BY <2>2, <3>1
  <2> QED
    BY <2>3, <2>4
<1>5. L \in Nat /\ N = 2 * L
  <2> HIDE DEF N
  <2>1. N = 2 * (N \div 2) + (N % 2) /\ N \div 2 \in Nat
    BY <1>4, Z3
  <2> QED
    BY <1>4, <2>1
<1>6. bytes = [i \in 1 .. L |-> 16 * d[2 * i - 1] + d[2 * i]]
  BY DEF Bytes
<1>7. PICK v \in [0 .. N -> Nat] : Values(v, 16, d) /\ Value(16, d) = v[N]
  BY <1>2, ValueEquation
<1>8. v[0] = 0 /\ \A i \in 1 .. N : v[i] = 16 * v[i - 1] + d[i]
  BY <1>7 DEF Values
<1>9. \A i \in 1 .. N : d[i] \in Digit
  <2>1. \A i \in 1 .. Len(d) : d[i] \in Digit
    BY <1>2, SequenceIs DEF Digits
  <2> QED
    BY <2>1
<1> HIDE DEF d, N, L, bytes
<1>10. \A a \in Digit, b \in Digit : 16 * a + b \in Octet /\ 16 * a + b \in Nat
  BY DEF Digit, Octet
<1>11. \A i \in 1 .. L : /\ 2 * i \in 1 .. N /\ 2 * i - 1 \in 1 .. N /\ 2 * (i - 1) \in 0 .. N
                         /\ (2 * i - 1) - 1 = 2 * (i - 1)
  BY <1>4, <1>5
<1>12. bytes \in Seq(Octet) /\ bytes \in Seq(Nat) /\ Len(bytes) = L
  <2>1. \A i \in 1 .. L : 16 * d[2 * i - 1] + d[2 * i] \in Octet
    BY <1>9, <1>10, <1>11
  <2>2. bytes \in Seq(Octet) /\ Len(bytes) = L
    BY <1>5, <1>6, <2>1
  <2>3. Octet \subseteq Nat
    BY DEF Octet
  <2> QED
    BY <2>2, <2>3, SequenceOver
<1> DEFINE w == [i \in 0 .. L |-> v[2 * i]]
<1>13. w[0] = 0
  BY <1>5, <1>8
<1>14. ASSUME NEW i \in 1 .. L PROVE w[i] = 256 * w[i - 1] + bytes[i]
  <2>1. w[i] = v[2 * i] /\ w[i - 1] = v[2 * (i - 1)] /\ bytes[i] = 16 * d[2 * i - 1] + d[2 * i]
    BY <1>5, <1>6
  <2>2. v[2 * i] = 16 * v[2 * i - 1] + d[2 * i] /\ v[2 * i - 1] = 16 * v[2 * (i - 1)] + d[2 * i - 1]
    BY <1>8, <1>11
  <2>3. v[2 * (i - 1)] \in Nat /\ d[2 * i] \in Nat /\ d[2 * i - 1] \in Nat
    <3>1. Digit \subseteq Nat
      BY DEF Digit
    <3> QED
      BY <1>7, <1>9, <1>11, <3>1
  <2>4. \A x, a, b \in Nat : 16 * (16 * x + a) + b = 256 * x + (16 * a + b)
    OBVIOUS
  <2> HIDE DEF w
  <2> QED
    BY <2>1, <2>2, <2>3, <2>4
<1> HIDE DEF w
<1>15. Values(w, 256, bytes)
  BY <1>12, <1>13, <1>14 DEF Values
<1>16. Value(256, bytes) = w[L]
  BY <1>12, <1>15, ValueIs
<1>17. w[L] = v[N]
  BY <1>5 DEF w
<1> QED
  BY <1>2, <1>7, <1>12, <1>16, <1>17 DEF bytes, L, N, d

\* Of two sequences of bytes, of one length, the first that differ tell which number
\* is less.
LEMMA FirstByteTells ==
  ASSUME NEW s \in Seq(Octet), NEW t \in Seq(Octet), Len(s) = Len(t),
         NEW k \in 1 .. Len(s), s[k] < t[k], \A i \in 1 .. k - 1 : s[i] = t[i]
  PROVE  Value(256, s) < Value(256, t)
<1> DEFINE N == Len(s)
<1>1. s \in Seq(Nat) /\ t \in Seq(Nat) /\ N \in Nat
  <2>1. Octet \subseteq Nat
    BY DEF Octet
  <2>2. s \in Seq(Nat)
    BY <2>1, SequenceOver
  <2>3. t \in Seq(Nat)
    BY <2>1, SequenceOver
  <2>4. N \in Nat
    BY <2>2
  <2> QED
    BY <2>2, <2>3, <2>4
<1>2. \A i \in 1 .. N : s[i] \in Octet /\ t[i] \in Octet
  BY SequenceIs
<1>3. PICK v \in [0 .. N -> Nat] : Values(v, 256, s) /\ Value(256, s) = v[N]
  BY <1>1, ValueEquation
<1>4. PICK w \in [0 .. N -> Nat] : Values(w, 256, t) /\ Value(256, t) = w[N]
  <2>1. PICK u \in [0 .. Len(t) -> Nat] : Values(u, 256, t) /\ Value(256, t) = u[Len(t)]
    BY <1>1, ValueEquation
  <2> QED
    BY <2>1
<1>5. /\ v[0] = 0 /\ w[0] = 0
      /\ \A i \in 1 .. N : v[i] = 256 * v[i - 1] + s[i] /\ w[i] = 256 * w[i - 1] + t[i]
  BY <1>3, <1>4 DEF Values
<1> HIDE DEF N
<1> DEFINE S == {n \in 0 .. N : IF n < k THEN v[n] = w[n] ELSE v[n] < w[n]}
<1>6. k \in Nat /\ 0 < k /\ k <= N
  BY <1>1 DEF N
<1>7. 0 \in S
  BY <1>1, <1>5, <1>6
<1>20. ASSUME NEW x \in Nat, NEW y \in Nat, NEW a \in 0 .. 255, NEW b \in 0 .. 255,
              x < y \/ (x = y /\ a < b)
       PROVE  256 * x + a < 256 * y + b
  <2>1. CASE x < y
    <3>1. x + 1 <= y
      BY <2>1
    <3> QED
      BY <3>1
  <2> QED
    BY <1>20, <2>1
<1>21. \A x, y \in Nat, a, b \in 0 .. 255 : x < y => 256 * x + a < 256 * y + b
  BY <1>20
<1>8. ASSUME NEW n \in 0 .. N - 1, n \in S PROVE n + 1 \in S
  <2>1. n + 1 \in 1 .. N /\ (n + 1) - 1 = n /\ n + 1 \in 0 .. N /\ n \in 0 .. N
    BY <1>1
  <2>2. v[n + 1] = 256 * v[n] + s[n + 1] /\ w[n + 1] = 256 * w[n] + t[n + 1]
    BY <1>5, <2>1
  <2>3. /\ v[n] \in Nat /\ w[n] \in Nat
        /\ s[n + 1] \in 0 .. 255 /\ t[n + 1] \in 0 .. 255
    BY <1>2, <1>3, <1>4, <2>1 DEF Octet
  <2>4. CASE n + 1 < k
    <3>1. v[n] = w[n] /\ s[n + 1] = t[n + 1]
      BY <1>6, <1>8, <2>1, <2>4
    <3> QED
      BY <2>1, <2>2, <2>4, <3>1
  <2>5. CASE n + 1 = k
    <3>1. v[n] = w[n] /\ s[n + 1] < t[n + 1]
      BY <1>6, <1>8, <2>1, <2>5
    <3>2. v[n + 1] < w[n + 1]
      <4>1. 256 * v[n] + s[n + 1] < 256 * w[n] + t[n + 1]
        <5> HIDE DEF S
        <5> QED
          BY <1>20, <2>3, <3>1
      <4> QED
        BY <2>2, <4>1
    <3> QED
      BY <2>1, <2>5, <3>2
  <2>6. CASE n + 1 > k
    <3>1. v[n] < w[n]
      BY <1>6, <1>8, <2>1, <2>6
    <3>2. v[n + 1] < w[n + 1]
      <4>1. 256 * v[n] + s[n + 1] < 256 * w[n] + t[n + 1]
        <5>1. PICK x \in Nat : x = v[n]
          BY <2>3
        <5>2. PICK y \in Nat : y = w[n]
          BY <2>3
        <5>3. PICK a \in 0 .. 255 : a = s[n + 1]
          BY <2>3
        <5>4. PICK b \in 0 .. 255 : b = t[n + 1]
          BY <2>3
        <5>5. x < y
          BY <3>1, <5>1, <5>2
        <5>6. 256 * x + a < 256 * y + b
          BY <1>21, <5>5
        <5> HIDE DEF S
        <5> QED
          BY <5>1, <5>2, <5>3, <5>4, <5>6
      <4> QED
        BY <2>2, <4>1
    <3>3. ~(n + 1 < k)
      BY <1>6, <2>1, <2>6
    <3> QED
      BY <2>1, <3>2, <3>3
  <2> QED
    BY <1>6, <2>1, <2>4, <2>5, <2>6
<1>9. 0 .. N \subseteq S
  <2> HIDE DEF S
  <2> QED
    BY <1>1, <1>7, <1>8, UpToAll DEF N
<1>10. N \in S /\ ~(N < k)
  BY <1>1, <1>6, <1>9 DEF N
<1> QED
  BY <1>3, <1>4, <1>10

-----------------------------------------------------------------------------
\* compareTo orders unsigned values as their numbers.
LEMMA ComparesAsNumbers ==
  ASSUME NEW this, NEW that, NEW m, NEW n, Stands(this, m), Stands(that, n)
  PROVE  CompareTo(this, that) \in Int /\ Sign(CompareTo(this, that)) = Sign(m - n)
<1> DEFINE a == Len(this.digits)
           b == Len(that.digits)
           digits == Max({a, b})
           thisFit == Fit(this, digits)
           thatFit == Fit(that, digits)
           s == Bytes(thisFit)
           t == Bytes(thatFit)
           less == [i \in DOMAIN s |-> s[i] - t[i]]
           first == SelectInSeq(less, LAMBDA d : d # 0)
<1>1. a \in Nat /\ b \in Nat /\ this.sign = 1 /\ that.sign = 1 /\ m \in Nat /\ n \in Nat
  <2>1. /\ this.digits \in Seq(Nat) /\ this.sign = 1 /\ m \in Nat
        /\ that.digits \in Seq(Nat) /\ that.sign = 1 /\ n \in Nat
    BY StandsFor
  <2> QED
    BY <2>1
<1>2. CompareTo(this, that) = IF first = 0 THEN 0 ELSE s[first] - t[first]
  BY <1>1 DEF CompareTo
<1>3. digits \in Nat /\ digits >= a /\ digits >= b
  <2>1. \A x \in {a, b} : (\A y \in {a, b} : x >= y) <=> x = IF a >= b THEN a ELSE b
    BY <1>1
  <2>2. (IF a >= b THEN a ELSE b) \in {a, b}
    OBVIOUS
  <2>3. digits = IF a >= b THEN a ELSE b
    <3> HIDE DEF a, b
    <3> QED
      BY <2>1, <2>2 DEF Max
  <2> QED
    BY <1>1, <2>3
<1> HIDE DEF digits
<1>4. /\ Stands(thisFit, m) /\ Len(thisFit.digits) = digits
      /\ Stands(thatFit, n) /\ Len(thatFit.digits) = digits
  BY <1>3, FitStands
<1> HIDE DEF thisFit, thatFit
<1>5. /\ s \in Seq(Octet) /\ Value(256, s) = m
      /\ t \in Seq(Octet) /\ Value(256, t) = n
      /\ Len(s) = Len(t)
  BY <1>4, BytesStand, AlignStands
<1> HIDE DEF s, t
<1>6. /\ Len(s) \in Nat /\ DOMAIN s = 1 .. Len(s)
      /\ \A i \in 1 .. Len(s) : s[i] \in Octet /\ t[i] \in Octet
  BY <1>5, SequenceIs
<1>7. Octet \subseteq Nat
  BY DEF Octet
<1>8. Len(less) = Len(s) /\ \A i \in 1 .. Len(s) : less[i] = s[i] - t[i]
  BY <1>6
<1> HIDE DEF less
<1>9. \/ first = 0 /\ \A i \in 1 .. Len(s) : less[i] = 0
      \/ /\ first \in 1 .. Len(s) /\ less[first] # 0
         /\ \A i \in 1 .. first - 1 : less[i] = 0
  BY <1>6, <1>8, FirstDigit
<1> HIDE DEF first
<1>10. CASE first = 0 /\ \A i \in 1 .. Len(s) : less[i] = 0
  <2>1. \A i \in 1 .. Len(s) : s[i] = t[i]
    <3> TAKE i \in 1 .. Len(s)
    <3>1. s[i] \in Nat /\ t[i] \in Nat /\ s[i] - t[i] = 0
      BY <1>6, <1>7, <1>8, <1>10
    <3> QED
      BY <3>1
  <2>2. s = t
    BY <1>5, <1>6, <2>1
  <2>3. m - n = 0
    BY <1>1, <1>5, <2>2
  <2> QED
    BY <1>2, <1>10, <2>3
<1>11. CASE /\ first \in 1 .. Len(s) /\ less[first] # 0
            /\ \A i \in 1 .. first - 1 : less[i] = 0
  <2>1. first \in Nat /\ first # 0 /\ first <= Len(s)
    BY <1>6, <1>11
  <2>2. \A i \in 1 .. first - 1 : s[i] = t[i]
    <3> TAKE i \in 1 .. first - 1
    <3>1. i \in 1 .. Len(s)
      BY <1>6, <2>1
    <3>2. s[i] \in Nat /\ t[i] \in Nat /\ s[i] - t[i] = 0
      BY <1>6, <1>7, <1>8, <1>11, <3>1
    <3> QED
      BY <3>2
  <2>3. s[first] \in Nat /\ t[first] \in Nat /\ s[first] - t[first] # 0
    BY <1>6, <1>7, <1>8, <1>11
  <2>4. CompareTo(this, that) = s[first] - t[first]
    BY <1>2, <2>1
  <2>5. CASE s[first] < t[first]
    <3>1. m < n
      BY <1>5, <1>11, <2>2, <2>5, FirstByteTells
    <3>2. m - n < 0 /\ s[first] - t[first] < 0
      BY <1>1, <2>3, <2>5, <3>1
    <3> QED
      BY <2>3, <2>4, <3>2 DEF Sign
  <2>6. CASE t[first] < s[first]
    <3>1. n < m
      BY <1>5, <1>11, <2>2, <2>6, FirstByteTells
    <3>2. /\ m - n > 0 /\ s[first] - t[first] > 0
          /\ ~(m - n < 0) /\ ~(s[first] - t[first] < 0)
      BY <1>1, <2>3, <2>6, <3>1
    <3> QED
      BY <2>3, <2>4, <3>2 DEF Sign
  <2> QED
    BY <2>3, <2>5, <2>6
<1> QED
  BY <1>9, <1>10, <1>11

-----------------------------------------------------------------------------
\* Every value held is unsigned, and stands for the number that history says.
VcdmInv ==
  /\ held \in [Slots -> {Hex(1, digits) : digits \in Digits}] /\ is \in [Slots -> Nat]
  /\ \A s \in Slots : Stands(held[s], is[s])

\* A step that replaces a value.
LEMMA HoldsKeeps ==
  ASSUME VcdmInv, NEW s \in Slots, NEW hex, NEW n, Stands(hex, n), Holds(s, hex, n)
  PROVE  VcdmInv'
<1>1. held' = [held EXCEPT ![s] = hex] /\ is' = [is EXCEPT ![s] = n]
  BY DEF Holds
<1>2. hex \in {Hex(1, digits) : digits \in Digits} /\ n \in Nat
  BY StandsFor DEF Stands
<1>3. held' \in [Slots -> {Hex(1, digits) : digits \in Digits}] /\ is' \in [Slots -> Nat]
  BY <1>1, <1>2 DEF VcdmInv
<1>4. ASSUME NEW t \in Slots PROVE Stands(held'[t], is'[t])
  BY <1>1 DEF VcdmInv
<1> QED
  BY <1>3, <1>4 DEF VcdmInv, Stands, Hex

LEMMA VcdmInvariant == VcdmSpec => []VcdmInv
<1>1. VcdmInit => VcdmInv
  <2> SUFFICES ASSUME VcdmInit PROVE VcdmInv
    OBVIOUS
  <2>1. <<>> \in Digits /\ Value(16, <<>>) = 0
    BY ValueOfMore DEF Digits
  <2>2. Stands(Hex(1, <<>>), 0)
    BY <2>1 DEF Stands
  <2> QED
    BY <2>1, <2>2 DEF VcdmInit, VcdmInv
<1>2. VcdmInv /\ [VcdmNext]_vcdmVars => VcdmInv'
  <2> SUFFICES ASSUME VcdmInv, [VcdmNext]_vcdmVars PROVE VcdmInv'
    OBVIOUS
  <2>1. ASSUME NEW s \in Slots, NEW exp \in Expressions, Makes(s, exp) PROVE VcdmInv'
    BY <2>1, GivenStands, HoldsKeeps DEF Makes
  <2>2. ASSUME NEW s \in Slots, NEW exp \in Expressions, MakesAddress(s, exp) PROVE VcdmInv'
    <3>1. AddressOf(exp) = HexUIntOf(exp) /\ HexUIntOf(exp) # Thrown
      BY <2>2 DEF MakesAddress, AddressOf
    <3> QED
      BY <2>2, <3>1, GivenStands, HoldsKeeps DEF MakesAddress
  <2>3. ASSUME NEW s \in Slots, NEW exp \in Expressions, MakesId(s, exp) PROVE VcdmInv'
    <3> DEFINE hex == HexIntOf(exp)
               fits == Fit(hex, IdDigits)
    <3>1. HexUIntOf(exp) # Thrown /\ ThorIdOf(exp) # Thrown
      BY <2>3 DEF MakesId
    <3>2. Stands(hex, ValueOf(exp)) /\ hex # Thrown
      BY <3>1, GivenStands
    <3>3. fits # Thrown /\ ThorIdOf(exp) = Hex(1, fits.digits)
      BY <3>1, <3>2 DEF ThorIdOf
    <3>4. Stands(fits, ValueOf(exp))
      <4>1. IdDigits \in Nat
        BY VcdmAssumption
      <4> HIDE DEF hex
      <4> QED
        BY <3>2, <3>3, <4>1, FitStands
    <3>5. Stands(ThorIdOf(exp), ValueOf(exp))
      BY <3>3, <3>4, StandsFor
    <3> QED
      BY <2>3, <3>5, HoldsKeeps DEF MakesId
  <2>4. ASSUME NEW s \in Slots, MakesQuantity(s) PROVE VcdmInv'
    <3>1. NumberOf(held[s]).n = is[s] /\ is[s] \in Nat
      <4>1. Bi(held[s]) = is[s] /\ is[s] \in Nat
        BY StandsFor DEF VcdmInv
      <4>2. NumberOf(held[s]) # Thrown
        BY <2>4 DEF MakesQuantity
      <4>3. NumberOf(held[s]) = [n |-> Bi(held[s])]
        BY <4>2 DEF NumberOf
      <4> QED
        BY <4>1, <4>3
    <3>2. Stands(QuantityOf(NumberOf(held[s]).n), is[s])
      BY <3>1, QuantityStands
    <3> QED
      BY <2>4, <3>2, HoldsKeeps DEF MakesQuantity
  <2>5. ASSUME NEW s \in Slots, Aligns(s) PROVE VcdmInv'
    <3>1. Stands(AlignToBytes(held[s]), is[s])
      BY AlignStands DEF VcdmInv
    <3> QED
      BY <2>5, <3>1, HoldsKeeps DEF Aligns
  <2>6. ASSUME NEW s \in Slots, NEW digits \in 0 .. MaxDigits, Fits(s, digits) PROVE VcdmInv'
    <3>1. Fit(held[s], digits) # Thrown
      BY <2>6 DEF Fits, Holds
    <3>2. digits \in Nat
      BY VcdmAssumption
    <3>3. Stands(Fit(held[s], digits), is[s])
      BY <3>1, <3>2, FitStands DEF VcdmInv
    <3> QED
      BY <2>6, <3>3, HoldsKeeps DEF Fits
  <2>7. CASE UNCHANGED vcdmVars
    BY <2>7 DEF vcdmVars, VcdmInv, Stands, Hex
  <2> QED
    BY <2>1, <2>2, <2>3, <2>4, <2>5, <2>6, <2>7 DEF VcdmNext
<1> QED
  BY <1>1, <1>2, PTL DEF VcdmSpec

\* However values are made, of texts, bytes and numbers and of one another, compareTo
\* orders them as the numbers they stand for, and isEqual tells those that are equal.
THEOREM ValuesAreOrdered == VcdmSpec => []OrderOfValues
<1>1. VcdmInv => OrderOfValues
  <2> SUFFICES ASSUME VcdmInv, NEW s \in Slots, NEW t \in Slots
               PROVE  /\ Sign(CompareTo(held[s], held[t])) = Sign(is[s] - is[t])
                      /\ IsEqual(held[s], held[t]) <=> Bi(held[s]) = Bi(held[t])
    BY DEF OrderOfValues
  <2> DEFINE c == CompareTo(held[s], held[t])
  <2>1. Stands(held[s], is[s]) /\ Stands(held[t], is[t])
    BY DEF VcdmInv
  <2>2. Sign(c) = Sign(is[s] - is[t])
    BY <2>1, ComparesAsNumbers
  <2>3. Bi(held[s]) = is[s] /\ Bi(held[t]) = is[t] /\ is[s] \in Nat /\ is[t] \in Nat
    BY <2>1, StandsFor
  <2>4. c \in Int
    BY <2>1, ComparesAsNumbers
  <2> HIDE DEF c
  <2>5. c = 0 <=> is[s] - is[t] = 0
    BY <2>2, <2>3, <2>4 DEF Sign
  <2> QED
    BY <2>2, <2>3, <2>5 DEF IsEqual, c
<1> QED
  BY <1>1, VcdmInvariant, PTL

-----------------------------------------------------------------------------
(***************************************************************************)
(* Amounts in units, and texts in words.                                   *)
(***************************************************************************)
\* The powers of ten.
LEMMA Powers ==
  /\ TenTo \in [Nat -> Nat \ {0}] /\ TenTo[0] = 1
  /\ \A n \in Nat : TenTo[n + 1] = 10 * TenTo[n]
<1> DEFINE Q(f) == f = [n \in Nat |-> IF n = 0 THEN 1 ELSE 10 * f[n - 1]]
           lower == [n \in Nat |-> IF n = 0 THEN 0 ELSE n - 1]
           small == {0}
           powers == Nat \ {0}
           base == [n \in small |-> 1]
           step == [n \in Nat |-> [x \in powers |-> 10 * x]]
<1>1. PICK f \in [Nat -> powers] :
        \A n \in Nat : f[n] = IF n \in small THEN base[n] ELSE step[n][f[lower[n]]]
  <2>1. base \in [small -> powers]
    OBVIOUS
  <2>2. step \in [Nat -> [powers -> powers]]
    OBVIOUS
  <2>3. lower \in [Nat -> Nat] /\ \A n \in Nat \ small : lower[n] < n
    OBVIOUS
  <2>4. small \in SUBSET Nat
    OBVIOUS
  <2> HIDE DEF base, step, lower, small, powers
  <2> QED
    BY <2>1, <2>2, <2>3, <2>4, RecursiveFunction, SMTT(60)
<1>2. Q(f)
  <2>1. \A n \in Nat : f[n] = IF n = 0 THEN 1 ELSE 10 * f[n - 1]
    <3> TAKE n \in Nat
    <3>1. n # 0 => lower[n] = n - 1 /\ n - 1 \in Nat
      OBVIOUS
    <3> QED
      BY <1>1, <3>1
  <2> QED
    BY <2>1
<1>3. TenTo = CHOOSE g : Q(g)
  BY DEF TenTo
<1>4. Q(TenTo)
  <2> HIDE DEF Q
  <2> QED
    BY <1>2, <1>3
<1>5. \A n \in Nat : TenTo[n] = IF n = 0 THEN 1 ELSE 10 * TenTo[n - 1]
  BY <1>4
<1>6. DOMAIN TenTo = Nat /\ TenTo = [n \in Nat |-> TenTo[n]]
  BY <1>4
<1> DEFINE S == {n \in Nat : TenTo[n] \in Nat \ {0}}
<1>7. ASSUME NEW n \in Nat, \A m \in Nat : m < n => m \in S PROVE n \in S
  <2>1. CASE n = 0
    BY <1>5, <2>1
  <2>2. CASE n # 0
    <3>1. n - 1 \in Nat /\ n - 1 < n
      BY <2>2
    <3>2. TenTo[n - 1] \in Nat \ {0}
      BY <1>7, <3>1
    <3>3. TenTo[n] = 10 * TenTo[n - 1]
      BY <1>5, <2>2
    <3>4. TenTo[n] \in Nat \ {0}
      BY <3>2, <3>3
    <3> QED
      BY <3>4
  <2> QED
    BY <2>1, <2>2
<1>8. Nat \subseteq S
  <2> HIDE DEF S
  <2> QED
    BY <1>7, AllNumbers
<1>9. TenTo \in [Nat -> Nat \ {0}]
  BY <1>6, <1>8
<1>10. \A n \in Nat : TenTo[n + 1] = 10 * TenTo[n]
  <2> TAKE n \in Nat
  <2>1. n + 1 \in Nat /\ n + 1 # 0 /\ (n + 1) - 1 = n
    OBVIOUS
  <2> QED
    BY <1>5, <2>1
<1> QED
  BY <1>5, <1>9, <1>10

\* A power of ten is the product of two.
LEMMA PowersMultiply ==
  ASSUME NEW a \in Nat, NEW b \in Nat
  PROVE  TenTo[a + b] = TenTo[a] * TenTo[b]
<1>1. TenTo \in [Nat -> Nat \ {0}] /\ TenTo[0] = 1 /\ \A n \in Nat : TenTo[n + 1] = 10 * TenTo[n]
  BY Powers
<1> DEFINE S == {n \in 0 .. b : TenTo[a + n] = TenTo[a] * TenTo[n]}
<1>2. 0 \in S
  <2>1. a + 0 = a /\ TenTo[a] \in Nat
    BY <1>1
  <2>2. TenTo[a] = TenTo[a] * 1
    BY <2>1
  <2> QED
    BY <1>1, <2>1, <2>2
<1>3. ASSUME NEW n \in 0 .. b - 1, n \in S PROVE n + 1 \in S
  <2>1. n \in Nat /\ a + n \in Nat /\ a + (n + 1) = (a + n) + 1 /\ n + 1 \in 0 .. b
    OBVIOUS
  <2>2. TenTo[a + (n + 1)] = 10 * TenTo[a + n] /\ TenTo[n + 1] = 10 * TenTo[n]
    BY <1>1, <2>1
  <2>3. TenTo[a + n] = TenTo[a] * TenTo[n] /\ TenTo[a] \in Nat /\ TenTo[n] \in Nat
    BY <1>1, <1>3, <2>1
  <2>4. \A x, y \in Nat : 10 * (x * y) = x * (10 * y)
    OBVIOUS
  <2> HIDE DEF S
  <2>5. TenTo[a + (n + 1)] = TenTo[a] * TenTo[n + 1]
    BY <2>2, <2>3, <2>4
  <2> QED
    BY <2>1, <2>5 DEF S
<1>4. 0 .. b \subseteq S
  <2> HIDE DEF S
  <2> QED
    BY <1>2, <1>3, UpToAll
<1> QED
  BY <1>4

\* Without its zeros a decimal is of the same value, and has no decimals when all of
\* them are zeros.
LEMMA ReducedIsTheSame ==
  ASSUME NEW n \in Int, NEW places \in Nat
  PROVE  \E m \in Int, z \in 0 .. places :
           /\ Reduced(Decimal(n, places)) = Decimal(m, places - z)
           /\ n = m * TenTo[z]
           /\ \A k \in Int : n = k * TenTo[places] => z = places
<1>1. TenTo \in [Nat -> Nat \ {0}] /\ TenTo[0] = 1
  BY Powers
<1>2. Abs(n) \in Nat /\ n = IF n < 0 THEN -Abs(n) ELSE Abs(n)
  BY DEF Abs
<1>3. \A x \in Nat, y \in Nat \ {0} : /\ x \div y \in Nat
                                      /\ x % y = 0 => x = (x \div y) * y
                                      /\ \A k \in Int : x = k * y => x % y = 0
  BY Z3
<1> DEFINE s == {z \in 0 .. places : Abs(n) % TenTo[z] = 0}
           z == Max(s)
           i == Abs(n) \div TenTo[z]
           m == IF n < 0 THEN -i ELSE i
<1>4. z \in s /\ \A y \in s : z >= y
  <2>1. 0 \in s
    <3>1. Abs(n) % 1 = 0
      BY <1>2
    <3> QED
      BY <1>1, <3>1
  <2> DEFINE T == {k \in Nat : places - k \in s}
  <2>2. T \in SUBSET Nat /\ places \in T
    <3>1. places - places = 0
      OBVIOUS
    <3> QED
      BY <2>1, <3>1
  <2>3. PICK k \in T : \A j \in T : k <= j
    <3> HIDE DEF T
    <3> QED
      BY <2>2, LeastNumber
  <2>4. \A y \in s : places - k >= y
    <3> TAKE y \in s
    <3>1. places - y \in Nat /\ places - (places - y) = y
      OBVIOUS
    <3>2. k <= places - y
      BY <2>3, <3>1
    <3> QED
      BY <3>2
  <2>5. places - k \in s
    BY <2>3
  <2> HIDE DEF s
  <2> QED
    BY <2>4, <2>5 DEF Max
<1>5. z \in 0 .. places /\ Abs(n) % TenTo[z] = 0 /\ TenTo[z] \in Nat \ {0}
  <2> HIDE DEF z
  <2> QED
    BY <1>1, <1>4
<1>6. Reduced(Decimal(n, places)) = Decimal(m, places - z)
  BY DEF Reduced, Decimal
<1> HIDE DEF s, z
<1>7. i \in Nat /\ Abs(n) = i * TenTo[z]
  BY <1>2, <1>3, <1>5
<1> HIDE DEF i
<1>8. m \in Int /\ n = m * TenTo[z]
  <2>1. \A x, y \in Nat : (-x) * y = -(x * y)
    OBVIOUS
  <2>2. CASE n < 0
    BY <1>2, <1>5, <1>7, <2>1, <2>2
  <2>3. CASE ~(n < 0)
    BY <1>2, <1>7, <2>3
  <2> QED
    BY <2>2, <2>3
<1>9. ASSUME NEW k \in Int, n = k * TenTo[places] PROVE z = places
  <2>1. TenTo[places] \in Nat \ {0}
    BY <1>1
  <2>2. Abs(n) = (-k) * TenTo[places] \/ Abs(n) = k * TenTo[places]
    <3>1. \A x \in Int, y \in Nat : (-x) * y = -(x * y)
      OBVIOUS
    <3> QED
      BY <1>9, <2>1, <3>1 DEF Abs
  <2>3. PICK j \in Int : Abs(n) = j * TenTo[places]
    <3>1. -k \in Int
      OBVIOUS
    <3> QED
      BY <2>2, <3>1
  <2>4. Abs(n) % TenTo[places] = 0
    BY <1>2, <1>3, <2>1, <2>3
  <2>5. places \in s
    BY <2>4 DEF s
  <2> QED
    BY <1>4, <1>5, <2>5
<1> HIDE DEF m
<1> QED
  BY <1>5, <1>6, <1>8, <1>9

\* A number that is not 0 has digits.
LEMMA HasDigits ==
  ASSUME NEW n \in Int, n # 0
  PROVE  DigitsOfIntegerPart(Decimal(n, 0)) \in 1 .. 9
<1>1. TenTo \in [Nat -> Nat \ {0}] /\ TenTo[0] = 1
  BY Powers
<1> DEFINE i == Abs(n) \div TenTo[0]
           P(c) == TenTo[c - 1] <= i /\ (c = 9 \/ i < TenTo[c])
<1>2. i \in Nat /\ i # 0
  BY <1>1 DEF Abs
<1>3. DigitsOfIntegerPart(Decimal(n, 0)) = CHOOSE c \in 1 .. 9 : P(c)
  BY <1>2 DEF DigitsOfIntegerPart, Decimal
<1> HIDE DEF i
<1> DEFINE T == {c \in 1 .. 9 : c = 9 \/ i < TenTo[c]}
<1>4. T \in SUBSET Nat /\ 9 \in T
  OBVIOUS
<1>5. PICK c \in T : \A d \in T : c <= d
  <2> HIDE DEF T
  <2> QED
    BY <1>4, LeastNumber
<1>6. c \in 1 .. 9 /\ (c = 9 \/ i < TenTo[c])
  OBVIOUS
<1>7. TenTo[c - 1] <= i
  <2>1. CASE c = 1
    BY <1>1, <1>2, <2>1
  <2>2. CASE c # 1
    <3>1. c - 1 \in 1 .. 9 /\ ~(c <= c - 1) /\ c - 1 # 9
      BY <1>6, <2>2
    <3>2. c - 1 \notin T
      <4> HIDE DEF T
      <4> QED
        BY <1>5, <3>1
    <3>3. ~(i < TenTo[c - 1]) /\ TenTo[c - 1] \in Nat
      BY <1>1, <3>1, <3>2
    <3> QED
      BY <1>2, <3>3
  <2> QED
    BY <2>1, <2>2
<1>8. \E d \in 1 .. 9 : P(d)
  BY <1>6, <1>7
<1> HIDE DEF P
<1> QED
  BY <1>3, <1>8

\* What is written in a unit is read in it.
LEMMA AmountReadsBack ==
  ASSUME NEW value \in Int, value # 0, NEW unit, FormatUnits(value, unit) # Unmade
  PROVE  ParseUnits(FormatUnits(value, unit), unit) = [n |-> value]
<1> DEFINE p == DigitsOfUnit(unit)
           quotient == Div(Decimal(value, 0), p)
           fixed == IF quotient.places = 0 /\ unit # [name |-> 0] THEN 1 ELSE quotient.places
           text == FormatUnits(value, unit)
<1>1. Precision \in Nat \ {0} /\ p \in 0 .. Precision
  <2>1. p \in 0 .. Precision \/ p = -1
    BY DEF DigitsOfUnit
  <2>2. ~(p < 0)
    BY DEF FormatUnits
  <2> HIDE DEF p
  <2> QED
    BY <2>1, <2>2, UnitsAssumption
<1>2. TenTo \in [Nat -> Nat \ {0}] /\ TenTo[0] = 1 /\ TenTo[1] = 10
  <2>1. TenTo[0 + 1] = 10 * TenTo[0]
    BY Powers
  <2> QED
    BY <2>1, Powers
<1>3. text = Decimal(quotient.n * TenTo[fixed - quotient.places], fixed)
  BY <1>1 DEF FormatUnits
<1> HIDE DEF p
<1>4. PICK r \in Int, z \in 0 .. p :
        /\ Reduced(Decimal(value, p)) = Decimal(r, p - z)
        /\ value = r * TenTo[z]
  BY <1>1, ReducedIsTheSame
<1>5. quotient = Decimal(r, p - z)
  <2>1. Reduced(Decimal(value, 0 + p)) = Decimal(r, p - z)
    BY <1>1, <1>4
  <2>2. (p - z) - Precision <= 0 /\ Decimal(r, p - z).places = p - z
    BY <1>1 DEF Decimal
  <2>3. Decimal(value, 0).n = value /\ Decimal(value, 0).places = 0
    BY DEF Decimal
  <2> QED
    BY <2>1, <2>2, <2>3 DEF Div
<1>6. quotient.n = r /\ quotient.places = p - z
  BY <1>5 DEF Decimal
<1> HIDE DEF quotient
\* Read, it has no more decimals than the unit.
<1>7. PICK a \in Int, q \in 0 .. p :
        /\ Reduced(text) = Decimal(a, q)
        /\ value = a * TenTo[p - q]
  <2>1. CASE fixed = quotient.places
    <3>1. text = Decimal(r, p - z)
      <4>1. fixed = p - z /\ fixed - quotient.places = 0 /\ r * 1 = r
        BY <1>1, <1>6, <2>1
      <4> QED
        BY <1>2, <1>3, <1>6, <4>1
    <3>2. PICK a \in Int, y \in 0 .. p - z :
            Reduced(text) = Decimal(a, (p - z) - y) /\ r = a * TenTo[y]
      BY <1>1, <3>1, ReducedIsTheSame
    <3>3. (p - z) - y \in 0 .. p /\ p - ((p - z) - y) = y + z /\ y \in Nat /\ z \in Nat
      BY <1>1
    <3>4. value = a * TenTo[y + z]
      <4>1. \A k \in Int, i, j \in Nat : (k * i) * j = k * (i * j)
        OBVIOUS
      <4>2. TenTo[y + z] = TenTo[y] * TenTo[z] /\ TenTo[y] \in Nat /\ TenTo[z] \in Nat
        BY <1>2, <3>3, PowersMultiply
      <4> QED
        BY <1>4, <3>2, <4>1, <4>2
    <3> QED
      BY <3>2, <3>3, <3>4
  <2>2. CASE fixed # quotient.places
    <3>1. p - z = 0 /\ z = p /\ fixed = 1
      BY <1>1, <1>6, <2>2
    <3>2. text = Decimal(r * 10, 1) /\ r * 10 \in Int
      BY <1>2, <1>3, <1>6, <3>1
    <3>3. PICK a \in Int, y \in 0 .. 1 :
            /\ Reduced(text) = Decimal(a, 1 - y) /\ r * 10 = a * TenTo[y]
            /\ \A k \in Int : r * 10 = k * TenTo[1] => y = 1
      <4>1. PICK one \in Nat : one = 1
        OBVIOUS
      <4>2. PICK a \in Int, y \in 0 .. one :
              /\ Reduced(Decimal(r * 10, one)) = Decimal(a, one - y) /\ r * 10 = a * TenTo[y]
              /\ \A k \in Int : r * 10 = k * TenTo[one] => y = one
        BY <3>2, ReducedIsTheSame
      <4> QED
        BY <3>2, <4>1, <4>2
    <3>4. y = 1 /\ a = r
      BY <1>2, <3>3
    <3> QED
      BY <1>1, <1>4, <3>1, <3>3, <3>4
  <2> QED
    BY <2>1, <2>2
<1>8. Times(Reduced(text), p) = Decimal(value, 0)
  <2>1. Decimal(a, q).n = a /\ Decimal(a, q).places = q
    BY DEF Decimal
  <2>2. CASE p <= q
    <3>1. p = q /\ p - q = 0 /\ q - p = 0
      BY <1>1, <2>2
    <3>2. value = a
      BY <1>2, <1>7, <3>1
    <3> QED
      BY <1>7, <2>1, <2>2, <3>1, <3>2 DEF Times
  <2>3. CASE ~(p <= q)
    BY <1>7, <2>1, <2>3 DEF Times
  <2> QED
    BY <2>2, <2>3
<1>9. Reduced(Decimal(value, 0)) = Decimal(value, 0)
  <2>1. PICK m \in Int, y \in 0 .. 0 :
          Reduced(Decimal(value, 0)) = Decimal(m, 0 - y) /\ value = m * TenTo[y]
    <3>1. PICK none \in Nat : none = 0
      OBVIOUS
    <3>2. PICK m \in Int, y \in 0 .. none :
            /\ Reduced(Decimal(value, none)) = Decimal(m, none - y)
            /\ value = m * TenTo[y]
            /\ \A k \in Int : value = k * TenTo[none] => y = none
      BY ReducedIsTheSame
    <3> QED
      BY <3>1, <3>2
  <2>2. y = 0 /\ m = value
    BY <1>2, <2>1
  <2> QED
    BY <2>1, <2>2
<1>10. /\ ~(p < 0) /\ Decimal(value, 0).places = 0 /\ Decimal(value, 0).n = value
       /\ 0 + DigitsOfIntegerPart(Decimal(value, 0)) # 0
  BY <1>1, HasDigits DEF Decimal
<1> HIDE DEF text
<1> QED
  BY <1>8, <1>9, <1>10 DEF ParseUnits, p, text

\* The index that SelectInSeq gives: the first, or 0.
LEMMA FirstIndex ==
  ASSUME NEW N \in Nat, NEW s \in SUBSET (1 .. N)
  PROVE  /\ s # {} => Min(s) \in s /\ \A i \in s : Min(s) <= i
         /\ \A k \in s : (\A i \in 1 .. k - 1 : i \notin s) => Min(s) = k
<1>1. ASSUME s # {} PROVE Min(s) \in s /\ \A i \in s : Min(s) <= i
  <2>1. s \in SUBSET Nat
    OBVIOUS
  <2>2. PICK k \in s : \A i \in s : k <= i
    BY <1>1, <2>1, LeastNumber
  <2> QED
    BY <2>2 DEF Min
<1>2. ASSUME NEW k \in s, \A i \in 1 .. k - 1 : i \notin s PROVE Min(s) = k
  <2>1. Min(s) \in 1 .. N /\ Min(s) \in s /\ Min(s) <= k
    BY <1>1
  <2>2. ~(Min(s) \in 1 .. k - 1)
    BY <1>2, <2>1
  <2>3. k \in 1 .. N
    OBVIOUS
  <2> QED
    BY <2>1, <2>2, <2>3
<1> QED
  BY <1>1, <1>2

\* A text without zeros, padded, is what is between its zeros.
LEMMA TextReadsBack ==
  ASSUME NEW text \in Seq(Octet), NEW zeroPadding \in {"left", "right"},
         text # <<>>, 0 \notin ToSet(text), ~(Len(text) > WordBytes)
  PROVE  DecodeBytes32String(EncodeBytes32String(text, zeroPadding).word) = [text |-> text]
<1> DEFINE N == Len(text)
           pad == [i \in 1 .. WordBytes - N |-> 0]
           word == IF zeroPadding = "left" THEN pad \o text ELSE text \o pad
           zeros == {i \in 1 .. Len(word) : word[i] = 0}
           others == {i \in 1 .. Len(word) : word[i] # 0}
           zero == IF zeros # {} THEN Min(zeros) ELSE 0
           notZero == IF others # {} THEN Min(others) ELSE 0
<1>1. EncodeBytes32String(text, zeroPadding).word = word
  BY DEF EncodeBytes32String
<1>2. /\ WordBytes \in Nat /\ N \in 1 .. WordBytes /\ WordBytes - N \in Nat
      /\ \A i \in 1 .. N : text[i] \in 0 .. 255 /\ text[i] # 0
  <2>1. WordBytes \in Nat /\ N \in Nat /\ N # 0
    BY UnitsAssumption
  <2>2. DOMAIN text = 1 .. N /\ \A i \in 1 .. N : text[i] \in 0 .. 255
    BY SequenceIs DEF Octet
  <2>3. \A i \in 1 .. N : text[i] # 0
    BY <2>2 DEF ToSet
  <2> QED
    BY <2>1, <2>2, <2>3
<1>9. text = [i \in 1 .. N |-> text[i]]
  OBVIOUS
<1>3. /\ pad \in Seq(Octet) /\ Len(pad) = WordBytes - N
      /\ \A i \in 1 .. WordBytes - N : pad[i] = 0
  BY <1>2 DEF Octet
<1>4. DecodeBytes32String(word) =
        IF Len(word) # WordBytes THEN Unmade
        ELSE [text |-> IF zero = 0 THEN word
                       ELSE IF zero > 1 THEN SubSeq(word, 1, zero - 1)
                       ELSE IF notZero = 0 THEN <<0>> ELSE SubSeq(word, notZero, Len(word))]
  BY DEF DecodeBytes32String, SelectInSeq
<1> HIDE DEF pad
<1>5. word \in Seq(Octet) /\ Len(word) = WordBytes /\ DOMAIN word = 1 .. WordBytes
  BY <1>2, <1>3
<1>6. CASE N = WordBytes
  <2>1. word = text
    <3>1. Len(word) = Len(text) /\ \A i \in 1 .. N : word[i] = text[i]
      BY <1>2, <1>3, <1>6
    <3> HIDE DEF word
    <3> QED
      BY <1>5, <3>1
  <2>2. zeros = {}
    BY <1>2, <2>1
  <2> HIDE DEF word, zeros
  <2> QED
    BY <1>1, <1>4, <1>5, <2>1, <2>2
<1>7. CASE N < WordBytes /\ zeroPadding = "right"
  <2>1. word = text \o pad
    BY <1>7
  <2> HIDE DEF word
  <2>2. /\ \A i \in 1 .. N : word[i] = text[i]
        /\ \A i \in N + 1 .. WordBytes : word[i] = 0
    BY <1>2, <1>3, <2>1
  <2>3. N + 1 \in zeros /\ \A i \in 1 .. (N + 1) - 1 : i \notin zeros
    BY <1>2, <1>5, <1>7, <2>2
  <2>4. zeros \in SUBSET (1 .. WordBytes)
    BY <1>5
  <2> HIDE DEF zeros
  <2>5. zero = N + 1
    BY <1>2, <2>3, <2>4, FirstIndex
  <2>6. SubSeq(word, 1, N) = text
    <3>1. SubSeq(word, 1, N) = [i \in 1 .. N |-> word[i]]
      BY <1>2, <1>5
    <3> QED
      BY <1>9, <2>2, <3>1
  <2>7. (N + 1) - 1 = N /\ N + 1 > 1 /\ N + 1 # 0
    BY <1>2
  <2> HIDE DEF zero, notZero
  <2> QED
    BY <1>1, <1>4, <1>5, <2>5, <2>6, <2>7
<1>8. CASE N < WordBytes /\ zeroPadding = "left"
  <2> DEFINE k == WordBytes - N
  <2>1. word = pad \o text
    BY <1>8
  <2> HIDE DEF word
  <2>9. k \in Nat /\ k # 0 /\ k < WordBytes /\ k + 1 > 1
    BY <1>2, <1>8
  <2>2. /\ \A i \in 1 .. k : word[i] = 0
        /\ \A i \in k + 1 .. WordBytes : word[i] = text[i - k]
    BY <1>2, <1>3, <2>1
  <2>3. 1 \in zeros /\ \A i \in 1 .. 1 - 1 : i \notin zeros
    BY <1>2, <1>5, <2>2, <2>9
  <2>4. k + 1 \in others /\ \A i \in 1 .. (k + 1) - 1 : i \notin others
    <3>1. /\ (k + 1) - 1 = k /\ (k + 1) - k = 1
          /\ k + 1 \in k + 1 .. WordBytes /\ k + 1 \in 1 .. WordBytes
      BY <1>2, <2>9
    <3> HIDE DEF k
    <3>4. 1 \in 1 .. N
      BY <1>2
    <3>2. word[k + 1] = text[1] /\ text[1] # 0
      BY <1>2, <2>2, <3>1, <3>4
    <3>3. \A i \in 1 .. k : word[i] = 0
      BY <2>2
    <3> QED
      BY <1>5, <3>1, <3>2, <3>3
  <2>5. zeros \in SUBSET (1 .. WordBytes) /\ others \in SUBSET (1 .. WordBytes)
    BY <1>5
  <2> HIDE DEF zeros, others, k
  <2>6. zero = 1
    <3>1. PICK one \in Nat : one = 1
      OBVIOUS
    <3>2. one \in zeros /\ \A i \in 1 .. one - 1 : i \notin zeros
      BY <2>3, <3>1
    <3>3. Min(zeros) = one /\ zeros # {}
      BY <1>2, <2>5, <3>2, FirstIndex
    <3> QED
      BY <3>1, <3>3
  <2>7. notZero = k + 1 /\ k + 1 # 0
    <3>1. Min(others) = k + 1 /\ others # {}
      BY <1>2, <2>4, <2>5, FirstIndex
    <3> QED
      BY <2>9, <3>1
  <2>8. SubSeq(word, k + 1, Len(word)) = text
    <3>1. k \in 0 .. Len(word) /\ Len(word) - k = N
      BY <1>2, <1>5 DEF k
    <3>2. SubSeq(word, k + 1, Len(word)) = [i \in 1 .. N |-> word[k + i]]
      BY <1>2, <1>5, <3>1
    <3>3. ASSUME NEW i \in 1 .. N PROVE word[k + i] = text[i]
      <4>1. k + i \in k + 1 .. WordBytes /\ (k + i) - k = i
        BY <1>2 DEF k
      <4> HIDE DEF k
      <4> QED
        BY <2>2, <4>1
    <3> HIDE DEF k, N
    <3> QED
      BY <1>9, <3>2, <3>3
  <2>10. ~(1 > 1) /\ 1 # 0
    OBVIOUS
  <2> HIDE DEF zero, notZero
  <2> QED
    BY <1>1, <1>4, <1>5, <2>6, <2>7, <2>8, <2>10
<1> QED
  BY <1>2, <1>6, <1>7, <1>8

-----------------------------------------------------------------------------
\* What is written is read back as it was, for every amount that both formatUnits and
\* parseUnits take, in every unit, and every text without zeros.
THEOREM WrittenIsRead == UnitsSpec => []ReadAsWritten
<1>1. UnitsInit => ReadAsWritten
  BY DEF UnitsInit, ReadAsWritten
<1>2. ReadAsWritten /\ [UnitsNext]_made => ReadAsWritten'
  <2> SUFFICES ASSUME ReadAsWritten, [UnitsNext]_made PROVE ReadAsWritten'
    OBVIOUS
  <2>1. ASSUME NEW a \in Amounts, WritesAmount(a[1], a[2]) PROVE ReadAsWritten'
    <3> DEFINE text == FormatUnits(a[1], a[2])
    <3>1. a[1] \in Int
      BY UnitsAssumption
    <3>2. made' = [of |-> a[1], text |-> text,
                   back |-> IF text = Unmade THEN Unmade ELSE ParseUnits(text, a[2])]
      BY <2>1 DEF WritesAmount
    <3>3. text = Unmade \/ "word" \notin DOMAIN text
      BY DEF FormatUnits, Decimal
    <3>4. text # Unmade /\ a[1] # 0 => ParseUnits(text, a[2]) = [n |-> a[1]]
      BY <3>1, AmountReadsBack
    <3> HIDE DEF text
    <3> QED
      BY <3>2, <3>3, <3>4 DEF ReadAsWritten
  <2>2. ASSUME NEW text \in Words, NEW zeroPadding \in {"left", "right"},
               WritesText(text, zeroPadding)
        PROVE  ReadAsWritten'
    <3> DEFINE word == EncodeBytes32String(text, zeroPadding)
    <3>1. text \in Seq(Octet)
      BY UnitsAssumption DEF Octet
    <3>2. made' = [of |-> text, text |-> word,
                   back |-> IF word = Unmade THEN Unmade ELSE DecodeBytes32String(word.word)]
      BY <2>2 DEF WritesText
    <3>3. word # Unmade => "word" \in DOMAIN word /\ ~(Len(text) > WordBytes)
      BY DEF EncodeBytes32String
    <3>4. word # Unmade /\ text # <<>> /\ 0 \notin ToSet(text)
          => DecodeBytes32String(word.word) = [text |-> text]
      BY <3>1, <3>3, TextReadsBack
    <3> HIDE DEF word
    <3> QED
      BY <3>2, <3>3, <3>4 DEF ReadAsWritten
  <2>3. CASE UNCHANGED made
    BY <2>3 DEF ReadAsWritten
  <2> QED
    BY <2>1, <2>2, <2>3 DEF UnitsNext
<1> QED
  BY <1>1, <1>2, PTL DEF UnitsSpec
==============================================================================
