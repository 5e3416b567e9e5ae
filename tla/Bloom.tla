-------------------------------- MODULE Bloom --------------------------------
(***************************************************************************)
(* Bloom filters (packages/core/src/bloom/bloom.ts, utils/bloom): a        *)
(* generator collects the hashes of keys and makes filters of them, which  *)
(* are composed and asked.                                                 *)
(*                                                                         *)
(* A hash is an unsigned word, of 32 bits in the code.  The bits of a key  *)
(* are at h, h + delta, h + 2 delta ... modulo the word, delta being the   *)
(* hash rotated by 17 bits, each modulo the bits of the filter.            *)
(***************************************************************************)
EXTENDS Integers, FiniteSets

CONSTANTS
  BloomKeys,    \* keys: addresses and other data
  Addresses,    \* those that are addresses
  HashOf,       \* the first word of the hash of each
  WordBits,     \* the bits of a word: 32
  Rotation,     \* by how many delta is rotated to the right: 17
  Ks,           \* the numbers of hash functions
  BitsPerKeys,  \* the bits per key that a generator is given
  MaxFilters    \* bound on the filters

ASSUME BloomAssumption ==
  /\ Addresses \subseteq BloomKeys
  /\ WordBits \in Nat /\ Rotation \in 1 .. WordBits
  /\ HashOf \in [BloomKeys -> 0 .. 2 ^ WordBits - 1]
  /\ Ks \subseteq Nat /\ BitsPerKeys \subseteq Nat /\ MaxFilters \in Nat

\* A fact about powers, for the proofs, which have no definition of ^ to use.
ASSUME PowerAssumption == 2 ^ WordBits \in Nat \ {0} /\ 2 ^ Rotation \in Nat \ {0}

VARIABLES
  hashes,   \* Generator.hashes
  added,    \* history: the keys added since the last filter
  filters   \* the filters, each with the keys it was made of

bloomVars == <<hashes, added, filters>>

-----------------------------------------------------------------------------
\* addWithUInt32Wrap.
AddWithUInt32Wrap(a, b) == (a + b) % 2 ^ WordBits

Delta(hash) == (hash \div 2 ^ Rotation) + ((hash * 2 ^ (WordBits - Rotation)) % 2 ^ WordBits)

\* distribute: the bits of a hash, k of them or fewer when some are the same.
Distribute(hash, k, nBits) ==
  {AddWithUInt32Wrap(hash, i * Delta(hash)) % nBits : i \in 0 .. k - 1}

\* calculateBitsPerKey and calculateK: the ceiling of k / 0.69, the floor of 0.69 bits.
CalculateBitsPerKey(k) == IF k <= 1 THEN 2 ELSE IF k >= 30 THEN 44 ELSE (100 * k + 68) \div 69

CalculateK(bitsPerKey) ==
  LET k == (69 * bitsPerKey) \div 100
  IN  IF k < 1 THEN 1 ELSE IF k > 30 THEN 30 ELSE k

\* The bytes of a filter, 8 at least.
BytesFor(size, bitsPerKey) ==
  LET nBytes == (size * bitsPerKey + 7) \div 8 IN IF nBytes < 8 THEN 8 ELSE nBytes

Filter(hs, bitsPerKey, k) ==
  LET nBytes == BytesFor(Cardinality(hs), bitsPerKey)
  IN  [bytes |-> nBytes, k |-> k, bits |-> UNION {Distribute(h, k, 8 * nBytes) : h \in hs}]

\* Filter.contains.
IsIn(filter, key) ==
  Distribute(HashOf[key], filter.k, 8 * filter.bytes) \subseteq filter.bits

\* Mutant of IsComposableWith: the lengths are not compared.
IsOfSameK(this, other) == this.k = other.k

IsComposableWith(this, other) == this.k = other.k /\ this.bytes = other.bytes

\* Filter.compose: the bytes of this, with the bits of both.
Compose(this, other) ==
  [bytes |-> this.bytes, k |-> this.k,
   bits  |-> this.bits \union (other.bits \intersect 0 .. 8 * this.bytes - 1)]

\* bloomUtils.filterOf: a filter of the addresses among some data.
FilterOf(data, k) ==
  Filter({HashOf[a] : a \in data \intersect Addresses}, CalculateBitsPerKey(k), k)

\* isBloom: 16 digits at least.
IsBloom(text) == text.bytes >= 8

\* isInBloom and isAddressInBloom say yes: of a text of bits, which does not tell its
\* number of hash functions.  For none they throw.
IsInBloom(text, k, key) ==
  IsBloom(text) /\ k > 0 /\ IsIn([bytes |-> text.bytes, k |-> k, bits |-> text.bits], key)

IsAddressInBloom(text, k, key) == key \in Addresses /\ IsInBloom(text, k, key)

-----------------------------------------------------------------------------
BloomInit ==
  /\ hashes = {}
  /\ added = {}
  /\ filters = {}

Add(key) ==
  /\ hashes' = hashes \union {HashOf[key]}
  /\ added' = added \union {key}
  /\ UNCHANGED filters

Keeps(filter, keys) ==
  /\ Cardinality(filters) < MaxFilters
  /\ filters' = filters \union {[filter |-> filter, of |-> keys]}

\* generate: the hashes are used up.
Generate(bitsPerKey, k) ==
  /\ Keeps(Filter(hashes, bitsPerKey, k), added)
  /\ hashes' = {}
  /\ added' = {}

\* With the numbers that calculateK and calculateBitsPerKey give for one another.
GenerateFor(bitsPerKey) == Generate(bitsPerKey, CalculateK(bitsPerKey))

\* The program keeps what it composed instead of f.
Composes(f, g) ==
  /\ IsComposableWith(f.filter, g.filter)
  /\ filters' = (filters \ {f}) \union
                  {[filter |-> Compose(f.filter, g.filter), of |-> f.of \union g.of]}
  /\ UNCHANGED <<hashes, added>>

Filters(data, k) ==
  /\ Keeps(FilterOf(data, k), data \intersect Addresses)
  /\ UNCHANGED <<hashes, added>>

BloomNext ==
  \/ \E key \in BloomKeys : Add(key)
  \/ \E bitsPerKey \in BitsPerKeys, k \in Ks : Generate(bitsPerKey, k)
  \/ \E bitsPerKey \in BitsPerKeys : GenerateFor(bitsPerKey)
  \/ \E f, g \in filters : Composes(f, g)
  \/ \E data \in SUBSET BloomKeys, k \in Ks : Filters(data, k)

BloomSpec == BloomInit /\ [][BloomNext]_bloomVars

-----------------------------------------------------------------------------
\* A filter contains every key that it was made of, however many bits a key has,
\* whatever was generated of the same generator before, and those of every filter
\* that it was composed of; so does its text, for as many hash functions or fewer.  A
\* bloom filter may say yes of any key but never no of one of its own.
NoFalseNegatives ==
  \A f \in filters : \A key \in f.of :
    /\ IsIn(f.filter, key)
    /\ \A k \in (Ks \ {0}) \intersect 0 .. f.filter.k :
         /\ IsInBloom(f.filter, k, key)
         /\ key \in Addresses => IsAddressInBloom(f.filter, k, key)
=============================================================================
