-------------------------- MODULE SignedTransactions --------------------------
(***************************************************************************)
(* A transaction from its body to the node: packages/core/src/transaction  *)
(* and utils/transaction, with who uses them in packages/network/src: the  *)
(* signer (_signFlow, _signWithDelegator), the delegator behind a URL, and *)
(* sendRawTransaction.                                                     *)
(*                                                                         *)
(* A raw transaction is the list its RLP encoding stands for; a hash is    *)
(* what was hashed; a signature is a sequence of parts of 65 bytes, each   *)
(* made by a key over a hash.  A key stands for its account.               *)
(***************************************************************************)
EXTENDS Rlp

CONSTANTS
  Width,    \* the width in bytes of the fields
  Gas,      \* TRANSACTIONS_GAS_CONSTANTS
  Bodies,   \* the bodies that callers give
  Foreign,  \* raw transactions that were made elsewhere
  Keys,     \* the private keys
  Stranger, \* the account recovered from a signature over another hash
  Name,     \* a name of vet.domains, where an address is expected
  Absent    \* undefined, or not there yet

ASSUME SignedTransactionsAssumption ==
  /\ Width \in [{"chainTag", "blockRef", "expiration", "to", "value", "gasPriceCoef", "gas",
                 "dependsOn", "nonce", "features"} -> Nat \ {0}]
  /\ Width.chainTag = 1
  /\ Gas \in [{"tx", "clause", "creation", "zero", "nonzero"} -> Nat]
  /\ Stranger \notin Keys

VARIABLES
  place,     \* how far the transaction has come
  body,      \* its body
  payer,     \* history: "none", or the key of the delegator that signed
  origin,    \* history: the key that signed as its origin
  signature, \* the parts of its signature
  raw        \* the raw transaction under way

vars == <<place, body, payer, origin, signature, raw>>

Clause == [to : Hex \union {Null, Name}, value : Numeric, data : Hex]

Body ==
  [chainTag : Numeric \union {Absent},         blockRef : Hex \union {Absent},
   expiration : Numeric \union {Absent},       clauses : Seq(Clause) \union {Absent},
   gasPriceCoef : Numeric \union {Absent},     gas : Numeric \union {Absent},
   dependsOn : Hex \union {Null, Absent},      nonce : Numeric \union {Absent},
   features : Numeric, unused : Seq(Buffer)]

\* A reserved field that is undefined reads as no features and nothing unused.
Required == {"chainTag", "blockRef", "expiration", "clauses", "gasPriceCoef", "gas",
             "dependsOn", "nonce"}

ASSUME BodiesAssumption == Bodies \subseteq Body

ASSUME AbsentAssumption ==
  /\ Absent \notin Numeric \union Hex \union {Null} /\ Absent \notin Seq(Clause)
  /\ "none" \notin Keys

ASSUME NameAssumption == Name \notin Hex \union {Null}

\* Lists of the shape of the profile; unpacking throws for the others.
Unsigned ==
  Buffer \X Buffer \X Buffer \X Seq(Buffer \X Buffer \X Buffer)
    \X Buffer \X Buffer \X Buffer \X Buffer \X Seq(Buffer)

ASSUME ForeignAssumption ==
  \A r \in Foreign :
    r = [i \in 1 .. Len(r) |-> r[i]] /\ Len(r) \in {9, 10} /\ SubSeq(r, 1, 9) \in Unsigned

-----------------------------------------------------------------------------
(* Transaction: validity, encoding, signatures *)

IsValidBody(b) ==
  /\ \A f \in Required : b[f] # Absent
  /\ b.chainTag.n \in Byte
  /\ b.blockRef.head \in Prefixes
  /\ Len(HexBlobData(b.blockRef)) = Width.blockRef

IsDelegated(b) == b.features.n % 2 = 1

IsSignatureValid(b, s) == Len(s) = IF IsDelegated(b) THEN 2 ELSE 1

\* Mutant of Trimmed: empty buffers stay at the end.
Untrimmed(list) == list

\* What is left of a list of buffers without the empty ones at its end.
Trimmed(list) ==
  LET kept == {i \in DOMAIN list : \E j \in i .. Len(list) : list[j] # <<>>}
  IN  SubSeq(list, 1, Cardinality(kept))

EncodeReservedField(b) == Trimmed(<<NumericData(b.features)>> \o b.unused)

ClauseOk(c) ==
  c.to # Name /\ OptionalOk(c.to, Width.to) /\ NumericOk(c.value, Width.value)

\* Whether encodeObject takes the body; it throws otherwise.
Encodable(b) ==
  /\ \A f \in {"chainTag", "expiration", "gasPriceCoef", "gas", "nonce", "features"} :
       NumericOk(b[f], Width[f])
  /\ FixedOk(b.blockRef, Width.blockRef)
  /\ OptionalOk(b.dependsOn, Width.dependsOn)
  /\ \A i \in DOMAIN b.clauses : ClauseOk(b.clauses[i])

\* Mutant of EncodeClauses: addresses are packed like block references.
EncodeClausesCompact(clauses) ==
  [i \in DOMAIN clauses |->
     <<IF clauses[i].to = Null THEN <<>> ELSE CompactData(clauses[i].to),
       NumericData(clauses[i].value), HexBlobData(clauses[i].data)>>]

EncodeClauses(clauses) ==
  [i \in DOMAIN clauses |->
     <<OptionalData(clauses[i].to), NumericData(clauses[i].value),
       HexBlobData(clauses[i].data)>>]

Encode(b) ==
  <<NumericData(b.chainTag), CompactData(b.blockRef), NumericData(b.expiration),
    EncodeClauses(b.clauses), NumericData(b.gasPriceCoef), NumericData(b.gas),
    OptionalData(b.dependsOn), NumericData(b.nonce), EncodeReservedField(b)>>

\* getSignatureHash; for is the origin a delegator signs for, or Absent.
SignatureHash(b, for) == [encoded |-> Encode(b), for |-> for]

\* secp256k1.sign and recover.
Part(hash, key) == [hash |-> hash, key |-> key]

Recovered(hash, part) == IF part.hash = hash THEN part.key ELSE Stranger

OriginOf(b, s) == Recovered(SignatureHash(b, Absent), s[1])

DelegatorOf(b, s) == Recovered(SignatureHash(b, OriginOf(b, s)), s[2])

-----------------------------------------------------------------------------
(* TransactionHandler.decode *)

\* Whether the profile takes the list.
Unpackable(r) ==
  /\ \A f \in {<<1, "chainTag">>, <<3, "expiration">>, <<5, "gasPriceCoef">>, <<6, "gas">>,
               <<8, "nonce">>} : NumericBufferOk(r[f[1]], Width[f[2]])
  /\ CompactBufferOk(r[2], Width.blockRef)
  /\ OptionalBufferOk(r[7], Width.dependsOn)
  /\ \A i \in DOMAIN r[4] :
       OptionalBufferOk(r[4][i][1], Width.to) /\ NumericBufferOk(r[4][i][2], Width.value)

\* _decodeReservedField: trimmed, and the features first.
ReservedOk(list) ==
  list # <<>> => list[Len(list)] # <<>> /\ NumericBufferOk(list[1], Width.features)

DecodedFeatures(list) == NumericBuffer(IF list = <<>> THEN <<>> ELSE list[1])

DecodedClauses(list) ==
  [i \in DOMAIN list |->
     [to |-> OptionalBuffer(list[i][1]), value |-> NumericBuffer(list[i][2]),
      data |-> HexBlobBuffer(list[i][3])]]

DecodedBody(r) ==
  [chainTag     |-> NumericBuffer(r[1]),
   blockRef     |-> CompactBuffer(r[2], Width.blockRef),
   expiration   |-> NumericBuffer(r[3]),
   clauses      |-> DecodedClauses(r[4]),
   gasPriceCoef |-> NumericBuffer(r[5]),
   gas          |-> NumericBuffer(r[6]),
   dependsOn    |-> OptionalBuffer(r[7]),
   nonce        |-> NumericBuffer(r[8]),
   features     |-> DecodedFeatures(r[9]),
   unused       |-> SubSeq(r[9], 2, Len(r[9]))]

\* Whether decode takes a raw transaction as a signed or as an unsigned one.
Decodable(r, signed) ==
  /\ Len(r) = IF signed THEN 10 ELSE 9
  /\ Unpackable(r)
  /\ ReservedOk(r[9])
  /\ IsValidBody(DecodedBody(r))
  /\ signed => IsSignatureValid(DecodedBody(r), r[10])

-----------------------------------------------------------------------------
(* TransactionUtils.intrinsicGas *)

BytesGas(b) ==
  LET zeros == Cardinality({i \in DOMAIN b : b[i] = 0})
  IN  zeros * Gas.zero + (Len(b) - zeros) * Gas.nonzero

\* Mutant of DataUsedGas: the prefix is expected, and only skipped when it is there.
DataUsedGasUnskipped(h) ==
  BytesGas(h.rest) + IF h.head \in {"digits", "-digit"} THEN Gas.nonzero ELSE 0

\* The first two characters are skipped, whatever they are, and all other pairs
\* are counted.
DataUsedGas(h) == BytesGas(h.rest)

\* Names are counted as addresses; what is neither throws.
GasKnown(clauses) ==
  \A i \in DOMAIN clauses :
    LET to == clauses[i].to IN
    to \in {Null, Name} \/ (to.head \in Prefixes /\ Len(to.rest) = Width.to)

\* The sum of the costs of clauses, and of the transaction.
TotalGas(costs) ==
  LET gas[i \in 0 .. Len(costs)] == IF i = 0 THEN Gas.tx ELSE gas[i - 1] + costs[i]
  IN  gas[Len(costs)]

ClauseGas(c) == DataUsedGas(c.data) + IF c.to = Null THEN Gas.creation ELSE Gas.clause

IntrinsicGas(clauses) ==
  IF clauses = <<>> THEN Gas.tx + Gas.clause
  ELSE TotalGas([i \in DOMAIN clauses |-> ClauseGas(clauses[i])])

-----------------------------------------------------------------------------
Init ==
  /\ place = "body"
  /\ body \in Bodies
  /\ payer = "none"
  /\ origin = Absent
  /\ signature = Absent
  /\ raw = Absent

Refused == place' = "refused" /\ UNCHANGED <<body, payer, origin, signature, raw>>

\* Every way to sign first makes a Transaction, whose constructor refuses an
\* invalid body, and hashes or sends its encoding.
Usable == IsValidBody(body) /\ Encodable(body)

\* TransactionHandler.sign.
Sign(key) ==
  /\ place = "body"
  /\ IF Usable /\ ~ IsDelegated(body)
     THEN /\ signature' = <<Part(SignatureHash(body, Absent), key)>>
          /\ place' = "signed"
          /\ origin' = key
          /\ UNCHANGED <<body, payer, raw>>
     ELSE Refused

\* TransactionHandler.signWithDelegator.
SignWithDelegator(key, delegator) ==
  /\ place = "body"
  /\ IF Usable /\ IsDelegated(body)
     THEN /\ signature' = <<Part(SignatureHash(body, Absent), key),
                            Part(SignatureHash(body, key), delegator)>>
          /\ place' = "signed"
          /\ origin' = key
          /\ payer' = delegator
          /\ UNCHANGED <<body, raw>>
     ELSE Refused

\* getDelegationSignatureUsingUrl: the unsigned transaction is sent to the
\* delegator.
AskDelegator(key) ==
  /\ place = "body"
  /\ IF Usable
     THEN /\ raw' = Encode(body)
          /\ place' = "asked"
          /\ origin' = key
          /\ UNCHANGED <<body, payer, signature>>
     ELSE Refused

\* The signatures are put together and the Transaction is built anew.
Answered(parts, delegator) ==
  LET both == <<Part(SignatureHash(body, Absent), origin)>> \o parts
  IN  IF IsSignatureValid(body, both)
      THEN /\ signature' = both
           /\ place' = "signed"
           /\ payer' = delegator
           /\ UNCHANGED <<body, origin, raw>>
      ELSE Refused

\* The delegator decodes what it was sent, and signs that for the origin.
DelegatorSigns(delegator) ==
  /\ place = "asked"
  /\ Decodable(raw, FALSE)
  /\ Answered(<<Part(SignatureHash(DecodedBody(raw), origin), delegator)>>, delegator)

\* It answers with something else: nothing, or too much.
DelegatorFails(delegator) ==
  /\ place = "asked"
  /\ \E n \in {0, 2} :
       Answered([i \in 1 .. n |-> Part(SignatureHash(body, origin), delegator)], "none")

\* sendTransaction, sendRawTransaction: the raw transaction is decoded before it
\* is posted.
Post ==
  /\ place = "signed"
  /\ LET r == Append(Encode(body), signature) IN
     IF Decodable(r, TRUE)
     THEN /\ raw' = r
          /\ place' = "posted"
          /\ UNCHANGED <<body, payer, origin, signature>>
     ELSE Refused

\* A raw transaction from elsewhere is read, by eth_sendRawTransaction or by a
\* caller of decode.
Read(r, signed) ==
  /\ place = "body"
  /\ IF Decodable(r, signed)
     THEN /\ raw' = r
          /\ place' = "read"
          /\ UNCHANGED <<body, payer, origin, signature>>
     ELSE Refused

Next ==
  \/ \E key \in Keys : Sign(key) \/ AskDelegator(key)
  \/ \E key, delegator \in Keys : SignWithDelegator(key, delegator)
  \/ \E delegator \in Keys : DelegatorSigns(delegator) \/ DelegatorFails(delegator)
  \/ Post
  \/ \E r \in Foreign, signed \in BOOLEAN : Read(r, signed)

Spec == Init /\ [][Next]_vars

-----------------------------------------------------------------------------
(* Properties *)

Decoded == place \in {"posted", "read"}

\* What is read is well formed: a body with every field there, which can be
\* encoded, whether it was encoded here or elsewhere.
TypeOK ==
  /\ place \in {"body", "asked", "signed", "posted", "read", "refused"}
  /\ body \in Body
  /\ payer \in Keys \union {"none"}
  /\ origin \in Keys \union {Absent}
  /\ signature = Absent \/ Len(signature) \in {1, 2}
  /\ Decoded => /\ DecodedBody(raw) \in Body
                /\ Absent \notin {DecodedBody(raw)[f] : f \in Required}
                /\ Encodable(DecodedBody(raw))

\* A transaction has one encoding: whatever raw transaction decode takes is the
\* encoding of what decode makes of it.  Identity and signatures rest on this,
\* as they are taken over the encoding again.
OneEncoding ==
  Decoded => /\ Encode(DecodedBody(raw)) = SubSeq(raw, 1, 9)
             /\ (Len(raw) = 10) => IsSignatureValid(DecodedBody(raw), raw[10])

\* Whether what is read of a hexadecimal string is the string that was given.
\* One without its prefix loses two digits to it; one with a negative prefix is
\* read as nothing.
SameHex(given, got) == given = Null \/ given.head = "0x" => got = given

SameClause(given, got) ==
  /\ SameHex(given.to, got.to)
  /\ got.value.n = given.value.n
  /\ SameHex(given.data, got.data)

\* What this package encodes, it takes back: neither what it sends to a delegator
\* nor what it has signed is refused for its form.  The node reads out of a
\* posted transaction who signed it: the origin, and exactly if it is delegated,
\* the delegator, also when this one signed for what it had decoded itself; and
\* the body that was given: as many clauses, each to the same account with the
\* same amount and data, and every other field, as far as its hexadecimal
\* strings are of the form that the kinds ask for.
ReadAsSigned ==
  /\ place = "asked" => Decodable(raw, FALSE)
  /\ place = "signed" => Decodable(Append(Encode(body), signature), TRUE)
  /\ place = "posted" =>
       LET b == DecodedBody(raw) IN
       /\ OriginOf(b, raw[10]) = origin
       /\ IsDelegated(b) <=> payer # "none"
       /\ IsDelegated(b) => DelegatorOf(b, raw[10]) = payer
       /\ Len(b.clauses) = Len(body.clauses)
       /\ \A i \in DOMAIN body.clauses : SameClause(body.clauses[i], b.clauses[i])
       /\ \A f \in {"chainTag", "expiration", "gasPriceCoef", "gas", "nonce", "features"} :
            b[f].n = body[f].n
       /\ b.blockRef = body.blockRef
       /\ SameHex(body.dependsOn, b.dependsOn)
       /\ b.unused = Trimmed(body.unused)

\* The gas that the node computes from the encoding, byte by byte.
PackedGas(c) == BytesGas(c[3]) + IF c[1] = <<>> THEN Gas.creation ELSE Gas.clause

NodeGas(r) ==
  IF r[4] = <<>> THEN Gas.tx + Gas.clause
  ELSE TotalGas([i \in DOMAIN r[4] |-> PackedGas(r[4][i])])

Negative(h) == h # Null /\ h.head = "-0x"

\* The intrinsic gas computed from the clauses given is at least what the node
\* computes from the encoding, whatever was done to the clauses on the way, so
\* long as no address is negative: that one is counted as a call and encoded as a
\* creation.  It is the same if no data is negative either.
GasOfEncoding ==
  /\ place = "posted"
  /\ GasKnown(body.clauses)
  /\ \A i \in DOMAIN body.clauses : ~ Negative(body.clauses[i].to)
  => /\ IntrinsicGas(body.clauses) >= NodeGas(raw)
     /\ (\A i \in DOMAIN body.clauses : ~ Negative(body.clauses[i].data))
          => IntrinsicGas(body.clauses) = NodeGas(raw)
==============================================================================
