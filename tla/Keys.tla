-------------------------------- MODULE Keys --------------------------------
(***************************************************************************)
(* Keys and what is made of them in core: secp256k1, addresses, HD nodes   *)
(* and mnemonics, keystores in both implementations, and certificates.     *)
(*                                                                         *)
(* A program keeps private keys in buffers.  HDNode.fromPrivateKey and the *)
(* experimental keystore fill the buffer that they are given with zeros;   *)
(* the other functions leave it.  Cryptography is ideal: a signature, a    *)
(* cipher and a hash are the terms that they are computed from.            *)
(***************************************************************************)
EXTENDS Naturals, Sequences, FiniteSets

CONSTANTS
  PrivateKeys,  \* valid private keys
  Zeros32,      \* 32 bytes of zeros: no private key
  Short,        \* bytes that are not 32
  Buffers,      \* buffers of the program
  Passwords,    \* passwords
  Mnemonics,    \* the words of a mnemonic
  NoMnemonic,   \* words that are none
  Paths,        \* derivation paths
  ChildOf,      \* the private key that words and a path derive, or BadPath
  BadPath,      \* a path that cannot be derived
  Contents,     \* what certificates say
  MaxStores,    \* bound on the keystores
  MaxCerts      \* bound on what is signed

ASSUME KeysAssumption ==
  /\ NoMnemonic \notin Mnemonics
  /\ Zeros32 \notin PrivateKeys /\ Short \notin PrivateKeys /\ Zeros32 # Short
  /\ ChildOf \in [Mnemonics \X Paths -> PrivateKeys \union {BadPath}]
  /\ MaxStores \in Nat /\ MaxCerts \in Nat

VARIABLES
  buffer,        \* what each buffer holds
  experimental,  \* EXPERIMENTAL_CRYPTOGRAPHY
  stores,        \* keystores, as they were made or edited since
  opened,        \* the account that decrypt gave last, with its keystore
  certificates,  \* certificates, as they were signed
  received       \* a certificate as it arrives where it is verified

keysVars == <<buffer, experimental, stores, opened, certificates, received>>

NoKey == [thrown |-> TRUE]

-----------------------------------------------------------------------------
(***************************************************************************)
(* secp256k1 and Address.                                                  *)
(***************************************************************************)
IsValidPrivateKey(key) == key \in PrivateKeys

DerivePublicKey(key, isCompressed) ==
  IF IsValidPrivateKey(key) THEN [of |-> key, compressed |-> isCompressed] ELSE NoKey

InflatePublicKey(public) == [public EXCEPT !.compressed = FALSE]

\* Address.ofPublicKey: of the inflated key, in checksummed letters.
Address(account, letters) == [account |-> account, letters |-> letters]

OfPublicKey(public) == Address(InflatePublicKey(public).of, "checksum")

\* Address.ofPrivateKey, which throws for what is no key.
OfPrivateKey(key) ==
  IF DerivePublicKey(key, TRUE) = NoKey THEN NoKey ELSE OfPublicKey(DerivePublicKey(key, TRUE))

\* Address.checksum and toLowerCase.
Checksum(address)    == [address EXCEPT !.letters = "checksum"]
ToLowerCase(address) == [address EXCEPT !.letters = "lower"]

\* sign and recover: another hash, or another signature, gives a key of nobody.
Signature(hash, key) == [hash |-> hash, by |-> key]
Recover(hash, signature) ==
  [of |-> IF signature.hash = hash THEN signature.by ELSE Zeros32, compressed |-> FALSE]

-----------------------------------------------------------------------------
(***************************************************************************)
(* Keystores: of the parts that decrypt looks at, those that may be sound  *)
(* and yet be others than they were, and the version.                      *)
(***************************************************************************)
NoAddress == [account |-> Short, letters |-> "none"]

\* SCRYPT_PARAMS.
ScryptParams == [N |-> 2 ^ 17, r |-> 8, p |-> 1]

\* encodeScryptParams and decodeScryptParams throw for the others.
EncodeScryptParams(scrypt) ==
  /\ \E e \in 0 .. 30 : scrypt.N = 2 ^ e
  /\ scrypt.r > 0 /\ scrypt.p > 0

DecodeScryptParams(store) ==
  /\ \E e \in 0 .. 30 : store.scrypt.N = 2 ^ e
  /\ store.scrypt.r > 0 /\ store.scrypt.p > 0

\* The key that scrypt derives of a password.
Derived(password, scrypt) == [password |-> password, scrypt |-> scrypt]

\* The parts are in a field that ethers calls "Crypto".
Keystore(by, key, password) ==
  LET derived == Derived(password, ScryptParams)
  IN  [field |-> IF by = "ethers" THEN "Crypto" ELSE "crypto",
       address |-> OfPrivateKey(key), version |-> 3, scrypt |-> ScryptParams,
       cipher |-> [key |-> key, derived |-> derived],
       mac |-> [key |-> key, derived |-> derived]]

\* What a cipher gives under a password: with another one, or other parameters, some
\* other bytes, which may be a key.
Deciphered(store, password) ==
  IF store.cipher.derived = Derived(password, store.scrypt) THEN {store.cipher.key}
  ELSE (PrivateKeys \ {store.cipher.key}) \union {Zeros32}

\* Mutant of AuthenticatedBy: the mac is not looked at.
AuthenticatedByNothing(store, password) == TRUE

\* The mac of the keystore is that of the password and the ciphertext.
AuthenticatedBy(store, password) ==
  store.mac = [key |-> store.cipher.key, derived |-> Derived(password, store.scrypt)]

\* keystore.isValid, which in either implementation asks for version 3.
IsValid(store) == store.version = 3

\* The key is that of the address that the keystore names, if it names one.
NamesAddressOf(store, key) ==
  /\ IsValidPrivateKey(key)
  /\ store.address = NoAddress \/ Checksum(store.address) = OfPrivateKey(key)

\* keystoreExperimental.decrypt, which reads the field "crypto" alone.
OpensExperimental(store, password, key) ==
  /\ store.field = "crypto"
  /\ IsValid(store) /\ DecodeScryptParams(store)
  /\ AuthenticatedBy(store, password)
  /\ key \in Deciphered(store, password)
  /\ NamesAddressOf(store, key)

\* decryptKeystoreJson of ethers, which reads the fields in any letters.
DecryptKeystoreJson(store, password) ==
  {key \in Deciphered(store, password) :
     DecodeScryptParams(store) /\ AuthenticatedBy(store, password) /\ NamesAddressOf(store, key)}

\* keystoreEthers.decrypt.
OpensEthers(store, password, key) ==
  IsValid(store) /\ key \in DecryptKeystoreJson(store, password)

-----------------------------------------------------------------------------
(***************************************************************************)
(* Certificates.                                                           *)
(***************************************************************************)
NoSignature == [none |-> TRUE]

\* Mutant of Encode: the signer is left out.
EncodeContent(certificate) == [content |-> certificate.content]

\* encode: everything but the signature, the signer in lower case.
Encode(certificate) ==
  [content |-> certificate.content, signer |-> ToLowerCase(certificate.signer)]

\* verify, which throws for the others.
Verifies(certificate) ==
  /\ certificate.signature # NoSignature
  /\ ToLowerCase(OfPublicKey(Recover(Encode(certificate), certificate.signature)))
       = ToLowerCase(certificate.signer)

-----------------------------------------------------------------------------
(***************************************************************************)
(* A program.                                                              *)
(***************************************************************************)
KeysInit ==
  /\ buffer \in [Buffers -> PrivateKeys \union {Short}]
  /\ experimental \in BOOLEAN
  /\ stores = {}
  /\ opened = {}
  /\ certificates = {}
  /\ received = {}

Others == <<stores, opened, certificates, received>>

Erase(b) == buffer' = [buffer EXCEPT ![b] = IF @ = Short THEN Short ELSE Zeros32]

UseExperimentalCryptography(on) ==
  /\ experimental' = on
  /\ UNCHANGED <<buffer, Others>>

\* generatePrivateKey, into a buffer.
GeneratePrivateKey(b, key) ==
  /\ buffer' = [buffer EXCEPT ![b] = key]
  /\ UNCHANGED <<experimental, Others>>

\* A keystore is made of the key of a buffer; what is no private key has no address,
\* and none is made.
Stores(by, b, password) ==
  /\ stores' = IF IsValidPrivateKey(buffer[b]) /\ EncodeScryptParams(ScryptParams)
               THEN stores \union {[store |-> Keystore(by, buffer[b], password),
                                   key |-> buffer[b], password |-> password]}
               ELSE stores
  /\ Cardinality(stores') <= MaxStores
  /\ UNCHANGED <<experimental, opened, certificates, received>>

\* keystore.encrypt: the experimental one ends with zeros in the buffer, whether it
\* throws or not.
EncryptEthers(b, password) ==
  ~experimental /\ Stores("ethers", b, password) /\ UNCHANGED buffer

EncryptExperimental(b, password) ==
  experimental /\ Stores("experimental", b, password) /\ Erase(b)

\* A keystore is edited, or made by another program: its address is left out, in
\* other letters or another one, its version or a parameter is another one, sound or
\* not, its parts are in a field of the other name.
Edit(s, store) ==
  /\ stores' = (stores \ {s}) \union {[s EXCEPT !.store = store]}
  /\ UNCHANGED <<buffer, experimental, opened, certificates, received>>

Edits(store) ==
  {[store EXCEPT !.address = NoAddress], [store EXCEPT !.version = 4],
   [store EXCEPT !.scrypt.N = 3], [store EXCEPT !.scrypt.p = 2],
   [store EXCEPT !.field = "crypto"], [store EXCEPT !.field = "Crypto"]}
  \union (IF store.address = NoAddress THEN {} ELSE {[store EXCEPT !.address.letters = "lower"]})
  \union {[store EXCEPT !.address = Address(key, "lower")] : key \in PrivateKeys}

\* keystore.decrypt, with the implementation in use.
Decrypt(s, password, key) ==
  /\ IF experimental THEN OpensExperimental(s.store, password, key)
                     ELSE OpensEthers(s.store, password, key)
  /\ opened' = {[of |-> s, given |-> password, key |-> key, address |-> OfPrivateKey(key)]}
  /\ UNCHANGED <<buffer, experimental, stores, certificates, received>>

\* HDNode.fromPrivateKey: the buffer is filled with zeros once its bytes are copied,
\* whether they are a key or not.
NodeFromPrivateKey(b) ==
  /\ Erase(b)
  /\ UNCHANGED <<experimental, Others>>

\* HDNode.fromMnemonic, which throws for what are no words of a mnemonic and for a bad
\* path.
FromMnemonic(words, path) ==
  IF words \in Mnemonics /\ ChildOf[words, path] # BadPath THEN ChildOf[words, path] ELSE NoKey

\* Mnemonic.of.
MnemonicOf(words) == IF words \in Mnemonics THEN words ELSE NoMnemonic

\* Mnemonic.generate: of 12, 15, 18, 21 or 24 words.
GeneratedMnemonics(size) ==
  IF size \in {12, 15, 18, 21, 24} THEN {MnemonicOf(words) : words \in Mnemonics} ELSE {}

\* Mnemonic.toPrivateKey, into a buffer.
ToPrivateKey(b, words, path) ==
  /\ FromMnemonic(words, path) # NoKey
  /\ GeneratePrivateKey(b, FromMnemonic(words, path))

\* Address.ofMnemonic.
OfMnemonic(words, path) ==
  IF FromMnemonic(words, path) = NoKey THEN NoKey
  ELSE OfPublicKey(DerivePublicKey(FromMnemonic(words, path), TRUE))

\* certificate.sign, with the key of a buffer and whoever the certificate names.
Certify(b, content, signer) ==
  /\ IsValidPrivateKey(buffer[b]) /\ Cardinality(certificates) < MaxCerts
  /\ LET bare == [content |-> content, signer |-> signer, signature |-> NoSignature]
     IN  certificates' = certificates \union
           {[bare EXCEPT !.signature = Signature(Encode(bare), buffer[b])]}
  /\ UNCHANGED <<buffer, experimental, stores, opened, received>>

\* A part of a certificate is changed on its way: what it says, its signer, or its
\* signature for that of another certificate.
Alter(c) ==
  \E d \in [content : Contents, signer : {c.signer}, signature : {c.signature}]
       \union [content : {c.content}, signer : {Address(k, "lower") : k \in PrivateKeys},
               signature : {c.signature}]
       \union [content : {c.content}, signer : {c.signer},
               signature : {NoSignature} \union {e.signature : e \in certificates}] :
    /\ received' = {d}
    /\ UNCHANGED <<buffer, experimental, stores, opened, certificates>>

\* What puts keys into buffers.
Obtains ==
  \/ \E b \in Buffers, key \in PrivateKeys : GeneratePrivateKey(b, key)
  \/ \E b \in Buffers, words \in Mnemonics \union {NoMnemonic}, path \in Paths :
       ToPrivateKey(b, words, path)
  \/ \E b \in Buffers, size \in {11, 12}, path \in Paths :
       \E words \in GeneratedMnemonics(size) : ToPrivateKey(b, words, path)

KeystoresNext ==
  \/ \E on \in BOOLEAN : UseExperimentalCryptography(on)
  \/ \E b \in Buffers, password \in Passwords :
       EncryptEthers(b, password) \/ EncryptExperimental(b, password)
  \/ \E s \in stores : \E store \in Edits(s.store) : Edit(s, store)
  \/ \E s \in stores, password \in Passwords, key \in PrivateKeys : Decrypt(s, password, key)
  \/ \E b \in Buffers : NodeFromPrivateKey(b)

CertificatesNext ==
  \/ \E b \in Buffers, content \in Contents, k \in PrivateKeys :
       Certify(b, content, OfPrivateKey(k))
  \/ \E b \in Buffers, content \in Contents, words \in Mnemonics, path \in Paths :
       OfMnemonic(words, path) # NoKey /\ Certify(b, content, OfMnemonic(words, path))
  \/ \E c \in certificates \union received : Alter(c)

KeysNext == Obtains \/ KeystoresNext \/ CertificatesNext

KeysSpec == KeysInit /\ [][KeysNext]_keysVars

-----------------------------------------------------------------------------
\* What decrypt gives is the key that was in the buffer when the keystore was made,
\* to the password that it was made with and no other, and to nobody the key of
\* another address than the keystore names: with either implementation that opens
\* it, whatever the buffer holds since, and with the address left out or in other
\* letters.
KeystoreOpens ==
  \A o \in opened :
    /\ o.key = o.of.key /\ o.given = o.of.password
    /\ o.of.store.address.account \in {o.key, Short}

\* A certificate that verify lets pass says what its signer signed, and names its
\* signer: neither a part of it nor its signature can be taken from elsewhere.
CertificatesAreSigned ==
  \A r \in received :
    Verifies(r) =>
      \E c \in certificates :
        /\ c.content = r.content
        /\ c.signer.account = r.signer.account /\ c.signature.by = r.signer.account
=============================================================================
