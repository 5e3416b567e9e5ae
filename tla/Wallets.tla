------------------------------- MODULE Wallets -------------------------------
(***************************************************************************)
(* Who signs.  A host, the Hardhat plugin (packages/hardhat-plugin) or the *)
(* server of packages/rpc-proxy, makes an internal wallet of its           *)
(* configuration (packages/network/src/provider/helpers) and a provider of *)
(* it; a program gets signers from the provider, or makes one of a key of  *)
(* its own, and signs, calls and estimates with them (signer/signers).     *)
(* Sending is the rest of a signer: what it sends.                         *)
(*                                                                         *)
(* A signer made of a buffer keeps the buffer, not a copy.  The signer     *)
(* writes into the request object of the program, which the program uses   *)
(* again, in part rewritten, with the same or another signer.              *)
(***************************************************************************)
EXTENDS Keys, Clauses

CONSTANTS
  Networks,    \* configurations: the host, the network's accounts, its delegator
  HdKeyOf,     \* the private key of the child of words at an index
  Whiches,     \* what getSigner is given: an index, or a text for an address
  AddressText, \* the text of the address of a private key
  Intentions,  \* what a program wants done, as sequences of intentions
  Messages,    \* what it signs
  Unset        \* undefined: a field that is not there

ASSUME WalletsAssumption ==
  /\ AddressText \in [PrivateKeys -> AddressTexts]
  /\ \A k, l \in PrivateKeys : AddressText[k] = AddressText[l] => k = l
  /\ \A n \in Networks : n.host \in {"hardhat", "proxy"}

\* What a configuration may have for accounts, and what getSigner takes.
ASSUME ConfigurationAssumption ==
  /\ \A n \in Networks :
       LET accounts == n.accounts
       IN  \/ DOMAIN accounts \in {{"unset"}, {"remote"}}
           \/ DOMAIN accounts = {"keys"} /\ accounts.keys \in Seq(PrivateKeys \union {Short})
           \/ /\ DOMAIN accounts = {"words", "count", "initialIndex"}
              /\ accounts.count \in Nat /\ accounts.initialIndex \in Nat
  /\ \A which \in Whiches :
       DOMAIN which = {"text"} \/ (DOMAIN which = {"index"} /\ which.index \in Nat)

\* What intentions there are, and that nothing of their clauses is undefined.
ASSUME IntentionsAssumption ==
  /\ Unset # Nobody
  /\ \A intended \in Intentions :
       /\ intended \in Seq({intended[i] : i \in DOMAIN intended})
       /\ Unset # [i \in DOMAIN intended |-> ClauseFor(intended[i])]
       /\ \A i \in DOMAIN intended : IsIntention(intended[i])
       /\ \A i \in DOMAIN intended :
            LET c == ClauseFor(intended[i])
            IN  c # BadClause => Unset \notin {c.to, c.value, c.data}

VARIABLES
  provider,  \* the provider of the host and the configuration it is of, or NoProvider
  signer,    \* the signer in use, and what it was asked for, or NoSigner
  object,    \* the request object of the program
  written,   \* history: what the program last wrote into it
  sent       \* history: the last signature, or simulation asked of the node

walletVars == <<provider, signer, object, written, sent>>

NoProvider  == [none |-> "provider"]
NoWallet    == [none |-> "wallet"]
NoSigner    == [none |-> "signer"]
NoDelegator == [none |-> "delegator"]

-----------------------------------------------------------------------------
(***************************************************************************)
(* Internal wallets.                                                       *)
(***************************************************************************)
\* DelegationHandler: null stands for undefined too.
DelegatorOrUndefined(delegator) == delegator

\* The account of a key of the configuration, with or without 0x.
Account(key) == [privateKey |-> key, address |-> AddressText[key]]

BaseWallet(accounts, delegator) == [accounts |-> accounts, delegator |-> delegator]

\* Mutant of HDWallet: the children are counted from 0.
HDWalletFromZero(words, count, initialIndex, delegator) ==
  BaseWallet([i \in 1 .. count |-> Account(HdKeyOf[words, i - 1])], delegator)

\* ProviderInternalHDWallet: count children from initialIndex on.
HDWallet(words, count, initialIndex, delegator) ==
  BaseWallet([i \in 1 .. count |-> Account(HdKeyOf[words, initialIndex + i - 1])], delegator)

\* createWalletFromHardhatNetworkConfig; without accounts the delegator is lost.
CreateWallet(network) ==
  CASE "unset" \in DOMAIN network.accounts  -> BaseWallet(<<>>, NoDelegator)
    [] "remote" \in DOMAIN network.accounts -> NoWallet
    [] "keys" \in DOMAIN network.accounts ->
         IF \A i \in DOMAIN network.accounts.keys : IsValidPrivateKey(network.accounts.keys[i])
         THEN BaseWallet([i \in DOMAIN network.accounts.keys |-> Account(network.accounts.keys[i])],
                         DelegatorOrUndefined(network.delegator))
         ELSE NoWallet
    [] OTHER ->
         HDWallet(network.accounts.words, network.accounts.count, network.accounts.initialIndex,
                  DelegatorOrUndefined(network.delegator))

\* The server of rpc-proxy counts the children from 0.
ProxyWallet(network) ==
  IF "words" \in DOMAIN network.accounts
  THEN HDWallet(network.accounts.words, network.accounts.count, 0, network.delegator)
  ELSE CreateWallet(network)

NoAccount == [none |-> "account"]

\* getAccountSync: by index, 0 if none is given, or by address in any letters.
GetAccount(wallet, which) ==
  IF "index" \in DOMAIN which
  THEN IF which.index + 1 \in DOMAIN wallet.accounts
       THEN wallet.accounts[which.index + 1] ELSE NoAccount
  ELSE IF \E i \in DOMAIN wallet.accounts : wallet.accounts[i].address = which.text
       THEN wallet.accounts[CHOOSE i \in DOMAIN wallet.accounts :
                              /\ wallet.accounts[i].address = which.text
                              /\ \A j \in 1 .. i - 1 : wallet.accounts[j].address # which.text]
       ELSE NoAccount

\* getSignerSync: a signer with the account's key and the provider.
SignerOf(wallet, which) ==
  LET account == GetAccount(wallet, which)
  IN  IF account = NoAccount THEN NoSigner
      ELSE [key |-> account.privateKey, connected |-> TRUE, for |-> which]

-----------------------------------------------------------------------------
(***************************************************************************)
(* VeChainAbstractSigner and VeChainPrivateKeySigner.                      *)
(***************************************************************************)
\* The private key of the signer: what its buffer holds now, if it has one.
KeyNow == IF "buffer" \in DOMAIN signer THEN buffer[signer.buffer] ELSE signer.key

GetAddress == AddressText[KeyNow]

Blank == [from |-> Unset, to |-> Unset, value |-> Unset, data |-> Unset, clauses |-> Unset]

\* Mutant of PopulateCall: a sender in the object is left as it is.
PopulateCallOfAnyone(o, address) ==
  LET from  == IF o.from = Unset THEN address ELSE o.from
      named == [o EXCEPT !.from = from, !.to = IF @ = Unset THEN Nobody ELSE @]
  IN  IF o.clauses \notin {Unset, <<>>}
      THEN [named EXCEPT !.to = o.clauses[1].to, !.value = o.clauses[1].value,
                         !.data = o.clauses[1].data]
      ELSE named

\* populateCall: the sender is set, or must be the signer; the first clause is
\* written over the other fields.
PopulateCall(o, address) ==
  LET named == [o EXCEPT !.from = address, !.to = IF @ = Unset THEN Nobody ELSE @]
  IN  CASE o.from \notin {Unset, address} -> BadClause
        [] o.from \in {Unset, address} /\ o.clauses \notin {Unset, <<>>} ->
             [named EXCEPT !.to = o.clauses[1].to, !.value = o.clauses[1].value,
                           !.data = o.clauses[1].data]
        [] OTHER -> named

\* _buildClauses: one clause, which creates a contract if there is no recipient.
BuildClauses(o) ==
  IF o.to # Nobody
  THEN <<[to |-> o.to, value |-> IF o.value = Unset THEN 0 ELSE o.value,
          data |-> IF o.data = Unset THEN Nothing ELSE o.data]>>
  ELSE <<IF o.data = Unset THEN DeployContract("", <<>>)
         ELSE [to |-> Nobody, value |-> 0, data |-> o.data]>>

ClausesOf(o) == IF o.clauses = Unset THEN BuildClauses(o) ELSE o.clauses

-----------------------------------------------------------------------------
WalletsInit ==
  /\ provider = NoProvider
  /\ signer = NoSigner
  /\ object = Blank
  /\ written = <<[what |-> "create", code |-> "", params |-> <<>>]>>
  /\ sent = Unset

\* The plugin: only a network of VeChain gets a provider, and no wallet, no provider.
ExtendEnvironment(network) ==
  /\ provider = NoProvider
  /\ network.host = "hardhat" /\ network.vechain
  /\ CreateWallet(network) # NoWallet
  /\ provider' = [wallet |-> CreateWallet(network), delegated |-> network.enableDelegation,
                  of |-> network]
  /\ UNCHANGED <<signer, object, written, sent, keysVars>>

StartProxy(network) ==
  /\ provider = NoProvider
  /\ network.host = "proxy"
  /\ ProxyWallet(network) # NoWallet
  /\ provider' = [wallet |-> ProxyWallet(network), delegated |-> network.enableDelegation,
                  of |-> network]
  /\ UNCHANGED <<signer, object, written, sent, keysVars>>

\* VeChainProvider.getSigner: null for an account that the wallet does not have, and
\* a text that is no address throws.
GetSigner(which) ==
  /\ provider # NoProvider
  /\ "text" \in DOMAIN which => which.text \in AddressTexts
  /\ signer' = SignerOf(provider.wallet, which)
  /\ UNCHANGED <<provider, object, written, sent, keysVars>>

\* new VeChainPrivateKeySigner, without a provider.
NewSigner(b) ==
  /\ IsValidPrivateKey(buffer[b])
  /\ signer' = [buffer |-> b, connected |-> FALSE, for |-> [own |-> b]]
  /\ UNCHANGED <<provider, object, written, sent, keysVars>>

\* connect: a signer of the same key, if it still is one.
Connect ==
  /\ signer # NoSigner /\ IsValidPrivateKey(KeyNow)
  /\ signer' = [signer EXCEPT !.connected = provider # NoProvider]
  /\ UNCHANGED <<provider, object, written, sent, keysVars>>

\* signMessage and signTypedData, of different hashes; 27 is added to the last byte
\* of the signature.
Signs(kind, message) ==
  /\ signer # NoSigner /\ IsValidPrivateKey(KeyNow)
  /\ sent' = [kind |-> kind, for |-> signer.for, address |-> GetAddress,
              signature |-> Signature(<<kind, message>>, KeyNow), v |-> 27]
  /\ UNCHANGED <<provider, signer, object, written, keysVars>>

SignMessage(message)   == Signs("message", message)
SignTypedData(message) == Signs("typed data", message)

\* The program writes an object, or only its clauses, or only the other fields:
\* the sender stays, if it was written or set before.
Write(intended, asClauses, keepsFrom) ==
  LET clauses == [i \in DOMAIN intended |-> ClauseFor(intended[i])]
      from    == IF keepsFrom THEN object.from ELSE Unset
  IN  /\ \A i \in DOMAIN clauses : clauses[i] # BadClause
      /\ asClauses \/ Len(clauses) = 1
      /\ object' = IF asClauses THEN [object EXCEPT !.from = from, !.clauses = clauses]
                   ELSE [from |-> from, to |-> clauses[1].to, value |-> clauses[1].value,
                         data |-> clauses[1].data, clauses |-> Unset]
      /\ written' = intended
      /\ UNCHANGED <<provider, signer, sent, keysVars>>

\* call and estimateGas: without a provider they throw, before the object is looked
\* at; else the object is populated and its clauses simulated.
Simulates(kind) ==
  /\ signer # NoSigner /\ signer.connected /\ IsValidPrivateKey(KeyNow)
  /\ LET o == PopulateCall(object, GetAddress)
     IN  /\ o # BadClause
         /\ object' = o
         /\ sent' = [kind |-> kind, signer |-> GetAddress, caller |-> o.from,
                     clauses |-> ClausesOf(o), wrote |-> written]
  /\ UNCHANGED <<provider, signer, written, keysVars>>

Call == Simulates("call")

EstimateGas == Simulates("estimate")

WalletsNext ==
  \/ \E network \in Networks : ExtendEnvironment(network) \/ StartProxy(network)
  \/ \E which \in Whiches : GetSigner(which)
  \/ \E b \in Buffers : NewSigner(b)
  \/ Connect
  \/ \E message \in Messages : SignMessage(message) \/ SignTypedData(message)
  \/ \E intended \in Intentions, asClauses, keepsFrom \in BOOLEAN :
       Write(intended, asClauses, keepsFrom)
  \/ Call
  \/ EstimateGas

\* The keys in buffers change meanwhile.
WalletsSpec ==
  /\ KeysInit /\ WalletsInit
  /\ [][WalletsNext \/ (KeysNext /\ UNCHANGED walletVars)]_<<keysVars, walletVars>>

-----------------------------------------------------------------------------
\* The key that a configuration means by an index.
KeyAt(network, index) ==
  IF "keys" \in DOMAIN network.accounts THEN network.accounts.keys[index + 1]
  ELSE HdKeyOf[network.accounts.words,
               index + IF network.host = "proxy" THEN 0 ELSE network.accounts.initialIndex]

\* A signature is by the account whose address the signer gives, at the moment it
\* gives it; a signer that was got for an address signs with the key of that address
\* and no other, and one got for an index with the key that the configuration of a
\* host has there, whatever buffers hold and whichever provider it was connected to.
SignedByTheAccount ==
  sent # Unset /\ "signature" \in DOMAIN sent =>
    /\ AddressText[sent.signature.by] = sent.address
    /\ "text" \in DOMAIN sent.for => sent.address = sent.for.text
    /\ "index" \in DOMAIN sent.for =>
         sent.signature.by = KeyAt(provider.of, sent.for.index)

\* What a signer has simulated, for a call or for the gas, is called by the signer
\* and does what the program last wrote into the request object, however often, by
\* whichever signers and in whichever form the object was used before.
SimulatedAsWritten ==
  sent # Unset /\ "clauses" \in DOMAIN sent =>
    /\ sent.caller = sent.signer
    /\ [i \in DOMAIN sent.clauses |-> Does(sent.clauses[i])] = sent.wrote
=============================================================================
