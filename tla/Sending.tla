------------------------------- MODULE Sending -------------------------------
(***************************************************************************)
(* How a transaction gets from a caller to the node.                       *)
(*                                                                         *)
(* VeChainAbstractSigner and VeChainPrivateKeySigner (packages/network/    *)
(* src/signer) populate, sign and send a request object; TransactionsModule*)
(* (thor-client/transactions) builds bodies and posts transactions;        *)
(* eth_sendTransaction, ContractsModule and ContractFactory (thor-client/  *)
(* contracts) are built on them.  The signer writes the sender into the    *)
(* caller's object, so that concurrent calls on one object meet.           *)
(*                                                                         *)
(* A call is at a place between two awaits.  At "check", "name" and        *)
(* "recheck" it awaits only a promise that is already settled: the runtime *)
(* goes through these before it takes a response (Quiet).                  *)
(***************************************************************************)
EXTENDS Integers

CONSTANTS
  Calls,        \* the calls that send
  Waiters,      \* the calls of waitForDeployment
  Requests,     \* the request objects of callers, which calls may share
  Accounts,     \* the accounts whose keys some signer has
  Wallet,       \* those of the provider's wallet
  Owner,        \* the account of the signer of a contract factory and its contracts
  Gas,          \* the values of the field gas
  Shapes,       \* what callers put into their objects
  Options,      \* what they give as options of a deployment
  MaxBlock,     \* bound on the node's chain
  Absent,       \* a field the caller did not give
  Given,        \* a nonce the caller gave
  NoDeployment  \* the contract factory before its first deployment

ASSUME SendingAssumption ==
  /\ Calls \intersect Requests = {}
  /\ Wallet \subseteq Accounts
  /\ Owner \in Accounts
  /\ MaxBlock \in Nat
  /\ Given \notin Calls
  /\ Absent \notin Accounts \union Gas \union Calls \union {Given}
  /\ Absent \notin Nat
  /\ Shapes \subseteq [from : Accounts \union {Absent}, gas : Gas \union {Absent},
                       nonce : {Given, Absent},         ref : {0, Absent}]
  /\ Options \subseteq [from : {Absent}, gas : {Absent}, nonce : {Given, Absent},
                        ref : {0, Absent}]

VARIABLES
  wallet,    \* the delegator of the provider's wallet, and enableDelegation
  objects,   \* the request objects: the callers', and one of each call's own
  requested, \* history: what the objects said before any signer saw them
  call,      \* the place and the local variables of each call
  waiter,    \* the place of each waitForDeployment and what it waits for
  deployed,  \* the contract factory's deployTransaction
  received,  \* every transaction the node has accepted
  mined,     \* those that are in a block, and whether they were reverted
  best       \* number of the node's best block

vars == <<wallet, objects, requested, call, waiter, deployed, received, mined, best>>

Blocks  == 0 .. MaxBlock
Objects == Requests \union Calls

\* A call draws its own nonce at random, the caller's is Given.
Nonces == Calls \union {Given}

Request == [from  : Accounts \union {Absent}, gas : Gas \union {Absent},
            nonce : Nonces \union {Absent},   ref : Blocks \union {Absent}]

Blank == [from |-> Absent, gas |-> Absent, nonce |-> Absent, ref |-> Absent]

Payers == {"none", "key", "url"}

\* A transaction: its clauses (of an object), the rest of its body, and who signed.
Transactions ==
  [clauses : Objects, gas : Gas, nonce : Nonces, ref : Blocks, delegated : BOOLEAN,
   origin : Accounts, payer : Payers]

Immediate == {"check", "name", "recheck"}
Awaiting  == {"estimate", "genesis", "ref", "sponsor", "post", "reply"}
Ended     == {"done", "failed"}

Call ==
  [at      : {"idle"} \union Immediate \union Awaiting \union Ended,
   deploys : BOOLEAN,                      \* by ContractFactory.startDeployment
   plans   : BOOLEAN,                      \* startDeployment before it signs
   object  : Objects,
   account : Accounts,
   begun   : Blocks,                       \* history: the best block at the start
   asked   : Blocks,                       \* the best block when it was asked for
   gas     : Gas \union {Absent},
   nonce   : Nonces \union {Absent},
   ref     : Blocks \union {Absent},
   payer   : Payers]

TypeOK ==
  /\ wallet \in [delegator : Payers, enabled : BOOLEAN]
  /\ objects \in [Objects -> Request]
  /\ requested \in [Objects -> Request]
  /\ call \in [Calls -> Call]
  /\ waiter \in [Waiters -> [at : {"idle", "waiting"} \union Ended,
                             for : Transactions \union {NoDeployment}]]
  /\ deployed \in Transactions \union {NoDeployment}
  /\ received \subseteq Transactions
  /\ mined \subseteq [transaction : Transactions, reverted : BOOLEAN]
  /\ best \in Blocks

\* A call that has not begun.
Idle(c) ==
  [at |-> "idle", deploys |-> FALSE, plans |-> FALSE, object |-> c, account |-> Owner,
   begun |-> 0, asked |-> 0, gas |-> Absent, nonce |-> Absent, ref |-> Absent,
   payer |-> "none"]

\* A caller gives any of the fields; the nonce and the block reference it
\* gives are those of one intended transaction.
Init ==
  /\ wallet \in [delegator : Payers, enabled : BOOLEAN]
  /\ objects \in [Objects -> Shapes \union {Blank}]
  /\ \A c \in Calls : objects[c] = Blank
  /\ \A r \in Requests : objects[r] \in Shapes
  /\ requested = objects
  /\ call = [c \in Calls |-> Idle(c)]
  /\ waiter = [w \in Waiters |-> [at |-> "idle", for |-> NoDeployment]]
  /\ deployed = NoDeployment
  /\ received = {}
  /\ mined = {}
  /\ best = 0

-----------------------------------------------------------------------------
Quiet == \A c \in Calls : call[c].at \notin Immediate

Becomes(c, record) == call' = [call EXCEPT ![c] = record]

At(c, place) == Becomes(c, [call[c] EXCEPT !.at = place])

\* A call that ends keeps nothing but whether it was a deployment.
Ends(c, place) ==
  Becomes(c, [Idle(c) EXCEPT !.at = place, !.deploys = call[c].deploys])

node == <<received, mined, best>>

(* The ways to begin. *)

\* VeChainPrivateKeySigner.sendTransaction on an object of the caller.
Begin(c, object, account) ==
  /\ call[c].at = "idle"
  /\ Becomes(c, [call[c] EXCEPT !.at = "check", !.object = object, !.account = account,
                               !.begun = best])

SendTransaction(c, r, account) ==
  /\ Begin(c, r, account)
  /\ UNCHANGED <<wallet, objects, requested, waiter, deployed, node>>

\* eth_sendTransaction: the signer is the wallet's for the sender, if there is one.
EthSendTransaction(c, r) ==
  /\ IF objects[r].from \in Wallet
     THEN Begin(c, r, objects[r].from)
     ELSE call[c].at = "idle" /\ Ends(c, "failed")
  /\ UNCHANGED <<wallet, objects, requested, waiter, deployed, node>>

\* ContractsModule.executeTransaction and executeMultipleClausesTransaction,
\* by a contract's transact: a new object, which has nothing but the clauses.
ExecuteTransaction(c) ==
  /\ Begin(c, c, Owner)
  /\ UNCHANGED <<wallet, objects, requested, waiter, deployed, node>>

\* ContractFactory.startDeployment.
StartDeployment(c, options) ==
  /\ call[c].at = "idle"
  /\ Becomes(c, [call[c] EXCEPT !.at = "estimate", !.deploys = TRUE, !.plans = TRUE,
                               !.account = Owner, !.begun = best])
  /\ objects' = [objects EXCEPT ![c] = options]
  /\ requested' = [requested EXCEPT ![c] = options]
  /\ UNCHANGED <<wallet, waiter, deployed, node>>

-----------------------------------------------------------------------------
(* VeChainAbstractSigner.populateTransaction. *)

OfObject(c) == objects[call[c].object]

\* Mutant of Populated: estimateGas populates the transaction, not the call.
PopulatedAgain(c) ==
  \/ OfObject(c).gas = Absent /\ At(c, "recheck")
  \/ /\ OfObject(c).gas # Absent
     /\ Becomes(c, [call[c] EXCEPT !.at = "genesis", !.gas = OfObject(c).gas])

\* The end of populateCall.  Without gas in the object, estimateGas calls
\* populateCall again; with it, the nonce is next.
Populated(c) ==
  \/ /\ call[c].at # "recheck"
     /\ OfObject(c).gas = Absent
     /\ At(c, "recheck")
  \/ /\ call[c].at = "recheck"
     /\ At(c, "estimate")
  \/ /\ OfObject(c).gas # Absent
     /\ Becomes(c, [call[c] EXCEPT !.at = "genesis", !.gas = OfObject(c).gas])

\* Mutant of Check: the sender is not compared.
CheckNothing(c) ==
  /\ call[c].at \in {"check", "recheck"}
  /\ IF OfObject(c).from = Absent THEN At(c, "name") ELSE Populated(c)
  /\ UNCHANGED <<wallet, objects, requested, waiter, deployed, node>>

\* populateCall: the sender must be the signer's account; if there is none, the
\* signer's account is written into the object once getAddress has resolved.
Check(c) ==
  /\ call[c].at \in {"check", "recheck"}
  /\ \/ OfObject(c).from = Absent /\ At(c, "name")
     \/ OfObject(c).from = call[c].account /\ Populated(c)
     \/ OfObject(c).from \notin {Absent, call[c].account} /\ Ends(c, "failed")
  /\ UNCHANGED <<wallet, objects, requested, waiter, deployed, node>>

Name(c) ==
  /\ call[c].at = "name"
  /\ objects' = [objects EXCEPT ![call[c].object].from = call[c].account]
  /\ Populated(c)
  /\ UNCHANGED <<wallet, requested, waiter, deployed, node>>

\* GasModule.estimateGas: a simulation at the node.  The estimate of a
\* transaction that would be reverted is used as any other.
EstimateGas(c) ==
  /\ Quiet
  /\ call[c].at = "estimate"
  /\ \E gas \in Gas : Becomes(c, [call[c] EXCEPT !.at = "genesis", !.gas = gas])
  /\ UNCHANGED <<wallet, objects, requested, waiter, deployed, node>>

-----------------------------------------------------------------------------
(* TransactionsModule.buildTransactionBody, and what its callers do next. *)

\* Mutant of NonceOf: a nonce is drawn for every call.
NonceDrawn(c) == c

\* The nonce of a body: the caller's, or a random one.
NonceOf(c) == IF OfObject(c).nonce = Absent THEN c ELSE OfObject(c).nonce

\* Mutant of SignedBy: a delegator's key signs whatever the body says.
SignedByAnyone ==
  CASE wallet.delegator = "none" -> IF wallet.enabled THEN "failed" ELSE "post"
    [] wallet.delegator = "key"  -> "post"
    [] wallet.delegator = "url"  -> "sponsor"

\* VeChainPrivateKeySigner._signFlow, TransactionHandler.sign and
\* signWithDelegator: where a call goes once it has the body.
SignedBy ==
  CASE wallet.delegator = "none" -> IF wallet.enabled THEN "failed" ELSE "post"
    [] wallet.delegator = "key"  -> IF wallet.enabled THEN "post" ELSE "failed"
    [] wallet.delegator = "url"  -> "sponsor"

\* Mutant of Filled: the conversion of a body to a request loses the nonce.
FilledButNonce(c, ref) ==
  [from |-> call[c].account, gas |-> call[c].gas, nonce |-> Absent, ref |-> ref]

\* transactionBodyToTransactionRequestInput, the object startDeployment signs.
Filled(c, ref) ==
  [from |-> call[c].account, gas |-> call[c].gas, nonce |-> NonceOf(c), ref |-> ref]

\* Who has signed for the gas when the body is signed.
PayerFor(place) == IF place = "post" THEN wallet.delegator ELSE "none"

\* A body with block reference ref is built.
Built(c, ref) ==
  IF call[c].plans
  THEN /\ objects' = [objects EXCEPT ![c] = Filled(c, ref)]
       /\ Becomes(c, [call[c] EXCEPT !.at = "check", !.plans = FALSE, !.asked = 0])
  ELSE /\ IF SignedBy = "failed" THEN Ends(c, "failed")
          ELSE Becomes(c, [call[c] EXCEPT !.at = SignedBy, !.asked = 0, !.ref = ref,
                                          !.nonce = NonceOf(c), !.payer = PayerFor(SignedBy)])
       /\ UNCHANGED objects

\* The genesis block arrives; the best block is asked for unless the block
\* reference was given.
GenesisBlock(c) ==
  /\ Quiet
  /\ call[c].at = "genesis"
  /\ IF OfObject(c).ref = Absent
     THEN /\ Becomes(c, [call[c] EXCEPT !.at = "ref", !.asked = best])
          /\ UNCHANGED objects
     ELSE Built(c, OfObject(c).ref)
  /\ UNCHANGED <<wallet, requested, waiter, deployed, node>>

\* Mutant of BestBlockRef: the block reference comes from a cache.
CachedBlockRef(c) ==
  /\ Quiet
  /\ call[c].at = "ref"
  /\ \E b \in 0 .. best : Built(c, b)
  /\ UNCHANGED <<wallet, requested, waiter, deployed, node>>

\* The best block arrives, as it was at some moment since it was asked for.
BestBlockRef(c) ==
  /\ Quiet
  /\ call[c].at = "ref"
  /\ \E b \in call[c].asked .. best : Built(c, b)
  /\ UNCHANGED <<wallet, requested, waiter, deployed, node>>

\* The delegator's signature arrives from its URL.  Two signatures on a body
\* that is not delegated are not accepted by the Transaction constructor.
DelegatorSigns(c) ==
  /\ Quiet
  /\ call[c].at = "sponsor"
  /\ IF wallet.enabled
     THEN Becomes(c, [call[c] EXCEPT !.at = "post", !.payer = "url"])
     ELSE Ends(c, "failed")
  /\ UNCHANGED <<wallet, objects, requested, waiter, deployed, node>>

-----------------------------------------------------------------------------
(* TransactionsModule.sendRawTransaction. *)

Transaction(c) ==
  [clauses |-> call[c].object, gas |-> call[c].gas, nonce |-> call[c].nonce,
   ref |-> call[c].ref, delegated |-> wallet.enabled,
   origin |-> call[c].account, payer |-> call[c].payer]

\* The node takes the transaction.
NodeAccepts(c) ==
  /\ Quiet
  /\ call[c].at = "post"
  /\ received' = received \union {Transaction(c)}
  /\ At(c, "reply")
  /\ UNCHANGED <<wallet, objects, requested, waiter, deployed, mined, best>>

\* The node's answer, the transaction's id, ends the call.
Sent(c) ==
  /\ Quiet
  /\ call[c].at = "reply"
  /\ Ends(c, "done")
  /\ deployed' = IF call[c].deploys THEN Transaction(c) ELSE deployed
  /\ UNCHANGED <<wallet, objects, requested, waiter, node>>

\* Any request fails or is refused, at the latest by the client's timer; after
\* the transaction was posted, the node may have accepted it all the same.
RequestFails(c) ==
  /\ Quiet
  /\ call[c].at \in Awaiting
  /\ Ends(c, "failed")
  /\ UNCHANGED <<wallet, objects, requested, waiter, deployed, node>>

-----------------------------------------------------------------------------
(* ContractFactory.waitForDeployment. *)

WaitFails(w) == waiter' = [waiter EXCEPT ![w] = [at |-> "failed", for |-> NoDeployment]]

WaitForDeployment(w) ==
  /\ waiter[w].at = "idle"
  /\ waiter' = [waiter EXCEPT ![w] =
       [at |-> IF deployed = NoDeployment THEN "failed" ELSE "waiting", for |-> deployed]]
  /\ UNCHANGED <<wallet, objects, requested, call, deployed, node>>

\* Mutant of Receipt: the wait sees only what succeeds.
ReceiptOfContract(w) ==
  /\ Quiet
  /\ waiter[w].at = "waiting"
  /\ [transaction |-> waiter[w].for, reverted |-> FALSE] \in mined
  /\ waiter' = [waiter EXCEPT ![w].at = "done"]
  /\ UNCHANGED <<wallet, objects, requested, call, deployed, node>>

\* Mutant of Receipt: a receipt without a contract address is as good.
ReceiptAlone(w) ==
  /\ Quiet
  /\ waiter[w].at = "waiting"
  /\ \E m \in mined : m.transaction = waiter[w].for
  /\ waiter' = [waiter EXCEPT ![w].at = "done"]
  /\ UNCHANGED <<wallet, objects, requested, call, deployed, node>>

\* The wait, a SyncPoll without limits, has a receipt; there is a contract
\* address in it unless the deployment was reverted.
Receipt(w) ==
  /\ Quiet
  /\ waiter[w].at = "waiting"
  /\ \E m \in mined :
       /\ m.transaction = waiter[w].for
       /\ IF m.reverted THEN WaitFails(w) ELSE waiter' = [waiter EXCEPT ![w].at = "done"]
  /\ UNCHANGED <<wallet, objects, requested, call, deployed, node>>

\* A failed request rejects the wait.
ReceiptFails(w) ==
  /\ Quiet
  /\ waiter[w].at = "waiting"
  /\ WaitFails(w)
  /\ UNCHANGED <<wallet, objects, requested, call, deployed, node>>

-----------------------------------------------------------------------------
(* The node. *)

Pending == {t \in received : \A m \in mined : m.transaction # t}

\* A block, with any of the pending transactions.
NewBlock ==
  /\ best < MaxBlock
  /\ best' = best + 1
  /\ \E included \in SUBSET Pending : \E reverted \in SUBSET included :
       mined' = mined \union {[transaction |-> t, reverted |-> t \in reverted] : t \in included}
  /\ UNCHANGED <<wallet, objects, requested, call, waiter, deployed, received>>

-----------------------------------------------------------------------------
Step(c) ==
  \/ Check(c) \/ Name(c) \/ EstimateGas(c) \/ GenesisBlock(c) \/ BestBlockRef(c)
  \/ DelegatorSigns(c) \/ NodeAccepts(c) \/ Sent(c)

Start(c) ==
  \/ \E r \in Requests : EthSendTransaction(c, r)
  \/ \E r \in Requests, account \in Accounts : SendTransaction(c, r, account)
  \/ ExecuteTransaction(c)
  \/ \E options \in Options : StartDeployment(c, options)

Next ==
  \/ \E c \in Calls : Start(c) \/ Step(c) \/ RequestFails(c)
  \/ \E w \in Waiters : WaitForDeployment(w) \/ Receipt(w) \/ ReceiptFails(w)
  \/ NewBlock

Spec == Init /\ [][Next]_vars

\* Settled promises are followed up, and requests are answered or fail.
Fairness ==
  /\ \A c \in Calls : WF_vars(Step(c) \/ RequestFails(c))
  /\ \A w \in Waiters : WF_vars(Receipt(w))

FairSpec == Spec /\ Fairness

-----------------------------------------------------------------------------
(* Properties *)

\* What the node receives is what the caller asked for: the sender (whoever
\* wrote into the object meanwhile), the gas, the nonce and the block reference
\* that were given, through populateCall, the bodies built once or, by
\* startDeployment, twice, and the conversion of a body to a request.
SentAsAsked ==
  \A t \in received :
    LET given == requested[t.clauses] IN
      /\ given.from \in {Absent, t.origin}
      /\ given.gas \in {Absent, t.gas}
      /\ given.nonce \in {Absent, t.nonce}
      /\ given.ref \in {Absent, t.ref}

\* The node receives a delegated transaction only with a gas payer's signature,
\* the wallet's delegator's, and no other with one, although whether bodies are
\* delegated (enableDelegation) and who signs (the wallet) are set separately.
FullySigned ==
  \A t \in received : /\ t.payer = wallet.delegator
                      /\ t.delegated <=> t.payer # "none"

\* A request that fixes gas, nonce and block reference can be sent again, after
\* an error that left open whether the node has it, or at the same time: the
\* account's transactions for it are one.
FixedIsSentOnce ==
  \A t, u \in received :
    /\ t.clauses = u.clauses
    /\ t.origin = u.origin
    /\ Absent \notin {requested[t.clauses].gas, requested[t.clauses].nonce,
                      requested[t.clauses].ref}
    => t = u

\* Unless the caller gives an older block reference, a transaction refers to a
\* block not older than the call, from which its expiration is counted; for a
\* deployment the reference is that of the body that was built first.
FreshBlockRef ==
  \A c \in Calls :
    /\ call[c].at \in {"post", "reply"}
    /\ requested[call[c].object].ref = Absent
    => call[c].ref >= call[c].begun

\* A wait for a deployment that gives a contract gives one that exists: made by
\* a transaction of the factory's signer that is in a block and not reverted.
WaitGivesContract ==
  \A w \in Waiters : waiter[w].at = "done" =>
    /\ [transaction |-> waiter[w].for, reverted |-> FALSE] \in mined
    /\ waiter[w].for.origin = Owner
    /\ call[waiter[w].for.clauses].deploys

\* Every call ends, with a transaction or an error, however many share its
\* object and whatever the delegator's configuration.
\* A wait for a deployment ends once the transaction is in a block, also when
\* it was reverted there, and when the node knew it before the wait began.
CallsEnd ==
  /\ \A c \in Calls : call[c].at # "idle" ~> call[c].at \in Ended
  /\ \A w \in Waiters :
       waiter[w].at = "waiting" /\ (\E m \in mined : m.transaction = waiter[w].for)
         ~> waiter[w].at \in Ended
==============================================================================
