# A TLA+ model of the vechain SDK

This directory models, model-checks and proves properties of the code of this repository, a
TypeScript monorepo. All paths below are relative to `src/packages/`.

## 1. The system

### Packages

| Package | What it holds | State it keeps |
|---|---|---|
| `network` | the client of a Thor node (`thor-client/`), the JSON-RPC provider (`provider/`), the signers (`signer/`), polls and HTTP (`utils/`) | head block, poll objects, subscriptions, the deployment transaction of a contract factory, signer and options of a contract |
| `core` | transactions, RLP, bloom filters, ABI, data model, cryptography | a bloom generator's hashes, the switch between two keystores; otherwise immutable objects, over buffers of the caller |
| `errors`, `logging` | error classes, log formatting | none |
| `hardhat-plugin`, `ethers-adapter` | wiring of `network` into other frameworks | the plugin's current provider |
| `rpc-proxy` | an express server in front of the provider | none of its own |

Most of the code's own difficulty is in `network`: it is asynchronous, single-threaded code whose
steps interleave at every `await`, against a node that grows, reorganises, answers late or does not
answer. `core` computes; what goes wrong there is at the edge of a width, or when the result of one
call is given to the next.

### Components, operations, and what makes each correct

* **EventPoll** (`network/src/utils/poll/event.ts`). Keeps an interval handle, an iteration counter,
  an error. `startListen` runs one activation at once, and asks for an interval when that activation
  has settled; each interval expiry runs another activation; `stopListen` clears the interval.
  Activations overlap: an interval does not wait for the previous one. Correct when a poll has at
  most one interval, when that is the one `stopListen` clears, when a stop is final, and when a poll
  built to survive errors goes on.
* **SyncPoll** (`utils/poll/sync.ts`). `waitUntil` fetches, sleeps, checks the condition and the two
  limits, and repeats. Counter, start time and last result belong to the object, so that concurrent
  calls share them. Correct when only a satisfied condition or a limit ends a wait, when what is
  returned is not older than the wait, and when waits end.
* **ThorClient head tracking** (`thor-client/blocks/blocks-module.ts`, `thor-client.ts`). Owns an
  EventPoll whose polling function asks for the best block, and keeps the answer in `headBlock`.
  Correct when the head follows the chain and no answer takes it behind where it was when the
  answer's request was sent.
* **Waits** (`blocks-module.ts`, `transactions/transactions-module.ts`). `waitForBlockCompressed`,
  `waitForBlockExpanded`, `waitForTransaction`: a SyncPoll each.
* **Subscriptions** (`provider/providers/vechain-provider/`, `eth_subscribe`, `eth_unsubscribe`).
  The subscription manager (one `newHeads` slot, a map of log subscriptions, the next block number)
  and its EventPoll. Correct when the provider polls exactly while it has subscriptions, when every
  subscription is told of consecutive blocks, and when it catches up.
* **Receipts** (`rpc-mapper/methods-map/methods/eth_getTransactionReceipt`, `eth_getBlockReceipts`,
  `provider/utils/helpers/transaction`, `provider/utils/formatter`). Several requests per result,
  between which the node may reorganise; numbering of transactions and of logs in a block. Correct
  when no two receipts of a block share an index or a log index, and the numbering has no gap.
* **HTTP client** (`utils/http/http-client.ts`). A `fetch` with a timer. Correct when a request does
  not wait for ever, and when what has been received is not thrown away.
* **Sending** (`signer/`, `TransactionsModule`, `DelegationHandler`, `eth_sendTransaction`,
  `ContractsModule.executeTransaction`, `ContractFactory`). A signer populates the caller's request
  object (and writes the sender into it), estimates gas, builds a body (two requests), signs it, alone
  or with a gas payer, and posts it. The factory keeps the last deployment's transaction. Correct when
  what the node receives is what was asked for, with all the signatures its kind needs, when a request
  that determines its transaction is sent once however often it is tried, when a wait for a deployment
  gives a contract that exists, and when calls end.
* **Reading operations** (`thor-client/{accounts,blocks,debug,logs,nodes,transactions,contracts,gas}`,
  `utils/vns`). Each makes one request after the other and returns what it makes of the answers:
  names to addresses before a simulation, the block of a transaction before the trace of its clauses,
  the best block before a range of logs, events decoded by the fragment their topic names. Correct when
  a log of a block that stays on the trunk is found and decoded, when names in clauses are those of one
  block, when a revert is told as what it is, and when the operation ends.
* **Contract and its proxies** (`thor-client/contracts/model`). Keeps a signer and two records of
  options, which can be set while a read is under way. Correct when a read is made as the signer it was
  called with.
* **JSON-RPC methods** (`provider/utils/rpc-mapper`, `formatter`, `helpers`, `criteria`). Block numbers
  to revisions, results to the Ethereum form, several requests for a transaction or a range of logs.
  Correct when a transaction is in the block and at the index it is said to be, and a filter misses no
  log it asks for.
* **Front ends** (`VeChainProvider.request`, `HardhatVeChainProvider.send` and `sendAsync`,
  `JSONRPCEthersProvider._send`, `rpc-proxy`). Correct when every call is answered once, in order,
  whatever becomes of the others.
* **Core transaction and RLP** (`core/src/transaction`, `core/src/encoding`, `core/src/utils/
  transaction`). A body is validated, packed field by field and encoded; hashes and signatures, alone
  or with a delegator's, are taken over the encoding; raw transactions are decoded; intrinsic gas is
  computed from clauses. Correct when a transaction has one encoding, when the node reads what was
  signed out of it, when the package takes back what it encodes, and when gas is that of the encoding.
* **Core data model** (`core/src/vcdm`). Hexadecimal values, addresses, ids, quantities, revisions,
  made of texts, bytes and numbers and of one another. Correct when order and equality survive.
* **Core units and texts** (`core/src/utils/units`, `utils/data`). Correct when what is written is read.
* **Core bloom filter** (`core/src/bloom`, `utils/bloom`). Correct when no filter, however composed,
  denies a key that was put in.
* **Core cryptography** (`core/src/secp256k1`, `hash`, `hdnode`, `mnemonic`, `keystore`,
  `certificate`). Buffers of private keys, some of which are erased by the function they are given to;
  two implementations of keystores behind one switch. Correct when a keystore gives its key back to its
  password, and a verified certificate says what its signer signed.
* **Core clauses** (`core/src/clause`). Correct when the chain does with a clause what was intended.
* **Wallets and signers** (`provider/helpers`, `provider/utils/helpers`, `signer/signers`,
  `hardhat-plugin`, `rpc-proxy`). A configuration becomes a wallet, a wallet gives a signer by index or
  address, a signer keeps the caller's key buffer and writes into its request object. Correct when a
  signer signs as the account it names, and simulates what the caller wrote.
* **ABI and contract coder**, **errors and logging**, **subscription URLs**, **constants and
  fixtures**.

### How they interact

```
 ThorClient ──owns──> BlocksModule ──owns──> EventPoll ──interval──> runtime
     │                    └─ waits ──> SyncPoll ─┐
     ├──> TransactionsModule ── waits ──> SyncPoll ──> HttpClient ──> node
 Signer ──> GasModule, TransactionsModule (body, post) ──> HttpClient
     │          └──> Transaction, RLP (core)        └──> delegator behind a URL
     ├── used by eth_sendTransaction, ContractsModule, ContractFactory
     └── made by a wallet (accounts or HD node of core) of a host's configuration
 Contract ──> ContractsModule ──> TransactionsModule, LogsModule ──> HttpClient
     └── the clauses, transactions and filters of its proxies
 hardhat, ethers, rpc-proxy ──> front ends ──> VeChainProvider.request ──> a JSON-RPC method
 VeChainProvider ──owns──> EventPoll (subscription poll)
     ├── subscription manager  <── eth_subscribe, eth_unsubscribe, the poll
     └── eth_getBlockReceipts ──> eth_getTransactionReceipt ──> several requests
```

### What is hard

An activation of a poll, a wait, a subscription and a receipt all read state, await a request and go
on with what they read. Stops arrive during the awaits; requests fail; two activations overlap; the
node changes its trunk between two requests. `PROJECT.json` lists each such place with its line.

## 2. The modules

| Module | Code | State and actions |
|---|---|---|
| `EventPoll` | `event.ts` | the poll's fields, the runtime's intervals, the activations in progress; `StartListen`, `StopListen`, `Tick`, `Deliver`, `Fail`, `Reject` |
| `HeadTracker` (extends `EventPoll`) | `blocks-module.ts`, `thor-client.ts` | `headBlock`, the reply of each activation, the node's best block |
| `Subscriptions` (extends `EventPoll`) | `vechain-provider.ts`, `eth_subscribe.ts`, `eth_unsubscribe.ts` | manager, polling functions in progress, calls of `eth_subscribe` in progress, the messages each id was sent |
| `SyncPoll` | `sync.ts` | the object's fields, the place of each call of `waitUntil`, time |
| `Waits` (extends `SyncPoll`) | `blocks-module.ts`, `transactions-module.ts` | the reply of each call, the node |
| `BlockFeed` | none: what `eth_subscribe` promises | the chain, the feed's cursor, who is subscribed and what each was told; implemented by `Subscriptions` |
| `Receipts` | `eth_getTransactionReceipt`, `eth_getBlockReceipts` and their helpers | the node's trunk, the place of the method in progress |
| `Provider` (extends `Receipts`, `Selection`) | `rpc-mapper/`, `formatter/`, `criteria`, `hardhat-provider.ts`, `json-rpc-provider`, `rpc-proxy` | front end in use, its calls, the place and result of the current one, the answers; one action for each method (`EthGetLogs`, ...), and for what the front ends do between them |
| `Sending` | `vechain-abstract-signer.ts`, `vechain-private-key-signer.ts`, `transactions-module.ts`, `delegation-handler.ts`, `sign.ts`, `gas-module.ts`, `eth_sendTransaction.ts`, `contracts-module.ts`, `contract-factory.ts` | request objects, the place and locals of each call and each wait, `deployed`, the transactions the node has received and mined; ways to begin (`SendTransaction`, `EthSendTransaction`, `ExecuteTransaction`, `StartDeployment`), `Check` and `Name` (`populateCall`), `EstimateGas`, `GenesisBlock`, `BestBlockRef`, `DelegatorSigns`, `NodeAccepts`, `Sent`, `RequestFails`, the waits, `NewBlock` |
| `HttpRequests` | `http-client.ts` | the place of each request, its timer |
| `ThorRequests` (extends `HttpRequests`) | the reading operations of `thor-client/`, `vns-utils.ts` | the node's trunk and clock, the operation in progress, its requests and answers, what came out |
| `Contracts` (extends `ThorRequests`) | `contracts/model/`, `contracts-module.ts` | a contract's signer and options; `SetSigner`, `SetContractReadOptions`, `SetContractTransactOptions`, `Call`, `AddressArrives` |
| `Rlp` | `encoding/rlp/kind`, `encoding/rlp/helpers` | none: for each scalar kind, what it accepts and what it makes of it, both ways |
| `SignedTransactions` (extends `Rlp`) | `transaction.ts`, `sign.ts`, `decode.ts`, `utils/transaction/transaction.ts`, with their callers in `network` | how far a transaction has come, its body, signature and raw form; `Sign`, `SignWithDelegator`, `AskDelegator`, `DelegatorSigns`, `DelegatorFails`, `Post`, `Read` |
| `Vcdm` | `core/src/vcdm` | the values held; one is made of an expression or of another |
| `Units` | `utils/units`, `utils/data` | what was written and read back last |
| `Bloom` | `bloom.ts`, `utils/bloom` | a generator's hashes, filters and the keys each was made of |
| `Keys` | `secp256k1`, `hdnode`, `keystore`, `certificate` | buffers, keystores, certificates, the switch between the implementations |
| `Clauses` | `clause.ts` | none: the clauses of an intention, and what the chain does with a clause |
| `Wallets` (extends `Keys`, `Clauses`) | `provider/helpers`, `signer/signers`, `hardhat-plugin`, `rpc-proxy` | the host's provider, the signer in use, the program's request object |
| `MC...` | | instances for TLC; `MCThor` is of `Contracts`, `MCCore` of the six modules above |
| `...Proofs` | | theorems |

**Granularity.** JavaScript runs to completion between awaits, so an action is the code between two
awaits of something outside the program. A promise reaction (a `.then`, the code after the `await`
of a settled promise) runs before the runtime turns to anything else, and is part of the action that
settles the promise. Where a polling function returns without any request (`Nothing` in
`Subscriptions`), it is still a separate step, because `startListen`'s caller goes on first; the
guard `Quiet` makes the runtime take that step before it looks at anything else. `Sending` has such
steps too (the places `Immediate`): a signer awaits `getAddress`, which needs no request, between its
test of `from` and its assignment, and another call on the same object can run there.

**Objects and histories in `Sending`.** A request object is a record of the fields that decide which
transaction results; its clauses are named by the object itself, so that `clauses` of a transaction
says what was asked for. The nonce a call draws at random is the call's own name: two random nonces
are taken to differ. `requested` remembers the objects as they were before a signer saw them. Names in
clauses are resolved by calls that change none of this, and are left out.

**Data in `SignedTransactions`.** A byte is a number below `Base`, a numeric value an integer that is
given as a number or as text. A hexadecimal string is what `Hex.isValid` takes (`Hex.ts:52`): its first
two characters (`0x`, the first two of `-0x`, two digits, a sign and a digit, or none at all) and the
others in pairs. The kinds cut off the first two, whatever they are, and `Buffer.from` ends at the first
pair that is no byte: after `-0x` it is the first, so that nothing is encoded (`HexBlobData`). RLP
itself is the library's: a raw transaction is the nested list it encodes. A hash is what was hashed, and
a signature says which key signed which hash; `secp256k1.recover` gives the key back for the same hash
only. The three ways to sign share the constructor's checks (`Usable`); each is one action, since
nothing is awaited but the delegator behind a URL. `Sending` has the same transaction as one record; it
is about which transaction results, `SignedTransactions` about what becomes of its bytes.

**Requests.** A request takes its answer from the node at one moment and reaches the client at a
later one. `HeadTracker` and `Waits` have a step for each (`Answer`, then `OnData` or `Receive`). In
`Subscriptions` a request that finds no block yet carries `early`, which lets it be answered either
way. In `ThorRequests` the answer is fixed when the server responds (`Responds`), while the body is
still to come; the trunk may change before it has come. In `Receipts` and `Provider` a request is
answered by the node as it is when the code goes on, since the trunk may change before and after that.

**Operations in `ThorRequests`.** An operation is written as the step its code takes after the answers
it has got so far: a request (`Ask`), a result (`Return`), an exception (`Throw`), or the step of what
it calls, continued with its result (`Then`). `Perform` chooses the operation; `Asks` and `Ends` make its
step. None of these operations catches anything, and none shares state with another, so one at a time
shows all there is to see; a contract's signer and options, which are shared, change under it.

**Methods and front ends in `Provider`.** A call is a record of a method and its parameters. A method
returns or throws, and its front end does with that what its code does: `sendAsync` gives it to a
callback which may throw itself, a batch goes on with the next call or stops, the proxy answers with an
error object. Formatters are what they do to the place of a transaction (block and index) and to the
numbering of logs; other fields are copied and left out.

**Core parts.** `Keys` and `Wallets` take cryptography as ideal: a signature, a cipher and a hash are the
terms they are computed from. A value of `Vcdm` is a sign and its digits, because the classes compare
digits where a reader expects numbers; sizes (`IdDigits`, `AddressDigits`, `Precision`, `WordBytes`,
`WordBits`) are constants, on which the properties do not depend. `MCCore` chooses one part in its
initial state; the parts share no variable but those of `Keys`, which `Wallets` uses.

**The first activation of the head poll always fails.** `ThorClient`'s constructor builds its
`BlocksModule`, whose constructor starts the poll, before it assigns `this.blocks`; the polling
function reads `this.thor.blocks` synchronously and throws. The poll is built to stop on errors, but
the interval it should stop is created by the reaction that follows, so the head is tracked after
all: `SetupPolling` is this. A `BlocksModule` built by hand on an assembled client would make a
request instead; the model has the client the package builds.

**One poll object, one start.** Both owners create a poll and start it at once, and never start it
again (`MaxStarts = 1`, an assumption of the owners' modules and of the theorems). Started twice, a
poll would overwrite its interval handle.

## 3. The runs

| Run | Shows |
|---|---|
| `poll` | Two polls (one stops at errors and has no error listener, like the provider's; one survives errors), three overlapping activations. `PollInv`: a poll never has a second interval, the one it has is the one `stopListen` clears. `StopIsFinal`: after the first activation, a stop (by the owner, by a listener, for an error) is final. `KeepsPolling`: a poll built to survive errors keeps polling. |
| `poll_stop` | `StopListens` fails: stopped during its first activation, a poll goes on. |
| `head` | `NoOlderThanAsked`: the head never goes back past where it was when the request that ends was sent. `HeadSettles`: while the poll has its interval, the head comes to rest on the best block, overlapping requests notwithstanding. `HeadFollows`: without a destroy or a failed request it does come to rest there, though the first activation always throws, in a poll that stops on errors. |
| `feed_serial` | With one activation at a time, through a failed request, subscriptions and unsubscriptions: `ImplementsFeed`, every behaviour is one of `BlockFeed` (consecutive blocks, none twice, none left out); `FeedsCatchUp`. |
| `feed_overlap` | `PollsIffSubscribed`: with overlapping activations, two first subscriptions at once, failures and a destroy, the provider polls by one interval exactly while it has subscriptions. |
| `feed_skip` | `InOrderFeeds` fails as soon as two activations overlap: one block is sent twice and the next is not sent. |
| `waits` | All kinds of wait and all combinations of limits (chosen in the initial state): `OnlyLimitsCutShort`, `FreshResult`; `WaitsEnd`: with a limit always, without one when the node has what is waited for. |
| `sending` | Two calls of any kind, on one object or on their own, by two signers, for each of the six settings of delegation, with a failure at any request: `SentAsAsked`, `FullySigned`, `FixedIsSentOnce`, `FreshBlockRef`, `WaitGivesContract`, `CallsEnd`. |
| `transaction` | `OneEncoding`: whatever raw transaction `decode` takes is the encoding of what it makes of it. `ReadAsSigned`: the node recovers origin and delegator, through a delegator that signed what it had decoded, nothing the package encodes is refused for its form, and every field, with the recipient, value and data of each clause, is read as it was given, except the hexadecimal strings of another form (see the disagreements below). `GasOfEncoding`: intrinsic gas is not below what the encoding costs, and equal unless data has a sign, for clauses whose recipient has none. |
| `provider` | Every method through every front end, with reorganisations between requests and a failure. `LogIndicesDisjoint`: receipts of one block share no log index, through three reorganisations; `ReceiptsOfBlock`: until the first, a block's receipts are all of that block, numbered without gaps. `PlaceOfTransaction`: a transaction is in the block and at the index it is said to be. `LogsAsFiltered`: a filter whose range is hexadecimal or left out misses no log it asks for, up to the limit, and gives no other but where `Plain` says. `AnsweredOnce`: every call is answered once, in order. `SessionsEnd`: every use of a front end ends, but the wait of `evm_mine`. |
| `thor` | Every reading operation over HTTP requests that end in every way, with two changes of trunk between requests and a change of the contract during a call. `KeptLogsAreFound`: a log of a block that stays on the trunk is returned, decoded as its event. `NamesOfOneBlock`: addresses of names in clauses are those of one block. `CallerOfTheCall`: a read is made as the signer the contract had when it was called. `RevertIsTold`: no outputs are read out of a revert, and a revert reason is that of the clause that reverted. `BegunIsNotAborted`: no timer aborts a response that has begun. `OpsEnd`: an operation ends unless a body never does. |
| `core` | `OrderOfValues`: values keep their order through every conversion. `ReadAsWritten`: amounts, and texts without zeros, are read as they were written. `NoFalseNegatives`: filters, composed or not, deny no key of theirs. `KeystoreOpens`: a keystore gives its key to its password, and to no other. `CertificatesAreSigned`: a certificate that is verified says what its signer signed. `SignedByTheAccount`: a signature is of the account the signer names. `SimulatedAsWritten`: what is simulated is what the program last wrote into its object. |

**Bounds.** `Loops` bounds how many activations overlap: one gives serial requests, two or three the
first interleavings of every kind (a third activation adds no new pair). `MaxIterations` only
saturates a counter that nothing reads. `MaxBlock` of 3 lets a request be answered two blocks late.
Handles are reused only when nobody holds them (`FreshTimers`), and there are as many as polls, since
a stopped poll keeps its handle: with fewer, the model would stop where the program does not.
`MaxFailures = 1` puts one failed request anywhere; a second meets the same states. `SYMMETRY` is
used in `feed_overlap` and `feed_skip` only, over polls, handles and head subscriptions, which no
constant or property tells apart; the runs with liveness have none. In `sending`, two calls give all
interleavings of two users of an object or of a factory; the shapes of objects have a sender of their
own or not, gas or not, and a fixed nonce and reference or neither; one value of gas is enough for
TLC, since the estimate is only ever compared with a given value, and the theorems hold for every set
of values; `MaxBlock = 1` makes a block reference too old or not. In `transaction`, bytes have four
values and fields one or two bytes, so that each numeric field is met at zero, at one byte's end, at the
end of the safe integers, at its width and beyond it; bodies differ from a plain one in one field, and
have all combinations of features and unused fields; recipients, data and `dependsOn` have each form of a
hexadecimal string; raw transactions from elsewhere have each of six buffers (empty, zero, with a leading
zero, of full width, too long) in each field.

`MCProvider` has five transactions on four trunks that fork after the genesis block: in the same order, in
another order, in another block, absent, one with fewer events elsewhere, an empty block, and one without
clauses. Three reorganisations put one between any two requests of the longest method and bring a trunk
back; `MaxLimit = 5` lets a filter meet the limit of the node's answers; one failure is enough, as above;
batches have up to three calls, one of which throws; ranges end nowhere, in hexadecimal and decimal
numbers and in tags, filters name no address, none of an empty array, one and two. `MCThor` has trunks
of two and three blocks that share the genesis block, and a network without a name registry;
`MaxMoves = 2` moves the trunk away and back; `MaxTime = 4` with `Tolerance = 2` lets `isHealthy` meet a best block
in time and too old; five requests are those of the longest operation. `MCCore` has ids of four digits
and addresses of three (one odd, one even), `MaxSafe = 257`, an amount of up to five digits with a
precision of four, words of four bytes, bloom words of eight bits, `Ks` and `BitsPerKeys` at, within and
beyond the bounds the code checks, two filters to compose, two keys of which one is erased, one keystore
that is edited, and two certificates of which parts are exchanged.

`CHECK_DEADLOCK FALSE` is in `sending`, `transaction`, `provider`, `thor` and `core`, where everything
ends or a bound does.

**Fairness.** The runtime fires the intervals that are live (strong in `EventPoll`, where two polls
compete for the model's room in `Loops`; weak elsewhere), fires timers that are due, and every request
is answered or fails. The last is what the HTTP timer gives as long as the node completes the responses
it begins: the timer is cleared when the head of a response arrives, and no timer covers its body. `thor`
has no such assumption: there the server owes nothing, only timers fire and the code after an await runs,
and `OpsEnd` says what follows, for operations whose responses' bodies end. `provider` takes its
consequence (`WF` of `ProviderStep`: a request ends, if only with an error); `evm_mine` waits without
limit for a block that need not come, hence `SessionsEnd` leaves it out. In `Sending` the same gives weak
fairness of each call's next step or failure, and of a wait whose transaction is in a block. Nothing is
assumed of callers, of the chain (`NewBlock` has no fairness: the properties say "when the chain comes
to rest"), or that a failure does not happen.

**Code and documents that disagree.** The `violation` runs and the findings
in `PROJECT.json` quote the lines. The models contain further consequences of the same code, which
the properties state their way around, and which a reader should know:

* an error of the first activation does not stop a poll that stops on errors (`Fail`: the interval is
  created after the stop), and `emit('error')` without a listener rejects unhandled and skips the stop
  (`Reject`);
* `destroy` leaves subscriptions in the manager. If one of them is there when the next poll starts,
  its first activation makes a request: if that fails, the provider keeps a poll without an interval
  for good; if everything is unsubscribed meanwhile, it leaves an interval without a poll.
  `PollsIffSubscribed` and `FeedsCatchUp` are therefore about providers that were not destroyed;
* the second of two concurrent first `eth_subscribe` calls sets the cursor of a running poll;
* a failed request ends the head tracking, and two overlapping requests may be answered out of order:
  hence `HeadSettles` says "while the poll has its interval" and `NoOlderThanAsked` speaks of the head
  when the request was sent;
* `waitForBlockExpanded` returns a compressed block and `waitForBlockCompressed` an expanded one: the
  branches of `expanded` are swapped (`FormFetched`; `blocks-module.ts:259` says otherwise);
* a reorganisation during `eth_getBlockReceipts` puts receipts of other blocks, or null, into the
  result: hence `ReceiptsOfBlock` is about results before the first reorganisation;
* a transaction included during the last sleep of a `waitForTransaction` is reported as null, because
  the condition is evaluated on the result fetched before the sleep;
* `eth_getTransactionReceipt` throws for a transaction without clauses (`ChainIdArrives`);
* the waits do not throw when their time is up, as `thor-client/blocks/types.d.ts:27` says: they return
  what they have, a block before the one that was waited for (`OnlyLimitsCutShort` says when);
* `populateCall` writes the signer's address into the caller's object, so that another account's signer
  refuses the object afterwards;
* `executeTransaction` uses no option but `value`, and `startDeployment` signs a body that is built
  again: of its options, `isDelegated` has no effect, and there is none for gas;
* the estimate of a transaction that would be reverted is used as its gas, without a word;
* a wallet's delegator and `enableDelegation` that disagree make every call fail, after the delegator
  has been asked for a signature if it has a URL;
* two overlapping `startDeployment` calls of one factory share `deployTransaction`: both callers then
  wait for the deployment that ended last. `waitForDeployment` has no limit;
* the default of `gasPriceCoef` is 0, and not 127 as `transactions-module.ts:286` says.

In `Provider`:

* the highest block of `eth_syncing` is computed from milliseconds less seconds; `eth_getLogs` ignores
  `blockhash`, returns more than a filter with nested topics asks for (`Plain` in `LogsAsFiltered`),
  and numbers every log `'0x0'` (`formatter/logs/formatter.ts:19`); it puts a plain topic that follows
  a nested array in an earlier position, so that it misses logs (`InPosition`). The declared type,
  `string[] | string[][]`, does not allow that filter, but nothing refuses it;
* `eth_getLogs` runs `parseInt(..., 16)` over both ends of its range (`eth_getLogs.ts:75`, `ParseInt`): the
  decimal `"12"` is block 18, `earliest` is block 234, `finalized` is 15, and the other tags are `NaN`,
  which is sent as `null`. What the node does with that is not in this code, so it may refuse it or take
  it for any block (`TakenFor`). Hence `Hexadecimal` in `LogsAsFiltered`;
* an empty array of addresses gives no criteria at all (`formatter.ts:84`): the topics are dropped and all
  logs of the range returned. Hence the second condition of `Plain`. More than five topics are not
  modelled, as no event has so many;
* `eth_call` returns the data of a revert as a result; `debug_traceTransaction` traces the first clause
  whichever was asked for; `evm_mine` waits for an expanded block by the swapped branches above;
* `sendAsync` calls a callback that throws a second time, with its own error: hence the exception in
  `AnsweredOnce`;
* `finalized` and `safe` are translated to `best` (`const/blocks/blocks.ts:27`), though the node has a
  finalized block and `docs/thor-client.md:102` describes it.

In `ThorRequests` and `Contracts`:

* `filterEventLogs` takes the first fragment with a topic's hash: an ERC-20 and an ERC-721 `Transfer` in
  one filter make it throw (`logs-module.ts:43`), hence `MixedFragments` in `KeptLogsAreFound`; so does
  one log that meets the criteria and is no event of their fragments, as that of a contract which has an
  event of the same signature and indexes other inputs of it, hence `Decodable`;
* `getRevertReason` decodes the first output of any clause, also of a transaction that succeeded, or of a
  clause before the one that reverted: it then gives `''` (`transactions-module.ts:495`), hence the
  condition in `ReasonOfTheRevert`;
* `setContractReadOptions` loses its revision; `executeTransaction` ignores all options but `value`;
  `executeMultipleClausesCall` never looks at `reverted`; filters empty the caller's array
  (`SanitizeValuesToEncode`), and an argument with a field `value`, `comment` or `revision` is taken for
  options;
* a factory whose deployment was reverted reads `outputs[0]` of no outputs.

In the core modules:

* `parseUnits` throws for zero (`units.ts:259`); texts of length zero become one zero byte, and
  `decodeBytes32String` ends a text at a zero in it (`data.ts:35`), or drops the zeros it begins with:
  hence the condition in `ReadAsWritten`;
* `HexUInt.isValid0x` takes `-0x1`; `ThorId.isValid` takes any 64 characters, by the precedence of its
  `?:`; `Address.isValid` takes `-0x` and 39 digits; of two negative values the smaller is the one with
  the smaller digits (`OrderOfValues` is about the unsigned ones, as `VcdmNext` makes only those);
* `HexBlobKind` takes data without a prefix (`helpers/hexblobkind.ts:27`) and drops its first byte
  (`kind/hexblobkinds/hexblob.ts:25`), takes data `-0x...` and encodes nothing of it. A `to` of `-0x`
  and 39 digits passes `Address.isValid` and becomes the creation of a contract; a `dependsOn` with a sign
  is lost. Hence `SameHex` in `ReadAsSigned`, which says of a field only what the form of the string
  allows;
* the intrinsic gas is counted on the text: data `-0x...` is charged and not encoded, and a creation that
  comes of a `to` with a sign is charged as a call. Hence the conditions in `GasOfEncoding`;
* `experimental/keystore.ts:472` reads `keystore.crypto`, and ethers writes `Crypto`: the experimental
  `decrypt` refuses the keystores that the other implementation makes, unless the field is renamed
  (`OpensExperimental`; `Edits` renames it either way);
* the experimental `keystore.encrypt` (`keystore.ts:390`) and `HDNode.fromPrivateKey` (`hdnode.ts:84`)
  erase the caller's buffer; a signer that shares it signs no more;
* any two mnemonics are equal for `ExternallyOwnedAccount.isEqual`; the Hardhat plugin without accounts
  loses the delegator;
* `populateCall` writes `from`, `to`, `value` and `data` into the caller's object, and `_buildClauses`
  drops the value of a contract creation.

## 4. The proofs

`tlapm` checks every theorem for all values of the constants that satisfy the modules' assumptions.

* `EventPollProofs`. `PollCorrect`: `PollSpec => []PollInv` for polls started at most once.
  "One interval, the one the handle names" is not inductive: the action that ends a first activation
  gives the poll a new handle, and would leave the old one running. `FirstIsAlone` says why there is no
  old one (a first activation is the only activation of its poll, which has no handle) and
  `UnstartedIsIdle` why a start finds none either. `StopFinal`: a poll that has had its handle and has
  no interval never gets one again.
* `ThorProofs`, of the client.
  * The head: `HeadStopFinal`, by `StopFinal` and the lemma `HeadPolls` (every step of the head tracking
    is a step of `PollSpec` or leaves the poll alone). `HeadPollGoesOn`: once the poll has had its
    interval, it is without one only after `destroy` or a failed request; by `FailuresAreCounted`, that a
    failure under way is of the first activation, which has no interval yet to lose, or counted. It is
    the safety part of `HeadFollows`. `HeadTypeCorrect`. `HeadNoOlderThanAsked`, by the
    invariant `HeadIsBehind`: head, the heads requests were sent at, and the replies under way are never
    ahead of the node, and a reply is not behind the head its request was sent at.
  * Timers: `BegunGoesOn` (`BegunIsNotAborted`) for `HttpSpec`: a timer is still to fire only before the
    response begins or after the request failed. `RequestsAreHttp`: the client with a contract implements
    `HttpSpec`, so the same holds of every request of it.
  * `SessionOK` is what all the operations share: requests are made one after another, each with one
    answer, and one that is rejected ends the operation. An operation is the step that its code takes of
    the answers so far, computed anew after each; so the invariants say what each request was, what the
    node may have answered to it, and that this still holds when the trunk has moved.
  * Simulations: `NamesAsOfOneBlock` (`NamesOfOneBlock`), by `SimInv`: the requests are those of
    `RequestFor`, their answers those of `Answers`, and what comes out is `Uses` of the last.
    `NamesAreUnique` is an induction over the fold of `UniqueNames`: the names are those that clauses pay
    to, once each. `NamesGo` and `SimulationGoes` say what the code does of each number of answers.
    `ReadsAsCalled` (`CallerOfTheCall`) adds `CallersInv`, who a read may call as.
  * Reverts: `RevertsAreTold` (`RevertIsTold`). For simulations it follows from `SimInv`: a revert becomes
    a text, and a multiple call decodes outputs of a reverted clause only if there are none to decode.
    For `getRevertReason`, `RevertInv`: the second request is for the block of the first answer, by its
    id, and each further one for a clause of the transaction in it, so no move of the trunk matters.
    `ReasonGoes` is an induction over the fold of `ReasonOfClauses`: clauses without an output are gone
    through, the first output decides.
  * Filters of logs: `LogsKeptAreFound` (`KeptLogsAreFound`), by `FilterInv`: without a range the first
    request is for the best block and the second for the logs up to its number, and a block that stays
    on the trunk has no higher one (`NodeTellsOfLogs`; `NumberIsPlace`: the number of a block is its
    place, on whatever trunk). `DecodesTo` says what becomes of what is found: each log is decoded by the
    first fragment of its topic, or all fail. `GroupsTellAll`: grouping by the topics of the fragments,
    an induction over the fold of `TopicHashes`, loses none. The proof did not go through with the
    property as it was, which excluded only criteria that do not name an event; `Decodable` replaced that
    condition, and the run has a filter now that makes the difference.
  * Folds are `CHOOSE`n functions on sets of indexes in the community modules; `FoldExists` shows that
    there is such a function, and `UpToAll` is the induction, as a least counterexample.
  * Assumed of the data: what is called is known to the node, a revert has outputs only with a selector,
    options and calls have the fields that they have, `Null` and `Malformed` are no other value.
* `PartsProofs`, of the modules that work without a node's chain or with one answer of it at a time.
  * Waits: `TypeCorrect`; `CutShortByLimits` (inductive, with `LimitsStay`: a limit that is reached
    stays reached); `LoneWaitIsFresh`, by `FreshOnItsWay`, which follows the answer from the node to the
    reply, to the object's result while the call sleeps, and to the call's result.
  * Filters: `KeysAreFound` (`NoFalseNegatives`), for every hash, length and `k`. `SoundFilter` says of a
    filter that it has the length it was made for and, of each key it stands for, every bit;
    `CompositionIsSound`, that two sound filters of one shape compose to a sound one; `FewerBits`, that
    a smaller `k` asks for some of the same bits. That powers of 2 are positive is an assumption,
    because the provers have no definition of `^`.
  * Certificates: `VerifiedIsSigned` (`CertificatesAreSigned`). On its way a certificate may be changed
    in anything, so the invariant `Issued` is about signatures: the one that arrives is one that was
    made, of a content and by a key. `secp256k1.recover` gives a public key of which the address is that
    of one key only (`AddressOfPublicKey`).
  * Keystores: `KeystoresOpen` (`KeystoreOpens`). Edits change address, version, scrypt parameters
    and the name of the field, but `LockedStores` keep the cipher and the mac they were made with, and
    with other parameters the key derived is another one. Buffers may be overwritten at any time; a
    store was made of what its buffer held then.
  * Signers: `AccountsSign` (`SignedByTheAccount`). `AccountsOf`: the accounts of a provider are those of
    its configuration, in order, whether from keys or from a mnemonic. A signer is one of a buffer
    (`OwnSigner`) or one that was got for an account (`GotSigner`); a search by address finds the least
    index, hence `LeastNumber`.
  * Simulation: `WrittenIsSimulated` (`SimulatedAsWritten`). `populateCall` and `populateTransaction`
    write into the request object, so what is in it is not what was written. `HoldsClauses` says what it
    keeps: its clauses, or those that `_buildClauses` makes of its fields, are those of what was written
    last, before and after each write of the SDK. `ClauseDoes`: the chain does with a clause what the
    intention says. Assumed: who is called or paid is somebody, and no field of a clause is `undefined`.
  * Values: `ValuesAreOrdered` (`OrderOfValues`), by `VcdmInv`: each value stands for the number it was
    made of (`Stands`: hexadecimal digits without a sign, of that number), which says nothing of how many
    zeros there are before them. `GivenStands` goes through the ways to make one, `FitStands`,
    `AlignStands` and `QuantityStands` through what is done with one; `Fit` takes away zeros only. What
    compareTo looks at are bytes: `BytesStand` says that they are of the same number as the digits,
    `FirstByteTells` that of two sequences as long as each other the first byte that differs decides.
    `Value` is a fold and `DigitsOf` is recursive: `ValueEquation` and `DigitsEquation` give their
    equations, by `FoldExists` and `RecursiveFunction`, and induction is `UpToAll` and `AllNumbers`.
  * Amounts and texts: `WrittenIsRead` (`ReadAsWritten`) for every precision, unit and amount.
    `formatUnits` never rounds, because it refuses a unit of more digits than the precision: that bound is
    what the proof needs, and what the mutant drops. `ReducedIsTheSame`: trimmed, a decimal has the same
    value; so what is parsed has at most the unit's decimals and, times the power, none.
    For texts, `FirstIndex` finds where the padding ends. Assumed: a text's bytes are bytes.
  * `BloomSpec`, `KeysSpec`, `WalletsSpec`, `VcdmSpec` and `UnitsSpec` let the steps of their module come
    in any order, within any bounds; run `core` explores behaviours of them, one part at a time.

* `SendingProofs`. `TypeCorrect`, `AsAsked`, `SignedByAll`, `RetrySafe` (of `TypeOK`, `SentAsAsked`,
  `FullySigned`, `FixedIsSentOnce`), from one inductive invariant. The node's transactions say nothing
  of objects as they are now, and objects change under the calls that use them; so the invariant has
  `KeepsGiven` (an object still says whatever was given, and its sender, once written, is an account
  that may send it) and, for each place of a call, what the call's own fields already agree on with the
  request it began with, and which signatures it carries. The step that posts then adds a transaction
  that agrees. `RecordOK` reduces each action to the one record it changes.
  On top of it `RefsAreFresh` (`FreshBlockRef`), by `DateInv`: the best block was asked for since the call
  began, and a reference found in an object was written there by the call itself, in the first of a
  deployment's two bodies; and `WaitsGiveContracts` (`WaitGivesContract`), by
  `DeploymentInv`: a factory's wait is for a transaction that some deployment of it sent.

* `SubscriptionsProofs`. `TypeCorrect`: the types, with `PollInv` of the poll that the provider starts.
  `PollsWhileSubscribed` (`PollsIffSubscribed`): by `FirstAsksNothing`. A poll is started only while there
  are no subscriptions, so its first activation asks for nothing and has settled, and the interval is
  there to be cleared, before any call that could stop it. `SerialImplementsFeed`
  (`ImplementsFeed`) and its corollary `SerialFeedsInOrder`: under the hypothesis `Serial`, the provider
  implements `BlockFeed` and so tells every subscription of its blocks in order, once, none left out.
  `Serial` is what `MCSubscriptions_serial.cfg` sets: one activation at a time, and no destroy. It is a
  hypothesis because the property is false without it (run `feed_skip`); the code keeps to it as long
  as a node answers faster than the interval. `SerialInv` says that at most one request is pending and
  that the cursor then stands at its block.

* `ProviderProofs`. `LogsNumberedApart`, `BlocksReceiptsWhole`, `TransactionsPlaced`, `CallsAnswered`
  (of `LogIndicesDisjoint`, `ReceiptsOfBlock`, `PlaceOfTransaction`, `AnsweredOnce`) for every tree of
  blocks and every set of batches. A result is made of the answers to several requests, and the trunk may
  change between any two; each answer names its block by id, and what a block contains never changes.
  So the invariant `Collected` relates what a call has so far to what it was asked for, and each receipt
  to the block that it names, not to the trunk; `Kept` has the same of the block that a method keeps
  while it asks for another thing; `AllFound` says that without a reorganisation nothing is missed. That
  the logs of a block's receipts are numbered without a gap and apart (`LogsOfFirst`) is induction over
  the transactions of the block, done as a least counterexample (`WFMin`). `AnswersInv` says which calls
  of a batch are answered at each place of the front end. The assumptions are of the data: a block has
  a transaction once, two blocks of one trunk have no transaction in common and other numbers, all
  trunks share the genesis block.
  `LogsFoundAsFiltered` (`LogsAsFiltered`), by `LogsInv`: the request for the logs is answered from one
  trunk, which the result keeps. `HexadecimalEnd` says what becomes of an end that is hexadecimal or left
  out, `StepsOfLogs` which steps the call takes, `CriteriaOfAddress` which criteria an address gets. The
  rest is induction over sequences: `FlattenEquation` for `FlattenSeq`, which is a recursive function of
  the community modules, and `Selected`, a filter that can be reasoned about where `SelectSeq` cannot.
  The first attempt failed, on a filter with a plain topic after a nested array: the property had been
  false of a case that the run did not have. `InPosition` excludes it, the run has it now, and section 3
  tells of it.

* `SignedTransactionsProofs`, from `SInv`, for every width, body, and list that arrives:
  `EncodedOnce` (`OneEncoding`), `ReadBack` (`ReadAsSigned`), `GasAgrees` (`GasOfEncoding`),
  `TypeCorrect`. The first part is about digits: `BytesOf` and `Value` are inverse to one another
  between numbers and byte strings that do not begin with 0 (`ValueOfDigits`, `DigitsOfValue`), shown by
  least counterexamples (`LeastNumber`), for every base. The second has a lemma for each kind of field,
  there and back: what a kind packs it unpacks to the same value, and what it unpacks it packs to the
  same bytes; trimming a reserved list and putting it together again are inverse too. `EncodingDecodes`
  and `DecodedIsWhole` put the fields together. `SInv` follows the transaction through its signers: what
  is signed could be encoded, and the body the delegator signs, which is decoded from what the origin
  sent, is the same body, so that both sign one hash. `AddressIsPacked` (an address that is there and
  has no sign is packed into at least one byte) is why a call is not encoded as a creation in
  `GasAgrees`. Assumed: a list that arrives has the shape of the profile (lists of any other shape make
  the RLP profiler throw); the values that stand for `null`, `undefined` and a name are no numbers,
  texts or lists.

* `BlockFeedProofs`. `FeedKeepsOrder`: `FeedSpec => []InOrder`, for any chain and subscribers. What a
  subscriber was told says nothing of what it is still to be told, so `InOrder` is not inductive;
  `FeedInv` adds that those who are subscribed, or for whom the feed looks into a block, have been told
  of all their blocks up to the next one (`UpToNext`), and that who never joined was told nothing. With
  `ImplementsFeed`, which `feed_serial` checks, this is what a subscription of the provider gets while
  its requests do not overlap; `feed_skip` shows what happens when they do.

Only model-checked: all liveness (`KeepsPolling`, `HeadSettles`, `HeadFollows`, `FeedsCatchUp`,
`WaitsEnd`, `CallsEnd`, `SessionsEnd`, `OpsEnd`), which is out of the prover's reach.

## 5. Not modelled, and the plan

Left out for good:

* **ABI and contract coder**: what `ethers` encodes and decodes, handed on. The models have what callers
  see of it: whether it decodes, and into how many values.
* **Errors and logging**: classes and texts, no state. An exception is that one was thrown.
* **Subscription URLs**: texts for a WebSocket of the caller; nothing in the packages reads from one.
* **Constants and fixtures**: data.
* The **ethers adapter**, which hands contracts and transactions from one framework to another and keeps
  nothing (the error of its factory on a reverted deployment is noted above); JSON-RPC methods that throw
  "not implemented" are one action, `NotImplemented`.

Two hazards in `PROJECT.json` have no property, as the models have them and no document of the code says
either way: a second `newHeads` subscription replaces the first, whose id is then unknown to
`eth_unsubscribe` (`BlockFeed`'s `Join` allows it), and nothing restarts the head poll after a failed
request. The notes of others say how far their properties go.

Every invariant and every action property that a run expects to hold has its theorem. What is left is
liveness, which TLC checks on the runs' bounds.
