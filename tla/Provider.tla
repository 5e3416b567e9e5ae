------------------------------ MODULE Provider ------------------------------
(***************************************************************************)
(* The JSON-RPC methods of VeChainProvider (packages/network/src/provider/ *)
(* utils/rpc-mapper/) and its front ends: request itself, the send and     *)
(* sendAsync of HardhatVeChainProvider, the batches of                     *)
(* JSONRPCEthersProvider, the server of packages/rpc-proxy.  The node and  *)
(* the two methods for receipts are those of Receipts.                     *)
(*                                                                         *)
(* A method asks the node one thing after the other; the trunk may change  *)
(* in between.  Methods share no state, so one use of a front end at a     *)
(* time is enough; a batch makes its calls in turn.                        *)
(***************************************************************************)
EXTENDS Receipts, Selection

CONSTANTS
  Calls,        \* the calls: records of a method and its parameters
  Batches,      \* the sequences of calls made through the front ends
  Topics,       \* the topics of events
  LogAddress,   \* the contract each transaction's events come from
  LogTopics,    \* the topics of its events
  MaxLimit,     \* the most logs that eth_getLogs asks for
  MaxFailures   \* bound on the requests that fail

Tags == {"latest", "finalized", "safe", "pending", "earliest"}

ASSUME ProviderAssumption ==
  /\ Batches \subseteq Seq(Calls) \ {<<>>}
  /\ \A c \in Calls :
       /\ "method" \in DOMAIN c
       /\ c.method \in {"eth_getTransactionByHash", "eth_getTransactionReceipt",
                        "debug_traceTransaction"} => c.tx \in Txs
       /\ c.method \in {"eth_getBlockByNumber", "eth_getBlockByHash"} =>
            /\ DOMAIN c.block \in {{"tag"}, {"number"}, {"hash"}}
            /\ "hash" \in DOMAIN c.block => c.block.hash \in BlockIds
       /\ c.method = "eth_getLogs" =>
            /\ {c.from, c.to} \subseteq
                 {Null} \union [hex : Nat] \union [decimal : Nat] \union [tag : Tags]
            /\ c.address # Null => Null \notin c.address
            /\ c.topics \in Seq([one : Topics \union {Null}] \union [any : SUBSET Topics])
            /\ Len(c.topics) <= 5
  /\ DOMAIN LogAddress = Txs /\ LogTopics \in [Txs -> Seq(Topics)]
  /\ Null \notin Nat \union Topics
  /\ MaxLimit \in Nat \ {0}
  /\ MaxFailures \in Nat
  /\ \A t \in Branches : \E b \in t : \A c \in Branches : b \in c  \* the genesis block
  /\ \A t \in Branches : \E b \in t : \A c \in t : Height[c] <= Height[b]  \* the best block
  /\ \A t \in Txs : t \notin [tx : Txs, block : BlockIds, index : Int]

VARIABLES
  front,     \* the front end in use, or "none"
  payloads,  \* the calls made through it
  current,   \* which of them is in progress
  step,      \* what that one waits for
  block,     \* the block it has read, or Null
  result,    \* what it returned
  answers,   \* history: what the caller was given, in order
  failures   \* history: requests that failed

ownVars == <<front, payloads, current, step, block, result, answers, failures>>
allVars == <<vars, ownVars>>

FrontEnds == {"request", "sendAsync", "batch", "proxy"}
Waiting   == {"receipt", "container", "detail", "chainId"}  \* of Receipts' stages

\* The interface to a consensus client.
EngineMethods ==
  {"engine_exchangeCapabilities", "engine_exchangeTransitionConfigurationV1",
   "engine_forkchoiceUpdatedV1", "engine_forkchoiceUpdatedV2", "engine_forkchoiceUpdatedV3",
   "engine_getPayloadBodiesByHashV1", "engine_getPayloadBodiesByRangeV1",
   "engine_getPayloadV1", "engine_getPayloadV2", "engine_getPayloadV3",
   "engine_newPayloadV1", "engine_newPayloadV2", "engine_newPayloadV3"}

\* The methods that are only names in the map: they throw.
NotImplementedMethods ==
  {"eth_coinbase", "eth_feeHistory", "eth_getBlockTransactionCountByHash",
   "eth_getBlockTransactionCountByNumber", "eth_getTransactionByBlockHashAndIndex",
   "eth_getTransactionByBlockNumberAndIndex", "eth_getUncleByBlockHashAndIndex",
   "eth_getUncleByBlockNumberAndIndex", "eth_getUncleCountByBlockHash",
   "eth_getUncleCountByBlockNumber", "eth_getWork", "eth_mining", "eth_hashrate",
   "eth_protocolVersion", "eth_sign", "eth_submitWork", "net_listening", "net_peerCount",
   "parity_nextNonce", "eth_newFilter", "eth_newBlockFilter",
   "eth_newPendingTransactionFilter", "eth_getFilterLogs", "eth_getFilterChanges",
   "eth_uninstallFilter", "debug_getBadBlocks", "debug_getRawBlock", "debug_getRawHeader",
   "debug_getRawReceipts", "debug_getRawTransaction", "eth_createAccessList", "eth_getProof",
   "eth_maxPriorityFeePerGas", "eth_signTransaction"} \union EngineMethods

ProviderInit ==
  /\ Init
  /\ front = "none"
  /\ payloads = <<>>
  /\ current = 0
  /\ step = "none"
  /\ block = Null
  /\ result = Null
  /\ answers = <<>>
  /\ failures = 0

-----------------------------------------------------------------------------
(***************************************************************************)
(* The node.                                                               *)
(***************************************************************************)
Best == CHOOSE b \in trunk : \A c \in trunk : Height[c] <= Height[b]

\* The last of the blocks that every trunk holds.
Finalized ==
  LET shared == {b \in BlockIds : \A t \in Branches : b \in t}
  IN  CHOOSE b \in shared : \A c \in shared : Height[c] <= Height[b]

\* The block of a revision; a block is known by its id on any branch.
NodeBlock(revision) ==
  CASE "tag" \in DOMAIN revision -> IF revision.tag = "best" THEN Best ELSE Finalized
    [] "hash" \in DOMAIN revision -> revision.hash
    [] OTHER -> IF \E b \in trunk : Height[b] = revision.number
                THEN CHOOSE b \in trunk : Height[b] = revision.number
                ELSE Null

\* The logs of a block, in order.
LogsOf(b) ==
  LET of(t) == [k \in 1 .. Events[b][t] |-> [block |-> b, tx |-> t, event |-> k]]
  IN  FlattenSeq([i \in DOMAIN Content[b] |-> of(Content[b][i])])

\* The logs of the trunk from a number to another.
LogsBetween(from, to) ==
  LET count  == IF to < from THEN 0 ELSE to - from + 1
      blocks == [n \in 1 .. count |-> NodeBlock([number |-> from + n - 1])]
  IN  FlattenSeq([n \in DOMAIN blocks |->
                    IF blocks[n] = Null THEN <<>> ELSE LogsOf(blocks[n])])

Meets(log, criterion) ==
  /\ criterion.address \in {Null, LogAddress[log.tx]}
  /\ \A i \in DOMAIN criterion.topics :
       criterion.topics[i] # Null =>
         i \in DOMAIN LogTopics[log.tx] /\ LogTopics[log.tx][i] = criterion.topics[i]

\* POST /logs/event: of the logs of a range, those that meet one of the criteria,
\* up to a limit; no criteria are met by all.
NodeLogs(logs, criteria) ==
  LET met == Selected(logs, {log \in ToSet(logs) :
                               criteria = {} \/ \E c \in criteria : Meets(log, c)})
  IN  SubSeq(met, 1, IF Len(met) < MaxLimit THEN Len(met) ELSE MaxLimit)

-----------------------------------------------------------------------------
(***************************************************************************)
(* Translation of parameters and results.                                  *)
(***************************************************************************)
\* getCorrectBlockNumberRPCToVeChain: of the tags only `earliest' is not best.
CorrectBlockNumber(b) ==
  IF "tag" \notin DOMAIN b THEN b
  ELSE IF b.tag = "earliest" THEN [number |-> 0] ELSE [tag |-> "best"]

\* _scatterArrayTopic.
ScatterArrayTopic(topics, address) == [address |-> address, topics |-> topics]

\* getTopicsPerAddress: plain topics together make one criterion; each member of
\* a nested array makes one of its own, as a first topic.
TopicsPerAddress(address, topics) ==
  LET plain  == Selected(topics, {t \in ToSet(topics) : "one" \in DOMAIN t})
      nested == UNION {topics[i].any : i \in {j \in DOMAIN topics : "any" \in DOMAIN topics[j]}}
      set    == {ScatterArrayTopic(<<t>>, address) : t \in nested}
                  \union IF plain = <<>> THEN {}
                         ELSE {ScatterArrayTopic([i \in DOMAIN plain |-> plain[i].one], address)}
  IN  IF set = {} THEN {ScatterArrayTopic(<<>>, address)} ELSE set

\* Mutant of CriteriaSetForInput: only the first address is looked at.
CriteriaOfFirst(addresses, topics) ==
  TopicsPerAddress(IF addresses \in {Null, {}} THEN Null ELSE CHOOSE a \in addresses : TRUE,
                   topics)

\* getCriteriaSetForInput: without addresses, the criteria are for any; for an
\* empty array of them there are none, whatever the topics.
CriteriaSetForInput(addresses, topics) ==
  UNION {TopicsPerAddress(a, topics) : a \in IF addresses = Null THEN {Null} ELSE addresses}

\* parseInt(end, 16): the digits of a decimal string are read as hexadecimal ones,
\* and so are the letters of a tag up to the first that is none.  Null for NaN.
ParseInt(end) ==
  LET digits[n \in 0 .. end.decimal] ==
        IF n < 10 THEN n ELSE 16 * digits[n \div 10] + (n % 10)
      letters == [earliest |-> 234, finalized |-> 15]  \* 0xea, 0xf
  IN  IF "hex" \in DOMAIN end THEN end.hex
      ELSE IF "decimal" \in DOMAIN end THEN digits[end.decimal]
      ELSE IF end.tag \in DOMAIN letters THEN letters[end.tag]
      ELSE Null

\* _formatTransactionToRPC: the transaction, and where it is.
FormatTransaction(t, b, index) == [tx |-> t, block |-> b, index |-> index]

\* formatToRPCStandard of a block: ids, or the transactions.
FormatBlock(b, full) ==
  [block |-> b,
   transactions |-> IF full
                    THEN [i \in DOMAIN Content[b] |-> FormatTransaction(Content[b][i], b, i - 1)]
                    ELSE Content[b]]
-----------------------------------------------------------------------------
(***************************************************************************)
(* The methods, each with what it does after every answer of the node.     *)
(***************************************************************************)
Ask(what) == step' = what /\ UNCHANGED <<block, result, vars>>

Return(v) == step' = "returned" /\ result' = v /\ UNCHANGED <<block, vars>>

Throw == step' = "threw" /\ UNCHANGED <<block, result, vars>>

\* The block just read is kept, and the next thing asked for.
Keep(b, what) == step' = what /\ block' = b /\ UNCHANGED <<result, vars>>

\* A read of the state at a block: one request, refused for an unknown block.
ReadState(revision) ==
  \/ step = "begin" /\ Ask("state")
  \/ step = "state" /\ NodeBlock(revision) # Null /\ Return([state |-> NodeBlock(revision)])
  \/ step = "state" /\ NodeBlock(revision) = Null /\ Throw

EthGetBalance(c) == c.method = "eth_getBalance" /\ ReadState(CorrectBlockNumber(c.block))

EthGetCode(c) == c.method = "eth_getCode" /\ ReadState(CorrectBlockNumber(c.block))

EthGetStorageAt(c) == c.method = "eth_getStorageAt" /\ ReadState(CorrectBlockNumber(c.block))

\* The call is simulated; that it reverted is not looked at.
EthCall(c) == c.method = "eth_call" /\ ReadState(CorrectBlockNumber(c.block))

\* Without a block the node takes the best.
EthEstimateGas(c) ==
  /\ c.method = "eth_estimateGas"
  /\ ReadState(IF "block" \in DOMAIN c THEN CorrectBlockNumber(c.block) ELSE [tag |-> "best"])

\* The call is traced on the best block, which is what the node does without a
\* revision: the block of the parameters is not read.
DebugTraceCall(c) == c.method = "debug_traceCall" /\ ReadState([tag |-> "best"])

\* The base gas price is read from a contract, at the best block.
EthGasPrice(c) == c.method = "eth_gasPrice" /\ ReadState([tag |-> "best"])

EthBlockNumber(c) ==
  /\ c.method = "eth_blockNumber"
  /\ \/ step = "begin" /\ Ask("best")
     \/ step = "best" /\ Return([number |-> Height[Best]])

\* The genesis block is read every time.
ReadChainId ==
  \/ step = "begin" /\ Ask("chain id")
  \/ step = "chain id" /\ Return([chainId |-> NodeBlock([number |-> 0])])

EthChainId(c) == c.method = "eth_chainId" /\ ReadChainId

NetVersion(c) == c.method = "net_version" /\ ReadChainId

\* With details the chain id is read first.
ReadBlock(b, full) ==
  \/ step = "begin" /\ full /\ Ask("chain id")
  \/ step = "begin" /\ ~full /\ Ask("block")
  \/ step = "chain id" /\ Ask("block")
  \/ step = "block" /\ b # Null /\ Return(FormatBlock(b, full))
  \/ step = "block" /\ b = Null /\ Return(Null)

EthGetBlockByNumber(c) ==
  c.method = "eth_getBlockByNumber" /\ ReadBlock(NodeBlock(CorrectBlockNumber(c.block)), c.detail)

\* The id must be one; then it is eth_getBlockByNumber.
EthGetBlockByHash(c) ==
  /\ c.method = "eth_getBlockByHash"
  /\ IF "hash" \in DOMAIN c.block THEN ReadBlock(NodeBlock(c.block), c.detail)
     ELSE step = "begin" /\ Throw

\* Mutant of EthGetTransactionByHash: the block is asked for by its number.
TransactionByHashAtNumber(c) ==
  /\ c.method = "eth_getTransactionByHash"
  /\ \/ step = "begin" /\ Ask("transaction")
     \/ step = "transaction" /\ BlockOf(c.tx) = Null /\ Return(Null)
     \/ step = "transaction" /\ BlockOf(c.tx) # Null /\ Keep(BlockOf(c.tx), "block")
     \/ LET b == NodeBlock([number |-> Height[block]])
        IN  /\ step = "block"
            /\ IF b # Null /\ Contains(Content[b], c.tx)
               THEN Return(FormatTransaction(c.tx, block, TransactionIndex(b, c.tx)))
               ELSE Throw

\* The transaction, its block by id, then the chain id.
EthGetTransactionByHash(c) ==
  /\ c.method = "eth_getTransactionByHash"
  /\ \/ step = "begin" /\ Ask("transaction")
     \/ step = "transaction" /\ BlockOf(c.tx) = Null /\ Return(Null)
     \/ step = "transaction" /\ BlockOf(c.tx) # Null /\ Keep(BlockOf(c.tx), "block")
     \/ step = "block" /\ Ask("chain id")
     \/ step = "chain id" /\ Return(FormatTransaction(c.tx, block, TransactionIndex(block, c.tx)))

\* An end of the range that is not given is the best block's number, read first.
RangeEnd(end) == IF end = Null THEN Height[block] ELSE ParseInt(end)

\* NaN is sent as null: what number the node takes that for, if it does not refuse
\* it, cannot be told from the code.
TakenFor(n) == IF n = Null THEN {Height[b] : b \in BlockIds} ELSE {n}

EthGetLogs(c) ==
  /\ c.method = "eth_getLogs"
  /\ \/ step = "begin" /\ Ask("best")
     \/ step = "best" /\ Keep(Best, "logs")
     \/ /\ step = "logs"
        /\ \E logs \in {LogsBetween(from, to) : from \in TakenFor(RangeEnd(c.from)),
                                              to \in TakenFor(RangeEnd(c.to))} :
             Return([logs |-> NodeLogs(logs, CriteriaSetForInput(c.address, c.topics)),
                     trunk |-> trunk, best |-> block])
     \/ step = "logs" /\ Null \in {RangeEnd(c.from), RangeEnd(c.to)} /\ Throw

\* The best block, the genesis block for the highest number and, when the best
\* block is old, the chain id.
EthSyncing(c) ==
  /\ c.method = "eth_syncing"
  /\ \/ step = "begin" /\ Ask("best")
     \/ step = "best" /\ Keep(Best, "genesis")
     \/ step = "genesis" /\ c.synced /\ Return([syncing |-> FALSE])
     \/ step = "genesis" /\ ~c.synced /\ Ask("chain id")
     \/ step = "chain id" /\ Return([syncing |-> TRUE, current |-> FormatBlock(block, FALSE)])

\* The best block, the wait for one above it, the chain id.
EvmMine(c) ==
  /\ c.method = "evm_mine"
  /\ \/ step = "begin" /\ Ask("best")
     \/ step = "best" /\ Keep(Best, "wait")
     \/ step = "wait" /\ Height[Best] > Height[block] /\ Keep(Best, "chain id")
     \/ step = "chain id" /\ Return(FormatBlock(block, TRUE))

\* The two methods of Receipts, from its first request to its last.
EthGetReceipts(c) ==
  \/ /\ c.method = "eth_getTransactionReceipt" /\ step = "begin"
     /\ GetTransactionReceipt(c.tx)
     /\ step' = "receipts" /\ UNCHANGED <<block, result>>
  \/ c.method = "eth_getBlockReceipts" /\ step = "begin" /\ Ask("chain id")
  \/ c.method = "eth_getBlockReceipts" /\ step = "chain id" /\ Ask("block")
  \/ /\ c.method = "eth_getBlockReceipts" /\ step = "block"
     /\ GetBlockReceipts(c.block.number)
     /\ step' = "receipts" /\ UNCHANGED <<block, result>>
  \/ /\ c.method = "eth_getBlockReceipts" /\ step = "block"
     /\ NodeBlock(c.block) = Null /\ Return(Null)

\* Mutant of ReceiptsEnd: only a result is passed on.
ReceiptsEndWell(c) ==
  /\ step = "receipts" /\ stage = "idle" /\ c.method # "debug_traceTransaction"
  /\ Return([receipts |-> results])

\* What its requests end with, for whoever called it.
ReceiptsEnd(c) ==
  /\ step = "receipts"
  /\ \/ stage = "failed" /\ step' = "threw" /\ Recover /\ UNCHANGED <<block, result>>
     \/ /\ stage = "idle" /\ c.method # "debug_traceTransaction"
        /\ Return([receipts |-> results])

\* debug_traceTransaction: the receipt, then the trace of the first clause; a
\* transaction without a receipt has no target to trace.
DebugTraceTransaction(c) ==
  /\ c.method = "debug_traceTransaction"
  /\ \/ /\ step = "begin"
        /\ GetTransactionReceipt(c.tx)
        /\ step' = "receipts" /\ UNCHANGED <<block, result>>
     \/ step = "receipts" /\ stage = "idle" /\ results = <<Null>> /\ Throw
     \/ /\ step = "receipts" /\ stage = "idle" /\ results # <<Null>>
        /\ Keep(results[1].block, "trace")
     \/ step = "trace" /\ Return([tx |-> c.tx, block |-> block, clause |-> 0])

\* Answered without the node: the accounts of the wallet.
EthAccounts(c) ==
  c.method = "eth_accounts" /\ step = "begin" /\ Return([local |-> "accounts"])

Web3ClientVersion(c) ==
  c.method = "web3_clientVersion" /\ step = "begin" /\ Return([local |-> "thor"])

\* A random number, for an address.
EthGetTransactionCount(c) ==
  /\ c.method = "eth_getTransactionCount" /\ step = "begin"
  /\ IF c.isAddress THEN Return([local |-> "random"]) ELSE Throw

EthRequestAccounts(c) ==
  /\ c.method = "eth_requestAccounts" /\ step = "begin"
  /\ IF c.accounts = 0 THEN Throw ELSE Return([local |-> c.accounts])

NotImplemented(c) == c.method \in NotImplementedMethods /\ step = "begin" /\ Throw

\* request finds no such method.
MethodNotFound(c) == c.method = "unknown" /\ step = "begin" /\ Throw

\* RPCMethodsMap.
Method(c) ==
  \/ EthGetBalance(c) \/ EthGetCode(c) \/ EthGetStorageAt(c) \/ EthCall(c) \/ EthEstimateGas(c)
  \/ EthGasPrice(c) \/ EthBlockNumber(c) \/ EthChainId(c) \/ NetVersion(c)
  \/ EthGetBlockByNumber(c) \/ EthGetBlockByHash(c) \/ EthGetTransactionByHash(c) \/ EthGetLogs(c)
  \/ EthSyncing(c) \/ EvmMine(c)
  \/ EthGetReceipts(c) \/ ReceiptsEnd(c)
  \/ DebugTraceTransaction(c) \/ DebugTraceCall(c)
  \/ EthAccounts(c) \/ Web3ClientVersion(c) \/ EthGetTransactionCount(c)
  \/ EthRequestAccounts(c)
  \/ NotImplemented(c) \/ MethodNotFound(c)
-----------------------------------------------------------------------------
(***************************************************************************)
(* The front ends.                                                         *)
(***************************************************************************)
\* Methods and front ends keep nothing from one use to the next: a behaviour has
\* one use.
Start(kind, calls) ==
  /\ front = "none" /\ payloads = <<>>
  /\ front' = kind
  /\ payloads' = calls
  /\ current' = 1
  /\ step' = "begin"
  /\ block' = Null
  /\ result' = Null
  /\ answers' = <<>>
  /\ UNCHANGED <<vars, failures>>

Request(c) == Start("request", <<c>>)

\* sendAsync and the server of rpc-proxy take one call.
SendOne(calls) == \E kind \in {"sendAsync", "proxy"} : Len(calls) = 1 /\ Start(kind, calls)

SendBatch(calls) == Start("batch", calls)

\* A request of the method in progress fails: the method throws.
RequestFails ==
  /\ front # "none" /\ failures < MaxFailures
  /\ failures' = failures + 1
  /\ \/ /\ step \notin {"begin", "receipts", "returned", "threw"}
        /\ step' = "threw" /\ UNCHANGED vars
     \/ /\ step = "receipts" /\ stage \in Waiting
        /\ stage' = "failed"
        /\ UNCHANGED <<step, trunk, reorgs, asked, todo, receipt, detail, results>>
  /\ UNCHANGED <<front, payloads, current, block, result, answers>>

Settled == front # "none" /\ step \in {"returned", "threw"}

\* What the caller is told of the call in progress.
Told(thrown) == [id |-> current, ok |-> step = "returned", thrown |-> thrown]

\* The promise of request or send settles.
Answer ==
  /\ Settled /\ front = "request"
  /\ answers' = Append(answers, Told(FALSE))
  /\ front' = "none"
  /\ UNCHANGED <<vars, payloads, current, step, block, result, failures>>

\* handleRequest of the server: the result, or the error, with the id of the request.
HandleRequest ==
  /\ Settled /\ front = "proxy"
  /\ answers' = Append(answers, Told(FALSE))
  /\ front' = "none"
  /\ UNCHANGED <<vars, payloads, current, step, block, result, failures>>

\* sendAsync calls its callback inside the try: one that throws at the result is
\* called again, with its own error.
Callback ==
  /\ Settled /\ front = "sendAsync"
  /\ \E thrown \in BOOLEAN :
       /\ answers' = Append(answers, Told(thrown))
       /\ IF thrown /\ step = "returned" THEN step' = "threw" /\ UNCHANGED front
                                         ELSE front' = "none" /\ UNCHANGED step
  /\ UNCHANGED <<vars, payloads, current, block, result, failures>>

\* Mutant of NextOfBatch: the batch ends with the first call that throws.
NextUnlessThrown ==
  /\ Settled /\ front = "batch"
  /\ answers' = Append(answers, Told(FALSE))
  /\ IF current < Len(payloads) /\ step = "returned"
     THEN current' = current + 1 /\ step' = "begin" /\ block' = Null /\ UNCHANGED front
     ELSE front' = "none" /\ UNCHANGED <<current, step, block>>
  /\ UNCHANGED <<vars, payloads, result, failures>>

\* _send answers a call, with its result or its error, and goes on to the next.
NextOfBatch ==
  /\ Settled /\ front = "batch"
  /\ answers' = Append(answers, Told(FALSE))
  /\ IF current < Len(payloads)
     THEN current' = current + 1 /\ step' = "begin" /\ block' = Null /\ UNCHANGED front
     ELSE front' = "none" /\ UNCHANGED <<current, step, block>>
  /\ UNCHANGED <<vars, payloads, result, failures>>

\* The method in progress, between two answers of the node.
MethodStep ==
  /\ front # "none"
  /\ Method(payloads[current])
  /\ UNCHANGED <<front, payloads, current, answers, failures>>

ReceiptsStep ==
  /\ front # "none" /\ step = "receipts"
  /\ ReceiptArrives \/ ContainerArrives \/ DetailArrives \/ ChainIdArrives
  /\ UNCHANGED ownVars

ProviderStep ==
  \/ MethodStep \/ ReceiptsStep \/ RequestFails
  \/ Answer \/ HandleRequest \/ Callback \/ NextOfBatch

ProviderNext ==
  \/ \E c \in Calls : Request(c)
  \/ \E calls \in Batches : SendOne(calls) \/ SendBatch(calls)
  \/ ProviderStep
  \/ Reorg /\ UNCHANGED ownVars

ProviderSpec == ProviderInit /\ [][ProviderNext]_allVars

\* The node answers every request, if only with an error.
ProviderFairSpec == ProviderSpec /\ WF_allVars(ProviderStep)

-----------------------------------------------------------------------------
Returned == front # "none" /\ step = "returned" /\ result # Null

\* Wherever a transaction is said to be, it is there: in that block, at that
\* index, whatever the trunk did between the requests that found it.
PlaceOfTransaction ==
  Returned =>
    LET Placed(r) == /\ r.index + 1 \in DOMAIN Content[r.block]
                     /\ Content[r.block][r.index + 1] = r.tx
    IN  /\ "index" \in DOMAIN result => Placed(result)
        /\ "clause" \in DOMAIN result => Contains(Content[result.block], result.tx)
        /\ "transactions" \in DOMAIN result =>
             \A i \in DOMAIN result.transactions :
               /\ result.transactions[i] \notin Txs => Placed(result.transactions[i])
               /\ result.transactions[i] \in Txs => result.transactions[i] = Content[result.block][i]

\* What a filter asks for, by the positions of its topics: each position holds a
\* topic, any of several, or anything.
Matches(log, c) ==
  /\ c.address \notin {Null, {}} => LogAddress[log.tx] \in c.address
  /\ \A i \in DOMAIN c.topics :
       LET t == c.topics[i]
       IN  \/ t = [one |-> Null]
           \/ /\ i \in DOMAIN LogTopics[log.tx]
              /\ LogTopics[log.tx][i] \in IF "one" \in DOMAIN t THEN {t.one} ELSE t.any

Plain(c) ==
  /\ \/ \A i \in DOMAIN c.topics : "one" \in DOMAIN c.topics[i]
     \/ Len(c.topics) = 1 /\ c.topics[1] # [any |-> {}]
  /\ c.address = {} => c.topics = <<>>

\* parseInt changes no end of the range.
Hexadecimal(c) == \A end \in {c.from, c.to} : end # Null => "hex" \in DOMAIN end

\* A plain topic after a nested array loses its position, which does not matter
\* when the first topic is nested.
InPosition(c) ==
  \/ c.topics # <<>> /\ "any" \in DOMAIN c.topics[1]
  \/ \A i, j \in DOMAIN c.topics :
       i < j /\ "any" \in DOMAIN c.topics[i] => "any" \in DOMAIN c.topics[j]

\* eth_getLogs misses no log that matches its filter in the range, on the trunk
\* that it read, unless there are more than the limit or a nested array comes
\* between plain topics; it returns no others when the topics are not nested, or
\* only the first, and no empty array of addresses is given with them.  The range
\* is that of a caller who gives it in hexadecimal, or leaves it out.
LogsAsFiltered ==
  (Returned /\ payloads[current].method = "eth_getLogs" /\ Hexadecimal(payloads[current])) =>
    LET c        == payloads[current]
        from     == IF c.from = Null THEN Height[result.best] ELSE c.from.hex
        to       == IF c.to = Null THEN Height[result.best] ELSE c.to.hex
        matching == {log \in UNION {ToSet(LogsOf(b)) : b \in result.trunk} :
                       Height[log.block] \in from .. to /\ Matches(log, c)}
    IN  /\ Len(result.logs) < MaxLimit /\ InPosition(c) => matching \subseteq ToSet(result.logs)
        /\ Plain(c) => ToSet(result.logs) \subseteq matching

\* Every call of a front end is answered once, in order, whatever became of the
\* others; only a callback that threw is called again.
AnsweredOnce ==
  front = "none" =>
    /\ \A k \in DOMAIN payloads : \E i \in DOMAIN answers : answers[i].id = k
    /\ \A i \in DOMAIN answers : answers[i].id \in DOMAIN payloads
    /\ \A i, j \in DOMAIN answers : i < j =>
         \/ answers[i].id < answers[j].id
         \/ answers[i].id = answers[j].id /\ answers[i].ok /\ answers[i].thrown /\ ~answers[j].ok

\* Every use of a front end ends, unless it waits for a block that never comes.
SessionsEnd == front # "none" ~> (front = "none" \/ step = "wait")
=============================================================================
