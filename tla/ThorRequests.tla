---------------------------- MODULE ThorRequests ----------------------------
(***************************************************************************)
(* The operations of ThorClient that ask the node and change nothing:      *)
(* accounts, blocks, debug, logs, nodes and the reading part of            *)
(* transactions and contracts (packages/network/src/thor-client/), the     *)
(* names of utils/vns, over the HTTP client of HttpRequests and a node     *)
(* whose trunk may change between two requests.                            *)
(*                                                                         *)
(* An operation is the step that its code takes after the answers it has   *)
(* got so far: a request, a result or an exception.  No operation catches  *)
(* anything and none shares state with another, so one at a time is        *)
(* enough.                                                                 *)
(***************************************************************************)
EXTENDS HttpRequests, Selection, SequencesExt

CONSTANTS
  Calls,       \* the calls that are made
  Trunks,      \* the trunks the node may have: sequences of blocks, the genesis block first
  Content,     \* the transactions of each block, in order
  Trace,       \* per block and transaction of it: how each clause ran
  Logs,        \* the events of each block, in order
  Time,        \* the timestamp of each block
  Registered,  \* the addresses that names have as of each block, or Null
  Registries,  \* NetworkContracts: the name registry of known genesis blocks
  Simulated,   \* what each call data gives when simulated
  Tolerance,   \* NODE_HEALTHCHECK_TOLERANCE_IN_SECONDS
  MaxMoves,    \* bound on the changes of trunk
  MaxTime,     \* bound on the clock
  Malformed,   \* a text that fails every validation
  Null,        \* null and undefined
  Refused      \* an error response of the node

\* The blocks that may be on a trunk.
KnownBlocks == UNION {ToSet(t) : t \in Trunks}

ASSUME ThorAssumption ==
  /\ \A t \in Trunks : t \in Seq(ToSet(t)) /\ t # <<>>
  \* The number of a block is part of its id.
  /\ \A s, t \in Trunks : \A i \in DOMAIN s, j \in DOMAIN t : s[i] = t[j] => i = j
  /\ \A c \in Calls :
       /\ c.name = "simulateTransaction" =>
            /\ c.clauses \in Seq(ToSet(c.clauses))
            /\ \A k \in DOMAIN c.clauses : c.clauses[k].data.call \in DOMAIN Simulated
       /\ c.name = "executeCall" => c.data.call \in DOMAIN Simulated
       /\ c.name \in {"filterEventLogs", "filterGroupedEventLogs"} =>
            /\ c.range \in {Null} \union [from : Nat, to : Nat \union {Null}]
            /\ c.criteriaSet # Null => c.criteriaSet \in Seq(ToSet(c.criteriaSet))
  /\ IsFiniteSet(Requests) /\ Requests = 1 .. Cardinality(Requests)
  /\ \A data \in DOMAIN Simulated :
       LET result == Simulated[data]
       IN  result.reverted /\ result.data.selector = Null => result.data.words = <<>>
  /\ \A b \in KnownBlocks :
       /\ b \notin {Null, Malformed}
       /\ Logs[b] \in Seq(ToSet(Logs[b]))
       /\ Content[b] \in Seq(ToSet(Content[b]))
       /\ \A t \in ToSet(Content[b]) : \A k \in DOMAIN Trace[b][t] :
            LET output == Trace[b][t][k].output
            IN  output # Null => Null \notin {[reason |-> output.words], [panic |-> output.words],
                                            [unknown |-> TRUE]}
       /\ \A t \in ToSet(Content[b]) : Trace[b][t] \in Seq(ToSet(Trace[b][t]))
  /\ Tolerance \in Nat /\ MaxMoves \in Nat /\ MaxTime \in Nat
  /\ Null \notin {Malformed, Refused, [thrown |-> TRUE]}
  /\ {Null, Malformed}
       \intersect ([number : {0}] \union [tag : {"best"}] \union [id : KnownBlocks]) = {}

VARIABLES
  trunk,    \* the node's trunk
  now,      \* the clock, in seconds
  op,       \* the operation in progress, or Null
  sent,     \* the requests it has made
  got,      \* the answers it has got
  answer,   \* the answer on its way
  outcome,  \* what came out, or Null
  moves,    \* history: changes of trunk
  kept,     \* history: the blocks on the trunk ever since the operation began
  bests     \* history: the best blocks since then

opVars   == <<op, sent, got, answer, outcome>>
nodeVars == <<trunk, now, moves, kept, bests>>
thorVars == <<httpVars, opVars, nodeVars>>

-----------------------------------------------------------------------------
(***************************************************************************)
(* The node.                                                               *)
(***************************************************************************)
\* The blocks from genesis to b.
BranchTo(b) ==
  LET t == CHOOSE t \in Trunks : b \in ToSet(t)
  IN  SubSeq(t, 1, SelectInSeq(t, LAMBDA c : c = b))

\* The block of a revision, null being best; a block is known by its id on any branch.
NodeBlock(revision) ==
  IF revision = Null THEN Last(trunk)
  ELSE IF "tag" \in DOMAIN revision THEN IF revision.tag = "best" THEN Last(trunk) ELSE trunk[1]
  ELSE IF "id" \in DOMAIN revision  THEN revision.id
  ELSE IF revision.number < Len(trunk) THEN trunk[revision.number + 1] ELSE Null

\* The transaction, and the block that it is in on the branch to a head.
NodeTransaction(id, head) ==
  LET branch == IF head = Null THEN trunk ELSE BranchTo(head)
      place  == SelectLastInSeq(branch, LAMBDA b : id \in ToSet(Content[b]))
  IN  IF place = 0 THEN Null ELSE [id |-> id, block |-> branch[place]]

\* How a clause of a transaction of a block ran.
NodeTrace(target) ==
  LET b      == target.block
      places == {i \in DOMAIN Content[b] :
                   target.transaction \in {[index |-> i - 1], [id |-> Content[b][i]]}}
      ran    == {Trace[b][Content[b][i]] : i \in places}
  IN  IF \E r \in ran : target.clause + 1 \in DOMAIN r
      THEN (CHOOSE r \in ran : TRUE)[target.clause + 1] ELSE Refused

Meets(log, criterion) ==
  /\ criterion.address \in {Null, log.address}
  /\ \A i \in DOMAIN criterion.topics :
       criterion.topics[i] # Null =>
         i \in DOMAIN log.topics /\ log.topics[i] = criterion.topics[i]

\* A log meets a criterion of a filter; without any, every log does.
Wanted(log, criteria) ==
  criteria \in {Null, <<>>} \/ \E i \in DOMAIN criteria : Meets(log, criteria[i])

LogsOf(b) == [i \in DOMAIN Logs[b] |-> [log |-> Logs[b][i], block |-> b]]

\* The logs of the blocks of a range.
LogsBetween(range) ==
  LET from == range.from + 1
      to   == IF range.to = Null \/ range.to >= Len(trunk) THEN Len(trunk) ELSE range.to + 1
  IN  FlattenSeq([i \in 1 .. IF to < from THEN 0 ELSE to - from + 1 |->
                    LogsOf(trunk[from + i - 1])])

\* Those that a filter asks for.
NodeLogs(logs, criteria) == Selected(logs, {e \in ToSet(logs) : Wanted(e.log, criteria)})

\* One result per clause; the name registry answers from the state of the block.
NodeSimulation(clauses, revision) ==
  LET b == NodeBlock(revision)
      run(c) ==
        IF "names" \in DOMAIN c.data
        THEN [reverted |-> FALSE,
              data |-> [selector |-> Null,
                        words |-> [i \in DOMAIN c.data.names |-> Registered[b][c.data.names[i]]]]]
        ELSE Simulated[c.data.call]
  IN  IF b = Null THEN Refused ELSE [i \in DOMAIN clauses |-> run(clauses[i])]

Node(request) ==
  CASE request.path = "blocks"       -> NodeBlock(request.revision)
    [] request.path = "accounts"     -> LET b == NodeBlock(request.revision)
                                        IN  IF b = Null THEN Refused
                                            ELSE [of |-> request.of, at |-> b]
    [] request.path = "transactions" -> NodeTransaction(request.of, request.head)
    [] request.path = "tracers"      -> NodeTrace(request.target)
    [] request.path = "logs"         -> NodeLogs(LogsBetween(request.range), request.criteria)
    [] request.path = "simulate"     -> NodeSimulation(request.clauses, request.revision)
    [] OTHER                         -> [of |-> request.path]

-----------------------------------------------------------------------------
(***************************************************************************)
(* The steps of an operation: the request for its next answer, once the    *)
(* i - 1 first answers are used, or how it ends.                           *)
(***************************************************************************)
Ask(request, i) == IF i > Len(got) THEN [ask |-> request] ELSE [ret |-> got[i], next |-> i + 1]
Return(v, i)    == [ret |-> v, next |-> i]
Throw           == [throw |-> TRUE]

\* await: what follows, of the value and of the next answer to use.
Then(step, F(_, _)) == IF "ret" \in DOMAIN step THEN F(step.ret, step.next) ELSE step

-----------------------------------------------------------------------------
(***************************************************************************)
(* AccountsModule and BlocksModule.                                        *)
(***************************************************************************)
AccountRequest(address, revision, part) ==
  [path |-> "accounts", of |-> address, revision |-> revision, part |-> part]

GetAccount(address, revision, i) ==
  IF Malformed \in {address, revision} THEN Throw
  ELSE Ask(AccountRequest(address, revision, "account"), i)

GetBytecode(address, revision, i) ==
  IF Malformed \in {address, revision} THEN Throw
  ELSE Ask(AccountRequest(address, revision, "code"), i)

GetStorageAt(address, position, revision, i) ==
  IF Malformed \in {address, position, revision} THEN Throw
  ELSE Ask(AccountRequest(address, revision, position), i)

BlockRequest(revision, expanded) ==
  [path |-> "blocks", revision |-> revision, expanded |-> expanded]

GetBlockCompressed(revision, i) ==
  IF revision = Malformed THEN Throw ELSE Ask(BlockRequest(revision, FALSE), i)

GetBlockExpanded(revision, i) ==
  IF revision = Malformed THEN Throw ELSE Ask(BlockRequest(revision, TRUE), i)

BestBlock  == [tag |-> "best"]
FinalBlock == [tag |-> "finalized"]

\* getBestBlockRef: of the best block, if there is one.
GetBestBlockRef(i) ==
  Then(GetBlockCompressed(BestBlock, i),
       LAMBDA b, j : Return(IF b = Null THEN Null ELSE [ref |-> b], j))

GetGenesisBlock(i) == GetBlockCompressed([number |-> 0], i)

-----------------------------------------------------------------------------
(***************************************************************************)
(* NodesModule.                                                            *)
(***************************************************************************)
GetNodes(i) == Ask([path |-> "peers"], i)

\* isHealthy: the clock is read after the answer.
IsHealthy(i) ==
  Then(GetBlockCompressed(BestBlock, i),
       LAMBDA b, j :
         IF b = Null THEN Throw
         ELSE Return(now - Time[b] < Tolerance /\ Time[b] - now < Tolerance, j))

-----------------------------------------------------------------------------
(***************************************************************************)
(* TransactionsModule, without what sends.                                 *)
(***************************************************************************)
TransactionRequest(id, head, part) ==
  [path |-> "transactions", of |-> id, head |-> head, part |-> part]

GetTransaction(id, head, i) ==
  IF Malformed \in {id, head} THEN Throw ELSE Ask(TransactionRequest(id, head, "detail"), i)

GetTransactionRaw(id, head, i) ==
  IF Malformed \in {id, head} THEN Throw ELSE Ask(TransactionRequest(id, head, "raw"), i)

GetTransactionReceipt(id, head, i) ==
  IF Malformed \in {id, head} THEN Throw ELSE Ask(TransactionRequest(id, head, "receipt"), i)

\* The POST of simulateTransaction, for clauses without names.
Simulate(clauses, options, i) ==
  IF options.revision = Malformed THEN Throw
  ELSE Ask([path |-> "simulate", clauses |-> clauses, revision |-> options.revision,
            caller |-> options.caller], i)

NoOptions == [revision |-> Null, caller |-> Null]

\* decodeRevertReason of gas/helpers: the reason of Error(string), the code of
\* Panic(uint256), or undefined.
DecodeEvmError(data) ==
  CASE data.selector = "Error" -> [reason |-> data.words]
    [] data.selector = "Panic" -> [panic |-> data.words]
    [] OTHER                   -> Null

\* abi.Function.decodeOutput: a multiple of 32 bytes that holds every output.
DecodeOutput(fragment, data, i) ==
  IF data.selector = Null /\ Len(data.words) >= fragment.outputs
  THEN Return([outputs |-> SubSeq(data.words, 1, fragment.outputs)], i)
  ELSE Throw

\* Mutant of CallResult: a revert is decoded like a result.
CallResultDecoded(fragment, result, i) == DecodeOutput(fragment, result.data, i)

\* What executeCall makes of a result: a revert becomes a text.
CallResult(fragment, result, i) ==
  IF ~result.reverted THEN DecodeOutput(fragment, result.data, i)
  ELSE LET reason == DecodeEvmError(result.data)
       IN  Return([text |-> IF reason = Null THEN "" ELSE reason], i)

\* resolveNames: asks the registry of the network as of the best block.  A text
\* cannot be taken apart into addresses.
ResolveNames(names, i) ==
  Then(GetGenesisBlock(i),
       LAMBDA genesis, j :
         IF genesis \notin DOMAIN Registries THEN Return([n \in DOMAIN names |-> Null], j)
         ELSE Then(Then(Simulate(<<[to |-> Registries[genesis], data |-> [names |-> names]]>>,
                                 NoOptions, j),
                        LAMBDA results, k :
                          CallResult([outputs |-> Len(names)], results[1], k)),
                   LAMBDA result, k :
                     IF "text" \in DOMAIN result THEN Throw ELSE Return(result.outputs, k)))

\* The recipients that hold a dot.
Names == UNION {DOMAIN Registered[b] : b \in KnownBlocks}

IsName(to) == to \in Names

\* The names of the clauses, once each, in order.
UniqueNames(clauses) ==
  FoldLeft(LAMBDA names, c : IF IsName(c.to) /\ c.to \notin ToSet(names)
                             THEN Append(names, c.to) ELSE names,
           <<>>, clauses)

\* Mutant of WithAddresses: names that are not found are left out of the list.
WithFoundAddresses(clauses, names, addresses) ==
  LET found == SelectSeq(addresses, LAMBDA a : a # Null)
      address(to) == IF to \in ToSet(names)
                     THEN LET n == SelectInSeq(names, LAMBDA m : m = to)
                          IN  IF n \in DOMAIN found THEN found[n] ELSE to
                     ELSE to
  IN  [i \in DOMAIN clauses |-> [to |-> address(clauses[i].to), data |-> clauses[i].data]]

\* The clauses with the addresses of their names, or with the names that have none.
WithAddresses(clauses, names, addresses) ==
  LET address(to) == IF to \in ToSet(names)
                     THEN LET a == addresses[SelectInSeq(names, LAMBDA n : n = to)]
                          IN  IF a = Null THEN to ELSE a
                     ELSE to
  IN  [i \in DOMAIN clauses |-> [to |-> address(clauses[i].to), data |-> clauses[i].data]]

ResolveNamesInClauses(clauses, i) ==
  LET names == UniqueNames(clauses)
  IN  IF names = <<>> THEN Return(clauses, i)
      ELSE Then(ResolveNames(names, i),
                LAMBDA addresses, j : Return(WithAddresses(clauses, names, addresses), j))

\* simulateTransaction: a bad revision is found before any name is resolved.
SimulateTransaction(clauses, options, i) ==
  IF options.revision = Malformed THEN Throw
  ELSE Then(ResolveNamesInClauses(clauses, i),
            LAMBDA resolved, j : Simulate(resolved, options, j))

\* ContractsModule.executeCall: one clause.
ExecuteCall(address, fragment, data, options, i) ==
  Then(SimulateTransaction(<<[to |-> address, data |-> data]>>, options, i),
       LAMBDA results, j : CallResult(fragment, results[1], j))

\* resolveName and lookupAddress are the same with one name or address.
ResolveName(name, i) == Then(ResolveNames(<<name>>, i), LAMBDA found, j : Return(found[1], j))

-----------------------------------------------------------------------------
(***************************************************************************)
(* DebugModule, and the reason of a revert.                                *)
(***************************************************************************)
\* validateTarget: ids are ids, indexes are not negative.
ValidTarget(target) ==
  /\ target.block # Malformed
  /\ IF "id" \in DOMAIN target.transaction THEN target.transaction.id # Malformed
                                           ELSE target.transaction.index >= 0
  /\ target.clause >= 0

TraceTransactionClause(target, i) ==
  IF ValidTarget(target) THEN Ask([path |-> "tracers", target |-> target], i) ELSE Throw

RetrieveStorageRange(target, i) ==
  IF ValidTarget(target) THEN Ask([path |-> "storage", target |-> target], i) ELSE Throw

\* traceContractCall: whatever is given of the recipient, the data and the value is valid.
TraceContractCall(to, data, value, i) ==
  IF Malformed \in {to, data, value} THEN Throw
  ELSE Ask([path |-> "tracecall", to |-> to, data |-> data, value |-> value], i)

\* decodeRevertReason: Error(string), Panic(uint256), the error that the caller
\* expects, or nothing known.
DecodeRevertReason(data, errorFragment, i) ==
  IF data.selector = "Error"            THEN Return([reason |-> data.words], i)
  ELSE IF data.selector = "Panic"       THEN Return([panic |-> data.words], i)
  ELSE IF errorFragment = Null          THEN Return([unknown |-> TRUE], i)
  ELSE IF data.selector = errorFragment THEN Return([reason |-> SubSeq(data.words, 1, 1)], i)
  ELSE Throw

\* The place of a transaction in a block, from 0; it is there.
IndexInBlock(b, id) == SelectInSeq(Content[b], LAMBDA t : t = id) - 1

\* The output of each clause in turn until there is one, which is decoded.
ReasonOfClauses(transaction, b, errorFragment, i) ==
  LET target(k) == [block |-> b, transaction |-> [index |-> IndexInBlock(b, transaction.id)],
                    clause |-> k]
      next(s, k) ==
        IF "ret" \notin DOMAIN s \/ s.ret # Null THEN s
        ELSE Then(TraceTransactionClause(target(k), s.next),
                  LAMBDA traced, j :
                    IF traced.output = Null THEN Return(Null, j)
                    ELSE DecodeRevertReason(traced.output, errorFragment, j))
      count     == Len(Trace[transaction.block][transaction.id])
  IN  FoldLeft(next, Return(Null, i), [k \in 1 .. count |-> k - 1])

\* Mutant of GetRevertReason: the block is read by its number.
GetRevertReasonByNumber(id, errorFragment, i) ==
  Then(GetTransaction(id, Null, i),
       LAMBDA transaction, j :
         IF transaction = Null THEN Return(Null, j)
         ELSE Then(GetBlockExpanded([number |-> Len(BranchTo(transaction.block)) - 1], j),
                   LAMBDA b, k :
                     IF b = Null THEN Return(Null, k)
                     ELSE IF id \notin ToSet(Content[b]) THEN Throw
                     ELSE ReasonOfClauses(transaction, b, errorFragment, k)))

\* getRevertReason: the transaction, its block, then its clauses.
GetRevertReason(id, errorFragment, i) ==
  Then(GetTransaction(id, Null, i),
       LAMBDA transaction, j :
         IF transaction = Null THEN Return(Null, j)
         ELSE Then(GetBlockExpanded([id |-> transaction.block], j),
                   LAMBDA b, k :
                     IF b = Null THEN Return(Null, k)
                     ELSE ReasonOfClauses(transaction, b, errorFragment, k)))

-----------------------------------------------------------------------------
(***************************************************************************)
(* LogsModule.  The options of a filter are a range or Null, and a         *)
(* sequence of criteria with the fragments of their events, or Null.       *)
(***************************************************************************)
NumberOf(b) == Len(BranchTo(b)) - 1

FilterRawEventLogs(range, criteria, i) ==
  Ask([path |-> "logs", range |-> range, criteria |-> criteria], i)

FilterTransferLogs(range, criteria, i) ==
  Ask([path |-> "transfers", range |-> range, criteria |-> criteria], i)

CriteriaOf(options) ==
  IF options.criteriaSet = Null THEN Null
  ELSE [k \in DOMAIN options.criteriaSet |-> options.criteriaSet[k].criteria]

\* Mutant of GetRawEventLogs: the range ends before the best block.
GetRawEventLogsBelowBest(options, i) ==
  IF options.range # Null THEN FilterRawEventLogs(options.range, CriteriaOf(options), i)
  ELSE Then(GetBlockCompressed(BestBlock, i),
            LAMBDA b, j :
              FilterRawEventLogs([from |-> 0, to |-> NumberOf(b) - 1], CriteriaOf(options), j))

\* getRawEventLogs: without a range, from the genesis block to the best one.
GetRawEventLogs(options, i) ==
  IF options.range # Null THEN FilterRawEventLogs(options.range, CriteriaOf(options), i)
  ELSE Then(GetBlockCompressed(BestBlock, i),
            LAMBDA b, j :
              FilterRawEventLogs([from |-> 0, to |-> IF b = Null THEN Null ELSE NumberOf(b)],
                                 CriteriaOf(options), j))

\* removeDuplicatedFragments: the topics of the fragments, in order, and the first
\* fragment of each.
TopicHashes(options) ==
  FoldLeft(LAMBDA hashes, c : IF c.fragment.hash \in ToSet(hashes) THEN hashes
                              ELSE Append(hashes, c.fragment.hash),
           <<>>, options.criteriaSet)

\* Mutant of FragmentOf: every log is an event of the first fragment.
FirstFragment(options, hash) == options.criteriaSet[1].fragment

FragmentOf(options, hash) ==
  options.criteriaSet[SelectInSeq(options.criteriaSet, LAMBDA c : c.fragment.hash = hash)].fragment

\* decodeEventLog: there is a topic for each indexed input and a word for each other one.
Decodes(fragment, log) ==
  /\ log.topics[1] = fragment.hash
  /\ Len(log.topics) - 1 >= fragment.indexed
  /\ Len(log.words) >= fragment.plain

\* The logs with their decoded data: one that cannot be decoded makes all fail.
DecodeLogs(options, found, i) ==
  IF options.criteriaSet = Null THEN Return(<<>>, i)
  ELSE LET of(e) == FragmentOf(options, e.log.topics[1])
       IN  IF \A k \in DOMAIN found :
                found[k].log.topics[1] \in ToSet(TopicHashes(options))
                /\ Decodes(of(found[k]), found[k].log)
           THEN Return([k \in DOMAIN found |->
                          [log |-> found[k].log, block |-> found[k].block, by |-> of(found[k])]], i)
           ELSE Throw

FilterEventLogs(options, i) ==
  Then(GetRawEventLogs(options, i), LAMBDA found, j : DecodeLogs(options, found, j))

\* One group for each event, in the order of the criteria.
Grouped(options, decoded) ==
  IF options.criteriaSet = Null THEN <<>>
  ELSE [n \in DOMAIN TopicHashes(options) |->
          Selected(decoded, {e \in ToSet(decoded) : e.log.topics[1] = TopicHashes(options)[n]})]

FilterGroupedEventLogs(options, i) ==
  Then(FilterEventLogs(options, i), LAMBDA decoded, j : Return(Grouped(options, decoded), j))

-----------------------------------------------------------------------------
(***************************************************************************)
(* One operation of the client.                                            *)
(***************************************************************************)
Perform(c) ==
  CASE c.name = "getAccount"             -> GetAccount(c.address, c.revision, 1)
    [] c.name = "getBytecode"            -> GetBytecode(c.address, c.revision, 1)
    [] c.name = "getStorageAt"           -> GetStorageAt(c.address, c.position, c.revision, 1)
    [] c.name = "getBlockCompressed"     -> GetBlockCompressed(c.revision, 1)
    [] c.name = "getBlockExpanded"       -> GetBlockExpanded(c.revision, 1)
    [] c.name = "getFinalBlockCompressed" -> GetBlockCompressed(FinalBlock, 1)
    [] c.name = "getFinalBlockExpanded"  -> GetBlockExpanded(FinalBlock, 1)
    [] c.name = "getBestBlockRef"        -> GetBestBlockRef(1)
    [] c.name = "getNodes"               -> GetNodes(1)
    [] c.name = "isHealthy"              -> IsHealthy(1)
    [] c.name = "getTransaction"         -> GetTransaction(c.id, c.head, 1)
    [] c.name = "getTransactionRaw"      -> GetTransactionRaw(c.id, c.head, 1)
    [] c.name = "getTransactionReceipt"  -> GetTransactionReceipt(c.id, c.head, 1)
    [] c.name = "simulateTransaction"    -> SimulateTransaction(c.clauses, c.options, 1)
    [] c.name = "executeCall"            -> ExecuteCall(c.to, c.fragment, c.data, c.options, 1)
    [] c.name = "resolveName"            -> ResolveName(c.names[1], 1)
    [] c.name = "traceTransactionClause" -> TraceTransactionClause(c.target, 1)
    [] c.name = "retrieveStorageRange"   -> RetrieveStorageRange(c.target, 1)
    [] c.name = "traceContractCall"      -> TraceContractCall(c.to, c.data, c.value, 1)
    [] c.name = "getRevertReason"        -> GetRevertReason(c.id, c.errorFragment, 1)
    [] c.name = "filterRawEventLogs"     -> FilterRawEventLogs(c.range, c.criteria, 1)
    [] c.name = "filterTransferLogs"     -> FilterTransferLogs(c.range, c.criteria, 1)
    [] c.name = "filterEventLogs"        -> FilterEventLogs(c, 1)
    [] c.name = "filterGroupedEventLogs" -> FilterGroupedEventLogs(c, 1)

-----------------------------------------------------------------------------
(***************************************************************************)
(* The steps.                                                              *)
(***************************************************************************)
ThorInit ==
  /\ HttpInit
  /\ trunk \in Trunks
  /\ now = 0
  /\ op = Null
  /\ sent = <<>>
  /\ got = <<>>
  /\ answer = Null
  /\ outcome = Null
  /\ moves = 0
  /\ kept = {}
  /\ bests = {}

Thrown    == [thrown |-> TRUE]
Running   == op # Null /\ outcome = Null
Returns   == outcome # Null /\ outcome # Thrown
Following == Len(sent) + 1  \* the next request

\* An operation is called; its code runs up to its first await.
Start(c) ==
  /\ op = Null
  /\ op' = c
  /\ kept' = ToSet(trunk)
  /\ bests' = {Last(trunk)}
  /\ UNCHANGED <<httpVars, sent, got, answer, outcome, trunk, now, moves>>

\* The code after an await makes the next request, or cannot.
Asks(step) ==
  /\ Running /\ Len(sent) = Len(got)
  /\ Following \in Requests
  /\ "ask" \in DOMAIN step
  /\ \/ Send(Following) /\ sent' = Append(sent, step.ask) /\ UNCHANGED outcome
     \/ InvalidUrl(Following) /\ outcome' = Thrown /\ UNCHANGED sent
  /\ UNCHANGED <<op, got, answer, nodeVars>>

\* Or it ends the operation.
Ends(step) ==
  /\ Running /\ Len(sent) = Len(got)
  /\ "ask" \notin DOMAIN step
  /\ outcome' = IF "ret" \in DOMAIN step THEN [ret |-> step.ret] ELSE Thrown
  /\ UNCHANGED <<httpVars, op, sent, got, answer, nodeVars>>

\* The node answers, of its trunk at that moment; it may also fail.
Responds(r) ==
  /\ Respond(r)
  /\ LET found == Node(sent[r])
     IN  /\ stage'[r] = "json" => found # Refused
         /\ answer' = IF stage'[r] = "json" THEN found ELSE Null
  /\ outcome' = IF stage'[r] = "rejected" THEN Thrown ELSE outcome
  /\ UNCHANGED <<op, sent, got, nodeVars>>

\* The rest of a request; that it is rejected ends the operation.
Settles(r) ==
  /\ got' = IF stage'[r] = "resolved" /\ stage[r] # "resolved" THEN Append(got, answer) ELSE got
  /\ answer' = IF stage'[r] \in {"resolved", "rejected"} /\ stage[r] # stage'[r]
               THEN Null ELSE answer
  /\ outcome' = IF stage'[r] = "rejected" THEN Thrown ELSE outcome
  /\ UNCHANGED <<op, sent, nodeVars>>

Elapses(r) == (FetchFails(r) \/ BodyEnds(r) \/ BodyFails(r)) /\ Settles(r)
Fires(r)   == TimerFires(r) /\ Settles(r)

\* The trunk grows or another branch becomes the trunk.
TrunkMoves ==
  /\ Running /\ moves < MaxMoves
  /\ trunk' \in {t \in Trunks : t[1] = trunk[1] /\ t # trunk}
  /\ moves' = moves + 1
  /\ kept' = kept \intersect ToSet(trunk')
  /\ bests' = bests \union {Last(trunk')}
  /\ UNCHANGED <<httpVars, opVars, now>>

\* Only isHealthy reads the clock.
SecondPasses ==
  /\ Running /\ op.name = "isHealthy"
  /\ now < MaxTime
  /\ now' = now + 1
  /\ UNCHANGED <<httpVars, opVars, trunk, moves, kept, bests>>

Outside == (\E r \in Requests : Responds(r) \/ Elapses(r) \/ Fires(r)) \/ TrunkMoves \/ SecondPasses

Proceeds == Running /\ \E step \in {Perform(op)} : Asks(step) \/ Ends(step)

ThorNext == (\E c \in Calls : Start(c)) \/ Proceeds \/ Outside

ThorSpec == ThorInit /\ [][ThorNext]_thorVars

-----------------------------------------------------------------------------
(***************************************************************************)
(* Properties.                                                             *)
(***************************************************************************)
\* The logs that an operation returned.
LogsReturned ==
  IF ~Returns THEN <<>>
  ELSE CASE op.name = "filterEventLogs"        -> outcome.ret
         [] op.name = "filterGroupedEventLogs" -> FlattenSeq(outcome.ret)
         [] OTHER                              -> <<>>

\* Every log that meets the criteria is an event of a fragment of them, as those of
\* a contract are, or of the contracts of one kind.
Decodable(options) ==
  \A b \in KnownBlocks : \A k \in DOMAIN Logs[b] :
    Wanted(Logs[b][k], CriteriaOf(options)) =>
      \E c \in ToSet(options.criteriaSet) : Decodes(c.fragment, Logs[b][k])

\* As of the Transfer events of tokens and of NFTs, which index other inputs.
MixedFragments(options) ==
  \E c, d \in ToSet(options.criteriaSet) :
    c.fragment.hash = d.fragment.hash /\ c.fragment # d.fragment

\* filterEventLogs and filterGroupedEventLogs decode every log they are given for
\* criteria that only events of their fragments meet, none of which differ while
\* having the same topic: only a request that fails makes them fail.  Without a
\* range, they miss no log that meets a criterion in a block that stayed on the
\* trunk from the call to the result, whatever the node does between reading the
\* best block and the logs.
KeptLogsAreFound ==
  op # Null /\ op.name \in {"filterEventLogs", "filterGroupedEventLogs"} =>
  /\ outcome = Thrown =>
       \/ \E r \in Requests : stage[r] = "rejected"
       \/ ~Decodable(op)
       \/ MixedFragments(op)
  /\ Returns /\ op.range = Null /\ op.criteriaSet # Null =>
       \A b \in kept : \A k \in DOMAIN Logs[b] :
         Wanted(Logs[b][k], CriteriaOf(op))
           => \E e \in ToSet(LogsReturned) : e.log = Logs[b][k] /\ e.block = b

\* getRevertReason: when no clause before the one that reverted gave an output,
\* the reason is that of the clause that reverted, as it ran in the block that
\* held the transaction when it was asked for, wherever the trunk went since.
ReasonOfTheRevert ==
  Returns /\ op.name = "getRevertReason" /\ got[1] # Null /\ op.errorFragment = Null
  => LET ran == Trace[got[1].block][op.id]
     IN  \A k \in DOMAIN ran :
           ran[k].reverted /\ (\A j \in 1 .. k - 1 : ran[j].output = Null) /\ ran[k].output # Null
           => outcome = [ret |-> DecodeRevertReason(ran[k].output, Null, 1).ret]

\* simulateTransaction: the clauses are simulated with the addresses that all
\* their names had at one block which was best during the call; a name without
\* an address, or of a network without a registry, stays as it is.
NamesOfOneBlock ==
  Returns /\ op.name = "simulateTransaction"
  => LET clauses == Last(sent).clauses
     IN  \E b \in bests : \A k \in DOMAIN op.clauses :
           clauses[k].to = IF /\ IsName(op.clauses[k].to)
                              /\ trunk[1] \in DOMAIN Registries
                              /\ Registered[b][op.clauses[k].to] # Null
                           THEN Registered[b][op.clauses[k].to] ELSE op.clauses[k].to

\* Every operation ends, unless the body of a response never does.
OpsEnd ==
  (\A r \in Requests : []<>(stage[r] \notin {"json", "text"})) => (op # Null ~> outcome # Null)
=============================================================================
