------------------------------ MODULE Receipts ------------------------------
(***************************************************************************)
(* The receipts of the JSON-RPC provider: eth_getTransactionReceipt and    *)
(* eth_getBlockReceipts (packages/network/src/provider/utils/rpc-mapper/   *)
(* methods-map/methods/), with the helpers that number transactions and    *)
(* logs (packages/network/src/provider/utils/helpers/transaction/) and a   *)
(* node whose trunk may change between two of their requests.              *)
(*                                                                         *)
(* eth_getTransactionReceipt asks the node in turn for the receipt, the    *)
(* block the receipt names, the transaction and the chain id;              *)
(* eth_getBlockReceipts asks for the block of a number and then does that  *)
(* for each of its transactions.  Each action is the code between two      *)
(* awaits; the node answers in between.                                    *)
(***************************************************************************)
EXTENDS Integers, Sequences, SequencesExt

CONSTANTS
  Txs,         \* the transactions
  BlockIds,    \* the blocks, of every branch
  Content,     \* the transactions of each block, in order
  Height,      \* the number of each block
  Events,      \* how many events each transaction emits in each block
  Clauses,     \* how many clauses each transaction has
  Branches,    \* the trunks the node may have
  MaxReorgs,   \* bound on the changes of trunk
  Null         \* nothing found

ASSUME ReceiptAssumption ==
  /\ Content \in [BlockIds -> Seq(Txs)]
  /\ Height \in [BlockIds -> Nat]
  /\ Events \in [BlockIds -> [Txs -> Nat]]
  /\ Clauses \in [Txs -> Nat]
  /\ Branches \subseteq SUBSET BlockIds
  /\ \A b \in BlockIds : IsInjective(Content[b])
  /\ \A trunk \in Branches : \A b, c \in trunk :
       b # c => Height[b] # Height[c] /\ ToSet(Content[b]) \intersect ToSet(Content[c]) = {}
  /\ Null \notin BlockIds
  /\ Null \notin [tx : Txs, block : BlockIds, index : Nat, logs : SUBSET Nat]
  /\ MaxReorgs \in Nat

VARIABLES
  trunk,    \* the blocks of the node's trunk
  reorgs,   \* history: changes of trunk
  stage,    \* what the method in progress waits for
  asked,    \* the block eth_getBlockReceipts found, or Null for eth_getTransactionReceipt
  todo,     \* the transactions still to look at
  receipt,  \* the block that the receipt of the first of them names
  detail,   \* the block that its details name
  results   \* the receipts collected

callVars == <<stage, asked, todo, receipt, detail, results>>
vars == <<trunk, reorgs, callVars>>

Stages == {"idle", "block", "receipt", "container", "detail", "chainId", "failed"}

-----------------------------------------------------------------------------
\* The place of t in block b, from 0 (getTransactionIndexIntoBlock).
TransactionIndex(b, t) == (CHOOSE i \in DOMAIN Content[b] : Content[b][i] = t) - 1

\* The number of logs of the first n transactions of block b.
LogsOfFirst(b) ==
  LET logs[n \in 0 .. Len(Content[b])] ==
        IF n = 0 THEN 0 ELSE logs[n - 1] + Events[b][Content[b][n]]
  IN  logs

\* Mutant of LogsAhead: the logs of the transaction itself are counted.
LogsUpTo(b, t) == LogsOfFirst(b)[TransactionIndex(b, t) + 1]

\* getNumberOfLogsAheadOfTransactionIntoBlockExpanded.
LogsAhead(b, t) == LogsOfFirst(b)[TransactionIndex(b, t)]

\* Mutant of FormatReceipt: every transaction's logs are numbered from 0.
FormatReceiptFromZero(b, t) ==
  [tx |-> t, block |-> b, index |-> TransactionIndex(b, t),
   logs |-> 0 .. Events[b][t] - 1]

\* formatTransactionReceiptToRPCStandard, for a receipt and a container in block b.
FormatReceipt(b, t) ==
  LET ahead == LogsAhead(b, t)
  IN  [tx |-> t, block |-> b, index |-> TransactionIndex(b, t),
       logs |-> ahead .. ahead + Events[b][t] - 1]

TypeOK ==
  /\ trunk \in Branches
  /\ reorgs \in 0 .. MaxReorgs
  /\ stage \in Stages
  /\ asked \in BlockIds \union {Null}
  /\ todo \in Seq(Txs)
  /\ receipt \in BlockIds \union {Null}
  /\ detail \in BlockIds \union {Null}
  /\ results \in Seq([tx : Txs, block : BlockIds, index : Nat, logs : SUBSET Nat] \union {Null})

Init ==
  /\ trunk \in Branches
  /\ reorgs = 0
  /\ stage = "idle"
  /\ asked = Null
  /\ todo = <<>>
  /\ receipt = Null
  /\ detail = Null
  /\ results = <<>>

-----------------------------------------------------------------------------
\* The trunk block that holds t, if any: what the node says of a transaction.
BlockOf(t) ==
  IF \E b \in trunk : Contains(Content[b], t)
  THEN CHOOSE b \in trunk : Contains(Content[b], t)
  ELSE Null

\* The method goes on with transaction list ts, or ends.
GoOn(ts) ==
  /\ todo' = ts
  /\ stage' = IF ts = <<>> THEN "idle" ELSE "receipt"
  /\ receipt' = Null
  /\ detail' = Null

\* eth_getTransactionReceipt is called.
GetTransactionReceipt(t) ==
  /\ stage = "idle"
  /\ asked' = Null
  /\ results' = <<>>
  /\ GoOn(<<t>>)
  /\ UNCHANGED <<trunk, reorgs>>

\* eth_getBlockReceipts is called with a number; the node answers for its trunk.
GetBlockReceipts(n) ==
  /\ stage = "idle"
  /\ \E b \in trunk : Height[b] = n
  /\ asked' = CHOOSE b \in trunk : Height[b] = n
  /\ results' = <<>>
  /\ GoOn(Content[asked'])
  /\ UNCHANGED <<trunk, reorgs>>

\* The receipt arrives; without one, the transaction's result is null.
ReceiptArrives ==
  /\ stage = "receipt"
  /\ receipt' = BlockOf(Head(todo))
  /\ \/ /\ receipt' # Null
        /\ stage' = "container"
        /\ UNCHANGED <<todo, detail, results>>
     \/ /\ BlockOf(Head(todo)) = Null
        /\ results' = Append(results, Null)
        /\ GoOn(Tail(todo))
  /\ UNCHANGED <<trunk, reorgs, asked>>

\* The block arrives: the node gives a block by its id from any branch.
ContainerArrives ==
  /\ stage = "container"
  /\ stage' = "detail"
  /\ UNCHANGED <<trunk, reorgs, asked, todo, receipt, detail, results>>

\* The transaction arrives, or null.
DetailArrives ==
  /\ stage = "detail"
  /\ detail' = BlockOf(Head(todo))
  /\ stage' = "chainId"
  /\ UNCHANGED <<trunk, reorgs, asked, todo, receipt, results>>

\* Mutant of ChainIdArrives: the loop over the block ends with its first receipt.
ChainIdArrivesLast ==
  /\ stage = "chainId"
  /\ results' = Append(results, IF detail = Null THEN Null ELSE FormatReceipt(receipt, Head(todo)))
  /\ GoOn(<<>>)
  /\ UNCHANGED <<trunk, reorgs, asked>>

\* The chain id arrives and the receipt is formatted.  `to' is taken from the
\* first clause, and throws when there is none.
ChainIdArrives ==
  /\ stage = "chainId"
  /\ \/ /\ detail = Null
        /\ results' = Append(results, Null)
        /\ GoOn(Tail(todo))
     \/ /\ detail # Null /\ Clauses[Head(todo)] > 0
        /\ results' = Append(results, FormatReceipt(receipt, Head(todo)))
        /\ GoOn(Tail(todo))
     \/ /\ detail # Null /\ Clauses[Head(todo)] = 0
        /\ stage' = "failed"
        /\ UNCHANGED <<todo, receipt, detail, results>>
  /\ UNCHANGED <<trunk, reorgs, asked>>

\* The caller of a method that threw calls another.
Recover ==
  /\ stage = "failed"
  /\ asked' = Null
  /\ results' = <<>>
  /\ GoOn(<<>>)
  /\ UNCHANGED <<trunk, reorgs>>

\* The node changes its trunk.
Reorg ==
  /\ reorgs < MaxReorgs
  /\ reorgs' = reorgs + 1
  /\ trunk' \in Branches \ {trunk}
  /\ UNCHANGED callVars

Next ==
  \/ \E t \in Txs : GetTransactionReceipt(t)
  \/ \E b \in BlockIds : GetBlockReceipts(Height[b])
  \/ ReceiptArrives
  \/ ContainerArrives
  \/ DetailArrives
  \/ ChainIdArrives
  \/ Recover
  \/ Reorg

Spec == Init /\ [][Next]_vars

-----------------------------------------------------------------------------
Found == {k \in DOMAIN results : results[k] # Null}

\* Two receipts of one block share neither an index nor a log index, whatever
\* the trunk did between the requests they were made of.
LogIndicesDisjoint ==
  \A j, k \in Found :
    j # k /\ results[j].block = results[k].block =>
      /\ results[j].index # results[k].index
      /\ results[j].logs \intersect results[k].logs = {}

\* As long as the trunk has not changed, eth_getBlockReceipts finds exactly the
\* receipts of its block, in order, and numbers its transactions, and all its
\* logs, from 0 without a gap.
ReceiptsOfBlock ==
  (stage = "idle" /\ asked # Null /\ reorgs = 0) =>
    /\ Len(results) = Len(Content[asked])
    /\ \A k \in DOMAIN results :
         /\ results[k] # Null
         /\ results[k].tx = Content[asked][k] /\ results[k].block = asked
         /\ results[k].index = k - 1
         /\ UNION {results[j].logs : j \in 1 .. k}
              = 0 .. LogsAhead(asked, results[k].tx) + Events[asked][results[k].tx] - 1
=============================================================================
