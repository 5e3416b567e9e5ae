----------------------------- MODULE MCProvider -----------------------------
(***************************************************************************)
(* Provider for TLC: four transactions that the trunks hold in different   *)
(* blocks, in a different order, or not at all, and one without clauses;   *)
(* every method with the parameters that matter to it.                     *)
(***************************************************************************)
EXTENDS Provider

CONSTANTS v, w, x, y, z, g0, a1, a2, b1, b2, c1, k1, k2, A, B

MCTxs      == {v, w, x, y, z}
MCBlockIds == {g0, a1, a2, b1, b2, c1}
MCContent ==
  [b \in BlockIds |-> CASE b = a1 -> <<x, y>> [] b = a2 -> <<z, v, w>>
                        [] b = b1 -> <<y, w, z, x>> [] b \in {g0, b2} -> <<>>
                        [] b = c1 -> <<x, w, z>>]
MCHeight == [b \in BlockIds |-> CASE b = g0 -> 0 [] b \in {a2, b2} -> 2 [] OTHER -> 1]
MCEvents ==
  [b \in BlockIds |-> [t \in Txs |-> CASE t = x -> 2 [] t = y -> IF b = b1 THEN 0 ELSE 1
                                       [] t = z -> 3 [] OTHER -> 1]]
MCBranches == {{g0, a1}, {g0, a1, a2}, {g0, b1, b2}, {g0, c1}}

MCClauses == [t \in Txs |-> IF t = v THEN 0 ELSE 2]

MCTopics     == {A, B}
MCLogAddress == [t \in Txs |-> IF t \in {x, w} THEN k1 ELSE k2]
MCLogTopics  == [t \in Txs |-> CASE t = x -> <<A, B>> [] t = y -> <<B, A>> [] t = z -> <<A, B, A>>
                                 [] t = w -> <<>> [] OTHER -> <<B, B>>]

Blocks ==
  {[tag |-> t] : t \in {"latest", "finalized", "safe", "pending", "earliest"}}
    \union {[number |-> 1], [number |-> 2]} \union {[hash |-> a2]}

Is(t) == [one |-> t]
Of(s) == [any |-> s]

MCTopicsAsked ==
  {<<>>, <<Is(A)>>, <<Is(Null), Is(B)>>, <<Of({A, B})>>, <<Is(A), Of({B})>>,
   <<Of({A}), Of({B})>>, <<Is(A), Of({B}), Is(A)>>}

Filters ==
  [method : {"eth_getLogs"}, from : {Null, [hex |-> 0]}, to : {Null},
   address : {Null, {k1}, {k1, k2}}, topics : MCTopicsAsked]
  \union [method : {"eth_getLogs"}, from : {[hex |-> 0]}, to : {Null}, address : {{}},
          topics : {<<>>, <<Is(A)>>, <<Of({A})>>}]
  \union [method : {"eth_getLogs"}, address : {Null}, topics : {<<>>},
          from : {[tag |-> "earliest"], [tag |-> "latest"], [decimal |-> 1]},
          to : {[tag |-> "finalized"], [tag |-> "safe"], [decimal |-> 12], [hex |-> 1]}]

MCCalls ==
  [method : {"eth_getBalance", "eth_getCode", "eth_getStorageAt", "eth_call", "eth_estimateGas"},
   block : {[tag |-> "safe"], [number |-> 2], [hash |-> b1]}]
  \union [method : {"eth_estimateGas", "debug_traceCall", "eth_blockNumber", "eth_chainId",
                    "net_version", "evm_mine", "eth_gasPrice", "eth_accounts",
                    "web3_clientVersion", "eth_getWork", "unknown"}]
  \union [method : {"eth_getTransactionCount"}, isAddress : BOOLEAN]
  \union [method : {"eth_getBlockByNumber"}, block : Blocks, detail : BOOLEAN]
  \union [method : {"eth_getBlockByHash"}, block : {[hash |-> a1], [number |-> 1]}, detail : {TRUE}]
  \union [method : {"eth_getTransactionByHash", "eth_getTransactionReceipt",
                    "debug_traceTransaction"}, tx : {w, x, z, v}]
  \union [method : {"eth_getBlockReceipts"}, block : {[number |-> 1], [number |-> 2]}]
  \union [method : {"eth_syncing"}, synced : BOOLEAN]
  \union [method : {"eth_requestAccounts"}, accounts : {0, 1}]
  \union Filters

MCBatches ==
  LET f == [method |-> "eth_requestAccounts", accounts |-> 0]
      s == [method |-> "eth_blockNumber"]
      t == [method |-> "eth_getTransactionReceipt", tx |-> v]
  IN  {<<f>>, <<s>>, <<f, s>>, <<s, t, s>>}
=============================================================================
