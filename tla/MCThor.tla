------------------------------- MODULE MCThor -------------------------------
(***************************************************************************)
(* ThorRequests and Contracts for TLC: a network with a name registry      *)
(* whose trunk forks after the genesis block, with one transaction that    *)
(* reverts for another reason on each branch, and a network without a      *)
(* registry; a contract with two functions and an event, and two signers.  *)
(***************************************************************************)
EXTENDS Contracts

CONSTANTS
  g, b1, b2, c1, c2,  \* the blocks of the known network
  h, h1,              \* those of the other one
  t1, t2,             \* transactions
  a1, a2,             \* addresses
  bob, eve,           \* names
  E, F,               \* events
  s1, s2              \* signers

FiveRequests == 1 .. 5

MCTrunks == {<<g, b1>>, <<g, b1, b2>>, <<g, c1, c2>>, <<h, h1>>}

MCContent ==
  [b \in KnownBlocks |-> CASE b = b1 -> <<t1>> [] b = b2 -> <<t2>> [] b = c1 -> <<t2, t1>>
                      [] OTHER -> <<>>]

Quiet     == [reverted |-> FALSE, output |-> Null]
Gives(v)  == [reverted |-> FALSE, output |-> [selector |-> Null, words |-> <<v>>]]
Reverts(selector, word) ==
  [reverted |-> TRUE, output |-> [selector |-> selector, words |-> <<word>>]]

MCTrace ==
  [b \in KnownBlocks |-> [t \in {t1, t2} |->
     CASE t = t1 /\ b = b1 -> <<Quiet, Reverts("Error", 1)>>
       [] t = t1           -> <<Reverts("Panic", 17), Quiet>>
       [] b = b2           -> <<Gives(2), Reverts("Custom", 3)>>
       [] OTHER            -> <<Quiet, Reverts("Custom", 3)>>]]

Emitted(address, topics, words) == [address |-> address, topics |-> topics, words |-> words]

\* E with two indexed inputs and a plain one, or with three indexed ones.
MCLogs ==
  [b \in KnownBlocks |-> CASE b = b1 -> <<Emitted(a1, <<E, 1, 2>>, <<5>>), Emitted(a2, <<F>>, <<>>)>>
                      [] b = b2 -> <<Emitted(a1, <<E, 1, 3>>, <<5>>)>>
                      [] b = c1 -> <<Emitted(a2, <<F>>, <<>>)>>
                      [] b = c2 -> <<Emitted(a2, <<E, 1, 2, 9>>, <<>>), Emitted(a1, <<F>>, <<>>)>>
                      [] OTHER  -> <<>>]

MCTime == [b \in KnownBlocks |-> CASE b \in {g, h} -> 0 [] b = b1 -> 1 [] b = c2 -> 4 [] OTHER -> 2]

MCRegistered ==
  [b \in KnownBlocks |-> [name \in {bob, eve} |->
     CASE name = eve /\ b \in {b1, b2} -> a1 [] name = eve /\ b = c2 -> a2
       [] name = bob /\ b = b2         -> a2 [] OTHER              -> Null]]

MCRegistries == [b \in {g} |-> a2]

Data(name) == [call |-> name]
Result(reverted, selector, words) ==
  [reverted |-> reverted, data |-> [selector |-> selector, words |-> words]]

MCSimulated ==
  [good |-> Result(FALSE, Null, <<7>>), bad |-> Result(TRUE, "Error", <<1>>),
   mute |-> Result(TRUE, Null, <<>>)]

Best   == [tag |-> "best"]
At(b)  == [id |-> b]
No(n0) == [number |-> n0]
To(a, data) == [to |-> a, data |-> data]

Transfer == [hash |-> E, indexed |-> 2, plain |-> 1]
OfToken  == [hash |-> E, indexed |-> 3, plain |-> 0]
Plain    == [hash |-> F, indexed |-> 0, plain |-> 0]
By(a, topics, fragment) ==
  [criteria |-> [address |-> a, topics |-> topics], fragment |-> fragment]

Targets ==
  {[block |-> b, transaction |-> t, clause |-> k] :
     b \in {b1, Malformed}, t \in {[index |-> 0], [index |-> -1], [id |-> t1]}, k \in {0, 2}}

MCCalls ==
  [name : {"getAccount", "getBytecode"}, address : {a1, Malformed}, revision : {Null, No(5)}]
  \union [name : {"getStorageAt"}, address : {a1}, position : {0}, revision : {Malformed, Best}]
  \union [name : {"getBlockCompressed", "getBlockExpanded"}, revision : {No(2), At(c2)}]
  \union [name : {"getFinalBlockCompressed", "getFinalBlockExpanded", "getBestBlockRef", "getNodes",
                    "isHealthy"}]
  \union [name : {"getTransaction", "getTransactionRaw", "getTransactionReceipt"}, id : {t1},
          head : {Null, b1, c2}]
  \union [name : {"simulateTransaction"},
          options : {NoOptions, [revision |-> At(b1), caller |-> a1]},
          clauses : {<<To(a1, Data("good"))>>,
                     <<To(bob, Data("good")), To(eve, Data("bad")), To(bob, Data("bad"))>>,
                     <<To(a2, Data("bad")), To(eve, Data("good"))>>}]
  \union [name : {"executeCall"}, to : {a1, eve}, fragment : {[outputs |-> 0], [outputs |-> 1]},
          data : {Data("good"), Data("bad"), Data("mute")}, options : {NoOptions}]
  \union [name : {"resolveName"}, names : {<<eve>>, <<bob>>}]
  \union [name : {"traceTransactionClause", "retrieveStorageRange"}, target : Targets]
  \union [name : {"traceContractCall"}, to : {a1, Null}, data : {Data("good"), Malformed},
          value : {Null}]
  \union [name : {"getRevertReason"}, id : {t1, t2}, errorFragment : {Null, "Custom", "Other"}]
  \union [name : {"filterRawEventLogs", "filterTransferLogs"}, criteria : {Null},
          range : {[from |-> 1, to |-> Null]}]
  \union [name : {"filterEventLogs", "filterGroupedEventLogs"},
          range : {Null, [from |-> 0, to |-> 1]},
          criteriaSet : {Null, <<>>, <<By(a1, <<E>>, Transfer)>>, <<By(Null, <<E>>, Transfer)>>,
                         <<By(Null, <<F>>, Plain), By(a1, <<E, Null, 2>>, Transfer)>>,
                         <<By(a1, <<E>>, Transfer), By(a2, <<E>>, OfToken)>>,
                         <<By(a1, <<>>, Plain)>>}]

MCFunctions == [good |-> [inputs |-> 1, outputs |-> 1], mute |-> [inputs |-> 0, outputs |-> 0]]
MCEvents    == [Moved |-> [hash |-> E, inputs |-> <<TRUE, FALSE, TRUE>>]]
MCSigners   == {s1, s2}
MCAddressOf == [s \in {s1, s2} |-> IF s = s1 THEN a1 ELSE a2]

MCReadOptions     == [revision : {Null}, caller : {Null, 9}]
MCTransactOptions == [value : {Null, 3}]

Arg(v)                 == [data |-> v, value |-> Null, comment |-> Null, revision |-> Null]
Option(field, v)       == [Arg(Null) EXCEPT ![field] = v]
Arguments ==
  {<<>>, <<Arg(1)>>, <<Option("value", 5), Arg(1)>>, <<Arg(1), Option("comment", "c")>>,
   <<Option("revision", No(1)), Arg(1), Option("value", 0), Option("value", 5)>>}

OfContract(outputs, name) ==
  [clause |-> To(a1, Data(name)), fragment |-> [outputs |-> outputs]]

MCContractCalls ==
  [name : {"read", "transact", "clause"}, member : {"good", "mute", "other"}, args : Arguments,
   signer : {Null}, options : {Null}]
  \union [name : {"filter"}, member : {"Moved"}, args : {<<>>, <<1>>, <<Null, 2>>},
          range : {Null, [from |-> 0, to |-> 1]}]
  \union [name : {"criteria"}, member : {"Moved", "Other"}, args : {<<1>>, <<1, 2, 3, 4>>}]
  \union [name : {"executeMultipleClausesCall"}, options : {NoOptions},
          clauses : {<<OfContract(1, "good"), OfContract(0, "mute")>>,
                     <<OfContract(1, "good"), OfContract(1, "bad")>>}]

AllCalls == MCCalls \union MCContractCalls
=============================================================================
