---------------------------- MODULE Subscriptions ----------------------------
(***************************************************************************)
(* The eth_subscribe feeds of VeChainProvider: the subscription manager    *)
(* and its poll (packages/network/src/provider/providers/vechain-provider/ *)
(* vechain-provider.ts) and the RPC methods eth_subscribe and              *)
(* eth_unsubscribe, with a node whose chain grows.                         *)
(*                                                                         *)
(* Everything shares one JavaScript thread: an action is what runs between *)
(* two awaits of a network answer.  The two asynchronous calls in progress *)
(* are the polling function, in `fetch', one per activation of the poll's  *)
(* loop, and eth_subscribe, in `pending'.                                  *)
(***************************************************************************)
EXTENDS EventPoll, Sequences, FiniteSets

CONSTANTS
  HeadIds,      \* ids of the subscriptions to 'newHeads'
  LogIds,       \* ids of the subscriptions to 'logs'
  LogBlocks,    \* the blocks that hold a log of each log subscription
  MaxBlock,     \* bound on the node's chain
  MaxPending,   \* bound on the eth_subscribe calls that wait for the node at once
  MaxDestroys,  \* bound on the calls of destroy
  MaxFailures,  \* bound on the requests that fail
  NoId          \* no subscription

Ids    == HeadIds \union LogIds
Blocks == 0 .. MaxBlock

ASSUME SubscriptionAssumption ==
  /\ HeadIds \intersect LogIds = {}
  /\ NoId \notin Ids
  /\ LogBlocks \in [LogIds -> SUBSET Blocks]
  /\ StopOnError = Polls    \* the default of createEventPoll
  /\ ErrorListened = {}     \* startSubscriptionsPolling adds no error listener
  /\ MaxStarts = 1          \* and starts the poll it has just created
  /\ {MaxBlock, MaxPending, MaxDestroys, MaxFailures} \subseteq Nat

VARIABLES
  best,                 \* number of the node's best block
  pollInstance,         \* the provider's poll, or NoPoll
  newHeadsSubscription, \* of the subscription manager: an id, or NoId
  logSubscriptions,     \* of the subscription manager: the ids of the map
  currentBlockNumber,   \* of the subscription manager: the next block to look at
  pending,              \* calls of eth_subscribe waiting for the best block
  fetch,                \* where the polling function of each activation is
  feed,                 \* history: the blocks of the messages each id was sent
  used,                 \* history: ids given or being given (Hex.random is fresh)
  destroys,             \* history: calls of destroy
  failures              \* history: requests that failed

manager == <<newHeadsSubscription, logSubscriptions, currentBlockNumber>>
history == <<feed, used, destroys, failures>>
vars == <<pollVars, best, pollInstance, manager, pending, fetch, history>>

\* A polling function either is not running, or has nothing to ask, or waits for
\* block `number', or has that block and waits for the logs of block `logs' for
\* the ids `of'.  `early': the node did not have the block when it was asked.
NoFetch   == [stage |-> "none"]
Nothing   == [stage |-> "nothing"]
Fetches ==
  {NoFetch, Nothing}
    \union [stage : {"block"}, number : Nat, early : BOOLEAN]
    \union [stage : {"logs"}, number : Nat, head : HeadIds \union {NoId},
            logs : Nat, of : SUBSET LogIds, early : BOOLEAN]

NotPending == MaxBlock + 1

TypeOK ==
  /\ PollTypeOK
  /\ best \in Blocks
  /\ pollInstance \in Polls \union {NoPoll}
  /\ newHeadsSubscription \in HeadIds \union {NoId}
  /\ logSubscriptions \subseteq LogIds
  /\ currentBlockNumber \in Nat
  /\ pending \in [Ids -> 0 .. NotPending]
  /\ fetch \in [Loops -> Fetches]
  /\ feed \in [Ids -> Seq(Nat)]
  /\ used \subseteq Ids
  /\ destroys \in 0 .. MaxDestroys
  /\ failures \in 0 .. MaxFailures

Init ==
  /\ PollInit
  /\ best \in Blocks
  /\ pollInstance = NoPoll
  /\ newHeadsSubscription = NoId
  /\ logSubscriptions = {}
  /\ currentBlockNumber = 0
  /\ pending = [i \in Ids |-> NotPending]
  /\ fetch = [l \in Loops |-> NoFetch]
  /\ feed = [i \in Ids |-> <<>>]
  /\ used = {}
  /\ destroys = 0
  /\ failures = 0

-----------------------------------------------------------------------------
Active(head, logs) == head # NoId \/ logs # {}

IsThereActiveSubscriptions == Active(newHeadsSubscription, logSubscriptions)

\* Promise reactions run before the runtime turns to an answer of the node, an
\* expired interval or a new call: a polling function that asked nothing has
\* returned by then.
Quiet == \A l \in Loops : fetch[l] # Nothing

\* The polling function up to its first request (getCurrentBlock).
GetCurrentBlock(number) ==
  IF IsThereActiveSubscriptions
  THEN [stage |-> "block", number |-> number, early |-> number > best]
  ELSE Nothing

\* startSubscriptionsPolling: a new poll, unless there is one.
StartSubscriptionsPolling(number) ==
  \/ /\ pollInstance # NoPoll
     /\ UNCHANGED <<pollVars, pollInstance, fetch>>
  \/ /\ pollInstance = NoPoll
     /\ \E p \in Polls, l \in Loops :
          /\ StartListen(p, l)
          /\ pollInstance' = p
          /\ fetch' = [fetch EXCEPT ![l] = GetCurrentBlock(number)]

StopSubscriptionsPolling ==
  \/ /\ pollInstance = NoPoll
     /\ UNCHANGED <<pollVars, pollInstance>>
  \/ /\ pollInstance # NoPoll
     /\ StopListen(pollInstance)
     /\ pollInstance' = NoPoll

Register(id) ==
  /\ newHeadsSubscription' = IF id \in HeadIds THEN id ELSE newHeadsSubscription
  /\ logSubscriptions' = IF id \in LogIds THEN logSubscriptions \union {id} ELSE logSubscriptions

\* eth_subscribe, when there is a poll ...
Subscribe(id) ==
  /\ Quiet /\ id \notin used
  /\ pollInstance # NoPoll
  /\ used' = used \union {id}
  /\ Register(id)
  /\ UNCHANGED <<pollVars, best, pollInstance, currentBlockNumber, pending, fetch, feed,
                 destroys, failures>>

\* ... and when there is none: it awaits the best block,
SubscribeFirst(id) ==
  /\ Quiet /\ id \notin used
  /\ pollInstance = NoPoll
  /\ Cardinality({i \in Ids : pending[i] # NotPending}) < MaxPending
  /\ used' = used \union {id}
  /\ pending' = [pending EXCEPT ![id] = best]
  /\ UNCHANGED <<pollVars, best, pollInstance, manager, fetch, feed, destroys, failures>>

\* sets the starting block, whatever happened meanwhile, and starts the poll.
BestBlock(id) ==
  /\ Quiet /\ pending[id] # NotPending
  /\ \E number \in pending[id] .. best :
       /\ currentBlockNumber' = number
       /\ StartSubscriptionsPolling(number)
  /\ Register(id)
  /\ pending' = [pending EXCEPT ![id] = NotPending]
  /\ UNCHANGED <<best, history>>

\* The request for the best block fails, and with it the call.
BestBlockFails(id) ==
  /\ Quiet /\ pending[id] # NotPending
  /\ failures < MaxFailures
  /\ failures' = failures + 1
  /\ pending' = [pending EXCEPT ![id] = NotPending]
  /\ UNCHANGED <<pollVars, best, pollInstance, manager, fetch, feed, used, destroys>>

\* Mutant of Unsubscribe: the poll stops with the last log subscription.
UnsubscribeLogs(id) ==
  /\ Quiet /\ id \in used
  /\ newHeadsSubscription' = IF newHeadsSubscription = id THEN NoId ELSE newHeadsSubscription
  /\ logSubscriptions' = logSubscriptions \ {id}
  /\ IF logSubscriptions' # {}
     THEN UNCHANGED <<pollVars, pollInstance>>
     ELSE StopSubscriptionsPolling
  /\ UNCHANGED <<best, currentBlockNumber, pending, fetch, history>>

\* eth_unsubscribe, with any id that was given.
Unsubscribe(id) ==
  /\ Quiet /\ id \in used
  /\ LET head == IF newHeadsSubscription = id THEN NoId ELSE newHeadsSubscription
         logs == logSubscriptions \ {id}
     IN  /\ newHeadsSubscription' = head
         /\ logSubscriptions' = logs
         /\ IF Active(head, logs)
            THEN UNCHANGED <<pollVars, pollInstance>>
            ELSE StopSubscriptionsPolling
  /\ UNCHANGED <<best, currentBlockNumber, pending, fetch, history>>

\* destroy leaves the subscriptions in the manager.
Destroy ==
  /\ Quiet /\ destroys < MaxDestroys
  /\ StopSubscriptionsPolling
  /\ destroys' = destroys + 1
  /\ UNCHANGED <<best, manager, pending, fetch, feed, used, failures>>

-----------------------------------------------------------------------------
(***************************************************************************)
(* The polling function.                                                   *)
(***************************************************************************)
\* An interval expires.
PollBlocks(t, l) ==
  /\ Quiet
  /\ Tick(t, l)
  /\ fetch' = [fetch EXCEPT ![l] = GetCurrentBlock(currentBlockNumber)]
  /\ UNCHANGED <<best, pollInstance, manager, pending, history>>

\* Mutant of NoNewBlock: the cursor moves on without a block.
NoNewBlockCounts(l) ==
  /\ \/ fetch[l] = Nothing
     \/ Quiet /\ fetch[l].stage = "block" /\ fetch[l].early
  /\ Deliver(l, FALSE)
  /\ currentBlockNumber' = currentBlockNumber + 1
  /\ fetch' = [fetch EXCEPT ![l] = NoFetch]
  /\ UNCHANGED <<best, pollInstance, newHeadsSubscription, logSubscriptions, pending, history>>

\* It returns without a block: it asked for none, or the node had none.
NoNewBlock(l) ==
  /\ \/ fetch[l] = Nothing
     \/ Quiet /\ fetch[l].stage = "block" /\ fetch[l].early
  /\ Deliver(l, FALSE)
  /\ fetch' = [fetch EXCEPT ![l] = NoFetch]
  /\ UNCHANGED <<best, pollInstance, manager, pending, history>>

\* Mutant of Emit: only blocks without logs are counted.
EmitUncounted(l, head, number, logIds, logNumber) ==
  /\ Deliver(l, FALSE)
  /\ currentBlockNumber' = IF logIds = {} THEN currentBlockNumber + 1 ELSE currentBlockNumber
  /\ feed' = [i \in Ids |-> IF i = head \/ i \in logIds
                            THEN Append(feed[i], number)
                            ELSE feed[i]]
  /\ fetch' = [fetch EXCEPT ![l] = NoFetch]

\* It returns, after counting the block, the messages for a head and for logs;
\* the poll's listener emits them.
Emit(l, head, number, logIds, logNumber) ==
  /\ Deliver(l, FALSE)
  /\ currentBlockNumber' = currentBlockNumber + 1
  /\ feed' = [i \in Ids |-> IF i = head THEN Append(feed[i], number)
                            ELSE IF i \in logIds /\ logNumber \in LogBlocks[i] \intersect 0 .. best
                            THEN Append(feed[i], logNumber)
                            ELSE feed[i]]
  /\ fetch' = [fetch EXCEPT ![l] = NoFetch]

\* The block arrives.  With log subscriptions the function goes on to ask for
\* their logs, in the block that currentBlockNumber names by now (getLogsRPC).
BlockArrives(l) ==
  /\ Quiet /\ fetch[l].stage = "block" /\ fetch[l].number <= best
  /\ \/ /\ logSubscriptions = {}
        /\ Emit(l, newHeadsSubscription, fetch[l].number, {}, 0)
     \/ /\ logSubscriptions # {}
        /\ fetch' = [fetch EXCEPT ![l] =
                       [stage |-> "logs", number |-> fetch[l].number,
                        head |-> newHeadsSubscription,
                        logs |-> currentBlockNumber, of |-> logSubscriptions,
                        early |-> currentBlockNumber > best]]
        /\ UNCHANGED <<pollVars, currentBlockNumber, feed>>
  /\ UNCHANGED <<best, pollInstance, newHeadsSubscription, logSubscriptions, pending,
                 used, destroys, failures>>

LogsArrive(l) ==
  /\ Quiet /\ fetch[l].stage = "logs"
  /\ \E of \in IF fetch[l].early THEN SUBSET fetch[l].of ELSE {fetch[l].of} :
       Emit(l, fetch[l].head, fetch[l].number, of, fetch[l].logs)
  /\ UNCHANGED <<best, pollInstance, newHeadsSubscription, logSubscriptions, pending,
                 used, destroys, failures>>

\* Mutant of RequestFails: the error stops the poll.
RequestFailsStops(l) ==
  /\ Quiet /\ fetch[l].stage \in {"block", "logs"}
  /\ failures < MaxFailures
  /\ failures' = failures + 1
  /\ Settle(l, TRUE) /\ error' = error \union {loops[l].poll}
  /\ fetch' = [fetch EXCEPT ![l] = NoFetch]
  /\ UNCHANGED <<best, pollInstance, manager, pending, feed, used, destroys>>

\* One of its requests fails: the poll has no listener for the error.
RequestFails(l) ==
  /\ Quiet /\ fetch[l].stage \in {"block", "logs"}
  /\ failures < MaxFailures
  /\ failures' = failures + 1
  /\ Reject(l)
  /\ fetch' = [fetch EXCEPT ![l] = NoFetch]
  /\ UNCHANGED <<best, pollInstance, manager, pending, feed, used, destroys>>

\* The node gets a new best block.
NewBlock ==
  /\ best < MaxBlock
  /\ best' = best + 1
  /\ UNCHANGED <<pollVars, pollInstance, manager, pending, fetch, history>>

Calls(id) ==
  \/ Subscribe(id)
  \/ SubscribeFirst(id)
  \/ BestBlock(id)
  \/ BestBlockFails(id)
  \/ Unsubscribe(id)

Answers(l) ==
  \/ NoNewBlock(l)
  \/ BlockArrives(l)
  \/ LogsArrive(l)
  \/ RequestFails(l)

Next ==
  \/ \E id \in Ids : Calls(id)
  \/ \E t \in Timers, l \in Loops : PollBlocks(t, l)
  \/ \E l \in Loops : Answers(l)
  \/ Destroy
  \/ NewBlock

Spec == Init /\ [][Next]_vars

\* Live intervals fire and requests end (HttpRequests: if the node completes the
\* responses it begins); callers and the chain owe nothing.
Fairness ==
  /\ \A t \in Timers : WF_vars(\E l \in Loops : PollBlocks(t, l))
  /\ \A l \in Loops : WF_vars(Answers(l))

FairSpec == Spec /\ Fairness

-----------------------------------------------------------------------------
\* A provider that polls has subscriptions.  Until it is destroyed, it polls
\* exactly while it has some: by one interval, or by the first activation that
\* is about to ask for it.
PollsIffSubscribed ==
  /\ pollInstance # NoPoll => IsThereActiveSubscriptions
  /\ destroys = 0 =>
    /\ IsThereActiveSubscriptions => pollInstance # NoPoll
    /\ pollInstance # NoPoll =>
         \/ TimersOf(pollInstance) # {}
         \/ \E l \in LoopsOf(pollInstance) : loops[l].first /\ fetch[l] = Nothing
    /\ \A t \in Timers : timers[t] \in {NoPoll, pollInstance}

\* The subscriptions as a feed: it looks into a block while it waits for the logs.
Feed == INSTANCE BlockFeed WITH
  Subscribers <- Ids,
  Holds       <- [i \in Ids |-> IF i \in HeadIds THEN Blocks ELSE LogBlocks[i]],
  head        <- best,
  next        <- currentBlockNumber,
  joined      <- {i \in used : pending[i] = NotPending},
  subscribed  <- (logSubscriptions \union {newHeadsSubscription}) \ {NoId},
  asked       <- UNION {(fetch[l].of \union {fetch[l].head}) \ {NoId} :
                          l \in {k \in Loops : fetch[k].stage = "logs"}},
  told        <- feed

\* While no two activations of the polling function overlap, subscriptions keep what
\* BlockFeed promises: each is told of every block of the chain that concerns it from
\* where the feed began to where it left, once and in order, whatever requests fail,
\* whoever else subscribes or unsubscribes in the midst of a poll, and however often
\* the provider stops polling and begins anew.
ImplementsFeed == Feed!FeedSpec

\* Messages of one subscription are about consecutive blocks of the chain: none twice,
\* none left out (a log subscription is told of the blocks that hold its logs).
InOrderFeeds == Feed!InOrder

\* When the chain comes to rest, a provider that polls, whatever was subscribed
\* and unsubscribed before, comes to have looked at every block up to the best
\* one ("periodically checks for new events related to active subscriptions",
\* vechain-provider.ts:116).
FeedsCatchUp ==
  <>[](pollInstance = NoPoll \/ currentBlockNumber = best + 1)
=============================================================================
