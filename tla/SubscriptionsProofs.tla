------------------------- MODULE SubscriptionsProofs -------------------------
(***************************************************************************)
(* What the subscriptions of the provider guarantee, for every chain, any  *)
(* number of subscriptions, of overlapping activations and of failures.    *)
(***************************************************************************)
EXTENDS Subscriptions, EventPollProofs, FiniteSetTheorems

\* Every step of the provider is a step of its polls, or leaves them alone.
LEMMA StartIsPollStep ==
  ASSUME NEW number, StartSubscriptionsPolling(number)
  PROVE  [PollNext]_pollVars
BY DEF StartSubscriptionsPolling, PollNext

LEMMA StopIsPollStep ==
  ASSUME TypeOK, StopSubscriptionsPolling
  PROVE  [PollNext]_pollVars
BY DEF StopSubscriptionsPolling, PollNext, TypeOK

LEMMA StepUsesPoll == TypeOK /\ [Next]_vars => [PollNext]_pollVars
<1> SUFFICES ASSUME TypeOK, [Next]_vars PROVE [PollNext]_pollVars
  OBVIOUS
<1>1. ASSUME NEW id \in Ids, Subscribe(id) \/ SubscribeFirst(id) \/ BestBlockFails(id)
      PROVE  UNCHANGED pollVars
  BY <1>1 DEF Subscribe, SubscribeFirst, BestBlockFails
<1>2. ASSUME NEW id \in Ids, BestBlock(id) PROVE [PollNext]_pollVars
  BY <1>2, StartIsPollStep DEF BestBlock
<1>3. ASSUME NEW id \in Ids, Unsubscribe(id) PROVE [PollNext]_pollVars
  BY <1>3, StopIsPollStep DEF Unsubscribe
<1>4. ASSUME NEW t \in Timers, NEW l \in Loops, PollBlocks(t, l) PROVE PollNext
  BY <1>4 DEF PollBlocks, PollNext
<1>5. ASSUME NEW l \in Loops, NoNewBlock(l) PROVE PollNext
  BY <1>5 DEF NoNewBlock, PollNext, Resume
<1>6. ASSUME NEW l \in Loops, BlockArrives(l) PROVE [PollNext]_pollVars
  BY <1>6 DEF BlockArrives, Emit, PollNext, Resume
<1>7. ASSUME NEW l \in Loops, LogsArrive(l) PROVE PollNext
  BY <1>7 DEF LogsArrive, Emit, PollNext, Resume
<1>8. ASSUME NEW l \in Loops, RequestFails(l) PROVE PollNext
  BY <1>8 DEF RequestFails, PollNext, Resume
<1>9. ASSUME Destroy PROVE [PollNext]_pollVars
  BY <1>9, StopIsPollStep DEF Destroy
<1>10. ASSUME NewBlock \/ UNCHANGED vars PROVE UNCHANGED pollVars
  BY <1>10 DEF NewBlock, vars
<1> QED
  BY <1>1, <1>2, <1>3, <1>4, <1>5, <1>6, <1>7, <1>8, <1>9, <1>10 DEF Next, Calls, Answers

\* The polls of the provider keep what EventPollProofs says of all polls.
LEMMA PollsKept == PollInv /\ TypeOK /\ [Next]_vars => PollInv'
BY StepUsesPoll, PollStepInv, SubscriptionAssumption

-----------------------------------------------------------------------------
\* Type correctness, action by action.
LEMMA TypeInit == Init => TypeOK
<1> SUFFICES ASSUME Init PROVE TypeOK
  OBVIOUS
<1>1. PollTypeOK
  BY PollInitInv DEF Init, PollInv
<1> QED
  BY <1>1, SubscriptionAssumption
  DEF Init, TypeOK, Blocks, NotPending, Fetches, NoFetch

\* What the polling function waits for first, if anything.
LEMMA GetCurrentBlockType ==
  ASSUME NEW number \in Nat
  PROVE  GetCurrentBlock(number) \in Fetches
BY DEF GetCurrentBlock, Fetches, Nothing

\* Deciding on a block counts it and tells some of the subscriptions.
LEMMA EmitType ==
  ASSUME TypeOK, NEW l \in Loops, NEW head, NEW number \in Nat, NEW ids, NEW logs \in Nat,
         Emit(l, head, number, ids, logs)
  PROVE  /\ currentBlockNumber' \in Nat
         /\ feed' \in [Ids -> Seq(Nat)]
         /\ fetch' \in [Loops -> Fetches]
BY DEF Emit, TypeOK, Fetches, NoFetch

LEMMA CallsType ==
  ASSUME TypeOK, PollTypeOK', NEW id \in Ids, Calls(id)
  PROVE  TypeOK'
<1> USE SubscriptionAssumption
<1>1. CASE Subscribe(id)
  BY <1>1 DEF Subscribe, Register, TypeOK, Ids
<1>2. CASE SubscribeFirst(id)
  BY <1>2 DEF SubscribeFirst, TypeOK, manager, NotPending, Blocks
<1>3. CASE BestBlock(id)
  <2>1. PICK number \in pending[id] .. best :
          currentBlockNumber' = number /\ StartSubscriptionsPolling(number)
    BY <1>3 DEF BestBlock
  <2>2. number \in Nat
    BY DEF TypeOK, Blocks, NotPending
  <2>3. /\ fetch' \in [Loops -> Fetches]
        /\ pollInstance' \in Polls \union {NoPoll}
    BY <2>1, <2>2, GetCurrentBlockType DEF StartSubscriptionsPolling, TypeOK
  <2> QED
    BY <1>3, <2>1, <2>2, <2>3 DEF BestBlock, Register, TypeOK, history, NotPending, Ids
<1>4. CASE BestBlockFails(id)
  BY <1>4 DEF BestBlockFails, TypeOK, manager, NotPending
<1>5. CASE Unsubscribe(id)
  BY <1>5 DEF Unsubscribe, StopSubscriptionsPolling, TypeOK, history
<1> QED
  BY <1>1, <1>2, <1>3, <1>4, <1>5 DEF Calls

LEMMA AnswersType ==
  ASSUME TypeOK, PollTypeOK', NEW l \in Loops, Answers(l)
  PROVE  TypeOK'
<1> USE SubscriptionAssumption
<1>1. CASE NoNewBlock(l)
  BY <1>1 DEF NoNewBlock, TypeOK, manager, history, Fetches, NoFetch
<1>2. CASE BlockArrives(l)
  <2>1. fetch[l].number \in Nat
    BY <1>2 DEF BlockArrives, TypeOK, Fetches, NoFetch, Nothing
  <2>2. CASE Emit(l, newHeadsSubscription, fetch[l].number, {}, 0)
    BY <1>2, <2>1, <2>2, EmitType DEF BlockArrives, TypeOK
  <2>3. CASE fetch' = [fetch EXCEPT ![l] =
                         [stage |-> "logs", number |-> fetch[l].number,
                          head |-> newHeadsSubscription,
                          logs |-> currentBlockNumber, of |-> logSubscriptions,
                          early |-> currentBlockNumber > best]]
             /\ UNCHANGED <<pollVars, currentBlockNumber, feed>>
    BY <1>2, <2>1, <2>3 DEF BlockArrives, TypeOK, Fetches
  <2> QED
    BY <1>2, <2>2, <2>3 DEF BlockArrives
<1>3. CASE LogsArrive(l)
  <2>0. fetch[l] \in Fetches /\ fetch[l].stage = "logs"
    BY <1>3 DEF LogsArrive, TypeOK
  <2>1. fetch[l].number \in Nat /\ fetch[l].logs \in Nat
    BY <2>0 DEF Fetches, NoFetch, Nothing
  <2>2. PICK of : Emit(l, fetch[l].head, fetch[l].number, of, fetch[l].logs)
    BY <1>3 DEF LogsArrive
  <2>3. /\ currentBlockNumber' \in Nat
        /\ feed' \in [Ids -> Seq(Nat)]
        /\ fetch' \in [Loops -> Fetches]
    BY <2>1, <2>2, EmitType
  <2> QED
    BY <1>3, <2>3 DEF LogsArrive, TypeOK
<1>4. CASE RequestFails(l)
  BY <1>4 DEF RequestFails, TypeOK, manager, Fetches, NoFetch
<1> QED
  BY <1>1, <1>2, <1>3, <1>4 DEF Answers

LEMMA TypeStep == PollInv /\ TypeOK /\ [Next]_vars => TypeOK'
<1> SUFFICES ASSUME PollInv, TypeOK, [Next]_vars PROVE TypeOK'
  OBVIOUS
<1> USE SubscriptionAssumption
<1>0. PollTypeOK'
  BY PollsKept DEF PollInv
<1>1. ASSUME NEW id \in Ids, Calls(id) PROVE TypeOK'
  BY <1>0, <1>1, CallsType
<1>2. ASSUME NEW t \in Timers, NEW l \in Loops, PollBlocks(t, l) PROVE TypeOK'
  BY <1>0, <1>2, GetCurrentBlockType DEF PollBlocks, TypeOK, manager, history
<1>3. ASSUME NEW l \in Loops, Answers(l) PROVE TypeOK'
  BY <1>0, <1>3, AnswersType
<1>4. CASE Destroy
  BY <1>0, <1>4 DEF Destroy, StopSubscriptionsPolling, TypeOK, manager
<1>5. CASE NewBlock
  BY <1>0, <1>5 DEF NewBlock, TypeOK, manager, history, Blocks
<1>6. CASE UNCHANGED vars
  BY <1>0, <1>6 DEF vars, TypeOK, manager, history
<1> QED
  BY <1>1, <1>2, <1>3, <1>4, <1>5, <1>6 DEF Next

\* Type correctness of the provider's state: no failure becomes a block, and no
\* polling function outlives its request as something else.
THEOREM TypeCorrect == Spec => [](PollInv /\ TypeOK)
<1>1. Init => PollInv /\ TypeOK
  BY TypeInit, PollInitInv DEF Init
<1>2. PollInv /\ TypeOK /\ [Next]_vars => (PollInv /\ TypeOK)'
  BY PollsKept, TypeStep
<1> QED
  BY <1>1, <1>2, PTL DEF Spec

-----------------------------------------------------------------------------
\* Why a stopped poll has no interval.  Until the provider is destroyed, a poll is
\* started only while there are no subscriptions, so that its first activation asks
\* for nothing: it has settled, and made the interval, before any call or answer.
FirstAsksNothing ==
  \A l \in Loops : loops[l].first => fetch[l] = Nothing /\ loops[l].poll = pollInstance

SubscribedInv == PollsIffSubscribed /\ (destroys = 0 => FirstAsksNothing)

LEMMA SubscribedInit == Init => SubscribedInv
BY SubscriptionAssumption
   DEF Init, PollInit, SubscribedInv, PollsIffSubscribed, FirstAsksNothing,
       IsThereActiveSubscriptions, Active, TimersOf, LoopsOf, Idle

\* When it is quiet, no first activation is under way.
LEMMA QuietIsSettled ==
  ASSUME SubscribedInv, destroys = 0, Quiet
  PROVE  /\ \A l \in Loops : ~loops[l].first
         /\ pollInstance # NoPoll => TimersOf(pollInstance) # {}
BY DEF SubscribedInv, FirstAsksNothing, PollsIffSubscribed, Quiet, LoopsOf

\* stopListen leaves a settled poll without interval, and with it the provider.
LEMMA StopSilencesAll ==
  ASSUME PollInv, TypeOK, SubscribedInv, destroys = 0, Quiet, StopSubscriptionsPolling
  PROVE  /\ pollInstance' = NoPoll
         /\ \A t \in Timers : timers'[t] = NoPoll
         /\ loops' = loops
<1>1. CASE pollInstance = NoPoll
  BY <1>1, PollAssumption
  DEF StopSubscriptionsPolling, SubscribedInv, PollsIffSubscribed, pollVars
<1>2. CASE pollInstance # NoPoll
  <2>1. StopListen(pollInstance) /\ pollInstance' = NoPoll
    BY <1>2 DEF StopSubscriptionsPolling
  <2>2. \A t \in Timers : timers[t] \in {NoPoll, pollInstance}
    BY DEF SubscribedInv, PollsIffSubscribed
  <2>3. \A t \in Timers : timers[t] = pollInstance => t = intervalId[pollInstance]
    BY <1>2 DEF PollInv, SingleInterval
  <2> QED
    BY <2>1, <2>2, <2>3 DEF StopListen, ClearInterval
<1> QED
  BY <1>1, <1>2

\* Calls: the first subscription starts the poll, and the last one to go stops it.
LEMMA CallsSubscribed ==
  ASSUME PollInv, TypeOK, SubscribedInv, NEW id \in Ids, Calls(id)
  PROVE  SubscribedInv'
<1> USE SubscriptionAssumption
<1> USE DEF IsThereActiveSubscriptions, Active
<1>q. Quiet
  BY DEF Calls, Subscribe, SubscribeFirst, BestBlock, BestBlockFails, Unsubscribe
<1>1. CASE Subscribe(id)
  BY <1>1 DEF Subscribe, Register, SubscribedInv, PollsIffSubscribed, FirstAsksNothing, pollVars,
              TimersOf, LoopsOf, Ids
<1>2. CASE SubscribeFirst(id) \/ BestBlockFails(id)
  BY <1>2 DEF SubscribeFirst, BestBlockFails, manager, pollVars, SubscribedInv, PollsIffSubscribed,
              FirstAsksNothing, TimersOf, LoopsOf
<1>3. CASE BestBlock(id)
  <2>1. /\ UNCHANGED destroys
        /\ newHeadsSubscription' # NoId \/ logSubscriptions' # {}
    BY <1>3 DEF BestBlock, Register, history, Ids
  <2>2. CASE pollInstance # NoPoll
    <3>1. UNCHANGED <<timers, loops, pollInstance, fetch>>
      BY <1>3, <2>2 DEF BestBlock, StartSubscriptionsPolling, pollVars
    <3> QED
      BY <2>1, <2>2, <3>1 DEF SubscribedInv, PollsIffSubscribed, FirstAsksNothing, TimersOf, LoopsOf
  <2>3. CASE pollInstance = NoPoll
    <3>0. PICK number : StartSubscriptionsPolling(number)
      BY <1>3 DEF BestBlock
    <3>1. PICK p \in Polls, l \in Loops :
            /\ StartListen(p, l)
            /\ pollInstance' = p
            /\ fetch' = [fetch EXCEPT ![l] = GetCurrentBlock(number)]
      BY <3>0, <2>3 DEF StartSubscriptionsPolling
    <3>2. p # NoPoll /\ timers' = timers
      BY <3>1, PollAssumption DEF StartListen
    <3>3. /\ loops'[l] = [poll |-> p, first |-> TRUE]
          /\ \A m \in Loops \ {l} : loops'[m] = loops[m]
      BY <3>1, BeginTypeOK DEF StartListen, TypeOK
    <3>4. ASSUME destroys = 0
          PROVE  /\ ~IsThereActiveSubscriptions
                 /\ \A m \in Loops : ~loops[m].first
                 /\ \A t \in Timers : timers[t] = NoPoll
      BY <1>q, <2>3, <3>4, QuietIsSettled DEF SubscribedInv, PollsIffSubscribed
    <3>5. ASSUME destroys = 0 PROVE fetch'[l] = Nothing
      BY <3>1, <3>4, <3>5 DEF GetCurrentBlock, TypeOK
    <3>6. ASSUME destroys = 0, NEW m \in Loops, loops'[m].first
          PROVE  fetch'[m] = Nothing /\ loops'[m].poll = pollInstance'
      <4>1. m = l
        BY <3>3, <3>4, <3>6
      <4> QED
        BY <4>1, <3>1, <3>3, <3>5, <3>6
    <3>7. PollsIffSubscribed'
      BY <2>1, <3>1, <3>2, <3>3, <3>4, <3>5 DEF PollsIffSubscribed, LoopsOf
    <3> QED
      BY <2>1, <3>6, <3>7 DEF SubscribedInv, FirstAsksNothing
  <2> QED
    BY <2>2, <2>3
<1>4. CASE Unsubscribe(id)
  <2> DEFINE head == IF newHeadsSubscription = id THEN NoId ELSE newHeadsSubscription
             logs == logSubscriptions \ {id}
  <2>1. /\ newHeadsSubscription' = head /\ logSubscriptions' = logs
        /\ UNCHANGED <<destroys, fetch>>
    BY <1>4 DEF Unsubscribe, history
  <2>2. CASE Active(head, logs)
    <3>1. UNCHANGED pollVars /\ UNCHANGED pollInstance
      BY <1>4, <2>2 DEF Unsubscribe
    <3>2. IsThereActiveSubscriptions /\ IsThereActiveSubscriptions'
      BY <2>1, <2>2
    <3> HIDE DEF IsThereActiveSubscriptions
    <3> QED
      BY <2>1, <3>1, <3>2
      DEF pollVars, SubscribedInv, PollsIffSubscribed, FirstAsksNothing, TimersOf, LoopsOf
  <2>3. CASE ~Active(head, logs)
    <3>1. StopSubscriptionsPolling
      BY <1>4, <2>3 DEF Unsubscribe
    <3>2. pollInstance' = NoPoll
      BY <3>1 DEF StopSubscriptionsPolling
    <3>3. ASSUME destroys = 0
          PROVE  /\ \A t \in Timers : timers'[t] = NoPoll
                 /\ \A l \in Loops : ~loops'[l].first
      BY <1>q, <3>1, <3>3, StopSilencesAll, QuietIsSettled
    <3> QED
      BY <2>1, <2>3, <3>2, <3>3 DEF SubscribedInv, PollsIffSubscribed, FirstAsksNothing
  <2> QED
    BY <2>2, <2>3
<1> QED
  BY <1>1, <1>2, <1>3, <1>4 DEF Calls

\* An activation that ends without a stop takes no interval away; only a first one
\* makes an interval, for its poll.
LEMMA DeliverKeeps ==
  ASSUME PollInv, NEW l \in Loops, Deliver(l, FALSE)
  PROVE  /\ loops' = [loops EXCEPT ![l] = Idle]
         /\ ~loops[l].first => timers' = timers
         /\ loops[l].first =>
              \E t \in Timers : timers[t] = NoPoll /\ timers' = [timers EXCEPT ![t] = loops[l].poll]
BY DEF Deliver, Settle, SetInterval, FreshTimers

\* Answers: the first activation makes the interval, the others leave it.
LEMMA AnswersSubscribed ==
  ASSUME PollInv, TypeOK, SubscribedInv, NEW l \in Loops, Answers(l)
  PROVE  SubscribedInv'
<1> USE DEF IsThereActiveSubscriptions
<1>0. /\ UNCHANGED <<pollInstance, newHeadsSubscription, logSubscriptions, destroys>>
      /\ \A m \in Loops \ {l} : fetch'[m] = fetch[m]
  BY DEF Answers, NoNewBlock, BlockArrives, LogsArrive, RequestFails, Emit, manager, history, TypeOK
<1>1. loops \in [Loops -> [poll : Polls \union {NoPoll}, first : BOOLEAN]]
      /\ timers \in [Timers -> Polls \union {NoPoll}]
  BY DEF TypeOK, PollTypeOK
<1>2. ASSUME destroys = 0, loops[l].first PROVE Deliver(l, FALSE)
  <2>1. fetch[l] = Nothing
    BY <1>2 DEF SubscribedInv, FirstAsksNothing
  <2>2. fetch[l].stage \notin {"block", "logs"}
    BY <2>1 DEF Nothing
  <2> QED
    BY <2>2 DEF Answers, NoNewBlock, BlockArrives, LogsArrive, RequestFails
<1>3. CASE UNCHANGED pollVars
  <2>1. ~(destroys = 0 /\ loops[l].first)
    <3>1. ASSUME Deliver(l, FALSE) PROVE FALSE
      <4>1. loops'[l] = Idle
        BY <1>1, <3>1, DeliverKeeps
      <4>2. loops[l].poll # NoPoll
        BY <3>1 DEF Deliver
      <4> QED
        BY <1>3, <4>1, <4>2 DEF pollVars, Idle
    <3> QED
      BY <1>2, <3>1
  <2> QED
    BY <1>0, <1>3, <2>1
    DEF pollVars, SubscribedInv, PollsIffSubscribed, FirstAsksNothing, TimersOf, LoopsOf
<1>4. CASE Deliver(l, FALSE) \/ Reject(l)
  <2>1. /\ loops'[l] = Idle
        /\ \A m \in Loops \ {l} : loops'[m] = loops[m]
    BY <1>1, <1>4, DeliverKeeps DEF Reject
  <2>2. destroys = 0 => FirstAsksNothing'
    BY <1>0, <2>1 DEF Idle, SubscribedInv, FirstAsksNothing
  <2>3. CASE destroys = 0 /\ loops[l].first
    <3>1. loops[l].poll = pollInstance /\ loops[l].poll # NoPoll
      BY <1>2, <2>3 DEF SubscribedInv, FirstAsksNothing, Deliver
    <3>2. PICK t \in Timers : timers' = [timers EXCEPT ![t] = pollInstance]
      BY <1>2, <2>3, <3>1, DeliverKeeps
    <3>3. t \in TimersOf(pollInstance)'
      BY <1>0, <1>1, <3>2 DEF TimersOf
    <3>4. \A u \in Timers : timers'[u] \in {NoPoll, pollInstance}
      BY <1>1, <2>3, <3>2 DEF SubscribedInv, PollsIffSubscribed
    <3> QED
      BY <1>0, <2>2, <2>3, <3>1, <3>3, <3>4 DEF SubscribedInv, PollsIffSubscribed
  <2>4. CASE destroys = 0 /\ ~loops[l].first
    <3>1. timers' = timers
      BY <1>4, <2>4, DeliverKeeps DEF Reject
    <3>2. \A m \in LoopsOf(pollInstance) : loops[m].first => m \in LoopsOf(pollInstance)'
      BY <1>0, <2>1, <2>4 DEF LoopsOf
    <3>3. \A m \in Loops : loops[m].first => loops'[m].first /\ fetch'[m] = fetch[m]
      BY <1>0, <2>1, <2>4
    <3> QED
      BY <1>0, <2>2, <3>1, <3>2, <3>3 DEF SubscribedInv, PollsIffSubscribed, TimersOf, LoopsOf
  <2>5. CASE destroys # 0
    BY <1>0, <2>5 DEF SubscribedInv, PollsIffSubscribed
  <2> QED
    BY <2>3, <2>4, <2>5
<1> QED
  BY <1>3, <1>4 DEF Answers, NoNewBlock, BlockArrives, LogsArrive, RequestFails, Emit

LEMMA SubscribedStep == PollInv /\ TypeOK /\ SubscribedInv /\ [Next]_vars => SubscribedInv'
<1> SUFFICES ASSUME PollInv, TypeOK, SubscribedInv, [Next]_vars PROVE SubscribedInv'
  OBVIOUS
<1> USE DEF IsThereActiveSubscriptions
<1>1. ASSUME NEW id \in Ids, Calls(id) PROVE SubscribedInv'
  BY <1>1, CallsSubscribed
<1>2. ASSUME NEW l \in Loops, Answers(l) PROVE SubscribedInv'
  BY <1>2, AnswersSubscribed
<1>3. ASSUME NEW t \in Timers, NEW l \in Loops, PollBlocks(t, l) PROVE SubscribedInv'
  <2>1. /\ Quiet /\ loops[l] = Idle /\ loops' = [loops EXCEPT ![l] = [poll |-> timers[t], first |-> FALSE]]
        /\ \A m \in Loops \ {l} : fetch'[m] = fetch[m]
        /\ UNCHANGED <<timers, pollInstance, newHeadsSubscription, logSubscriptions, destroys>>
    BY <1>3 DEF PollBlocks, Tick, Begin, manager, history, TypeOK
  <2>2. ASSUME destroys = 0
        PROVE  /\ \A m \in Loops : ~loops'[m].first
               /\ pollInstance' # NoPoll => TimersOf(pollInstance)' # {}
    BY <2>1, <2>2, QuietIsSettled DEF TypeOK, PollTypeOK, TimersOf
  <2> QED
    BY <2>1, <2>2 DEF SubscribedInv, PollsIffSubscribed, FirstAsksNothing
<1>4. CASE Destroy
  <2>1. destroys' # 0 /\ pollInstance' = NoPoll
    BY <1>4, SubscriptionAssumption DEF Destroy, StopSubscriptionsPolling, TypeOK
  <2> QED
    BY <2>1 DEF SubscribedInv, PollsIffSubscribed
<1>5. CASE NewBlock \/ UNCHANGED vars
  BY <1>5 DEF NewBlock, vars, manager, history, pollVars, SubscribedInv, PollsIffSubscribed,
              FirstAsksNothing, TimersOf, LoopsOf
<1> QED
  BY <1>1, <1>2, <1>3, <1>4, <1>5 DEF Next

\* However activations overlap, calls come at once and requests fail: a provider that
\* polls has subscriptions, and until it is destroyed it polls, by one interval of its
\* own, exactly while it has some.
THEOREM PollsWhileSubscribed == Spec => []PollsIffSubscribed
<1>1. SubscribedInv => PollsIffSubscribed
  BY DEF SubscribedInv
<1> QED
  BY <1>1, SubscribedInit, SubscribedStep, TypeCorrect, PTL DEF Spec

-----------------------------------------------------------------------------
(***************************************************************************)
(* The feed, for a provider whose requests do not overlap, which is not    *)
(* destroyed, and on which no two first subscriptions are made at once.    *)
(***************************************************************************)
Serial ==
  /\ \A l, m \in Loops : l = m
  /\ MaxPending <= 1
  /\ MaxDestroys = 0

\* A call waits for the best block only while nothing polls, and it is the only one.
PendingAlone ==
  \A i \in Ids : pending[i] # NotPending =>
    /\ i \in used
    /\ pending[i] <= best
    /\ pollInstance = NoPoll
    /\ \A j \in Ids : pending[j] # NotPending => j = i

\* What is being looked into is the block at the cursor, on the chain once its logs
\* are asked for; a loop that is free looks into nothing.
FetchesNext ==
  \A l \in Loops :
    /\ loops[l] = Idle => fetch[l] = NoFetch
    /\ fetch[l].stage = "block" => fetch[l].number = currentBlockNumber
    /\ fetch[l].stage = "logs" =>
         /\ fetch[l].number = currentBlockNumber /\ fetch[l].logs = currentBlockNumber
         /\ currentBlockNumber <= best /\ ~fetch[l].early
         /\ fetch[l].of # {}

SerialInv == PendingAlone /\ FetchesNext /\ destroys = 0

LEMMA SerialInitInv == ASSUME Serial, Init PROVE SerialInv
BY SubscriptionAssumption DEF Serial, Init, SerialInv, PendingAlone, FetchesNext, NoFetch, NotPending

\* No second call waits for the best block.
LEMMA NobodyWaits ==
  ASSUME Serial, PendingAlone, NEW id \in Ids, SubscribeFirst(id)
  PROVE  \A i \in Ids : pending[i] = NotPending
<1> DEFINE S == {i \in Ids : pending[i] # NotPending}
<1> SUFFICES ASSUME NEW i \in S PROVE FALSE
  OBVIOUS
<1>1. S = {i}
  BY DEF PendingAlone
<1>2. Cardinality({i}) = 1
  BY FS_Singleton
<1>3. Cardinality(S) < MaxPending
  BY DEF SubscribeFirst
<1> QED
  BY <1>1, <1>2, <1>3, SubscriptionAssumption DEF Serial

LEMMA CallsSerial ==
  ASSUME Serial, TypeOK, SerialInv, NEW id \in Ids, Calls(id)
  PROVE  SerialInv'
<1> USE SubscriptionAssumption DEF SerialInv
<1>1. CASE Subscribe(id)
  BY <1>1 DEF Subscribe, PendingAlone, FetchesNext, pollVars
<1>2. CASE SubscribeFirst(id)
  <2>1. \A i \in Ids : pending'[i] = IF i = id THEN best ELSE NotPending
    BY <1>2, NobodyWaits DEF SubscribeFirst, TypeOK
  <2>2. /\ best \in Nat /\ best' = best /\ pollInstance' = NoPoll
        /\ used' = used \union {id}
    BY <1>2 DEF SubscribeFirst, TypeOK, Blocks
  <2>3. PendingAlone'
    BY <2>1, <2>2 DEF PendingAlone
  <2> QED
    BY <1>2, <2>3 DEF SubscribeFirst, FetchesNext, pollVars, manager
<1>3. CASE BestBlock(id)
  <2>1. /\ pollInstance = NoPoll
        /\ \A i \in Ids : pending'[i] = NotPending
        /\ UNCHANGED <<best, destroys>>
    BY <1>3 DEF BestBlock, PendingAlone, TypeOK, history
  <2>2. PICK number \in pending[id] .. best :
          currentBlockNumber' = number /\ StartSubscriptionsPolling(number)
    BY <1>3 DEF BestBlock
  <2>3. PICK p \in Polls, l \in Loops :
          StartListen(p, l) /\ fetch' = [fetch EXCEPT ![l] = GetCurrentBlock(number)]
    BY <2>1, <2>2 DEF StartSubscriptionsPolling
  <2>4. \A m \in Loops : m = l
    BY DEF Serial
  <2>5. loops'[l] = [poll |-> p, first |-> TRUE]
    BY <2>3, BeginTypeOK DEF StartListen, TypeOK
  <2>6. loops'[l] # Idle
    BY <2>5 DEF Idle
  <2>7. fetch'[l] = GetCurrentBlock(number)
    BY <2>3 DEF TypeOK
  <2>8. FetchesNext'
    BY <2>2, <2>4, <2>6, <2>7 DEF FetchesNext, GetCurrentBlock, Nothing
  <2> QED
    BY <2>1, <2>8 DEF PendingAlone
<1>4. CASE BestBlockFails(id)
  BY <1>4 DEF BestBlockFails, PendingAlone, FetchesNext, pollVars, manager, TypeOK
<1>5. CASE Unsubscribe(id)
  <2>1. /\ pollInstance' \in {pollInstance, NoPoll}
        /\ UNCHANGED loops
    BY <1>5 DEF Unsubscribe, StopSubscriptionsPolling, StopListen, pollVars
  <2> QED
    BY <1>5, <2>1 DEF Unsubscribe, PendingAlone, FetchesNext, history
<1> QED
  BY <1>1, <1>2, <1>3, <1>4, <1>5 DEF Calls

LEMMA AnswersSerial ==
  ASSUME Serial, PollInv, TypeOK, SerialInv, NEW l \in Loops, Answers(l)
  PROVE  SerialInv'
<1> USE SubscriptionAssumption DEF SerialInv
<1>1. \A m \in Loops : m = l
  BY DEF Serial
<1>2. PendingAlone' /\ destroys' = destroys /\ best' = best
  BY DEF Answers, NoNewBlock, BlockArrives, LogsArrive, RequestFails, PendingAlone, history
<1>3. CASE fetch' = [fetch EXCEPT ![l] = NoFetch]
  <2>1. fetch'[l] = NoFetch
    BY <1>3 DEF TypeOK
  <2> QED
    BY <1>1, <1>2, <2>1 DEF FetchesNext, NoFetch
<1>4. CASE /\ BlockArrives(l) /\ logSubscriptions # {}
           /\ fetch' = [fetch EXCEPT ![l] =
                          [stage |-> "logs", number |-> fetch[l].number,
                           head |-> newHeadsSubscription,
                           logs |-> currentBlockNumber, of |-> logSubscriptions,
                           early |-> currentBlockNumber > best]]
           /\ UNCHANGED <<pollVars, currentBlockNumber, feed>>
  <2>1. /\ fetch[l].number = currentBlockNumber /\ currentBlockNumber <= best
        /\ loops[l] # Idle
    BY <1>4 DEF BlockArrives, FetchesNext, NoFetch
  <2>2. fetch'[l] = [stage |-> "logs", number |-> currentBlockNumber, head |-> newHeadsSubscription,
                     logs |-> currentBlockNumber, of |-> logSubscriptions,
                     early |-> currentBlockNumber > best]
    BY <1>4, <2>1 DEF TypeOK
  <2>3. /\ fetch'[l].stage = "logs" /\ fetch'[l].of # {} /\ ~fetch'[l].early
        /\ fetch'[l].number = currentBlockNumber /\ fetch'[l].logs = currentBlockNumber
    <3>1. ~(currentBlockNumber > best)
      BY <2>1 DEF TypeOK, Blocks
    <3>2. fetch'[l].early = (currentBlockNumber > best)
      BY <2>2
    <3>3. ~fetch'[l].early
      BY <3>1, <3>2, Zenon
    <3>4. /\ fetch'[l].stage = "logs" /\ fetch'[l].of = logSubscriptions
          /\ fetch'[l].number = currentBlockNumber /\ fetch'[l].logs = currentBlockNumber
      BY <2>2
    <3> QED
      BY <1>4, <3>3, <3>4
  <2>4. loops' = loops /\ currentBlockNumber' = currentBlockNumber
    BY <1>4 DEF pollVars
  <2>5. FetchesNext'
    BY <1>1, <1>2, <2>1, <2>3, <2>4 DEF FetchesNext
  <2> QED
    BY <1>2, <2>5
<1> QED
  BY <1>3, <1>4 DEF Answers, NoNewBlock, BlockArrives, LogsArrive, RequestFails, Emit

LEMMA SerialStep == Serial /\ PollInv /\ TypeOK /\ SerialInv /\ [Next]_vars => SerialInv'
<1> SUFFICES ASSUME Serial, PollInv, TypeOK, SerialInv, [Next]_vars PROVE SerialInv'
  OBVIOUS
<1>1. ASSUME NEW id \in Ids, Calls(id) PROVE SerialInv'
  BY <1>1, CallsSerial
<1>2. ASSUME NEW l \in Loops, Answers(l) PROVE SerialInv'
  BY <1>2, AnswersSerial
<1>3. ASSUME NEW t \in Timers, NEW l \in Loops, PollBlocks(t, l) PROVE SerialInv'
  <2>1. \A m \in Loops : m = l
    BY DEF Serial
  <2>2. fetch'[l] = GetCurrentBlock(currentBlockNumber)
    BY <1>3 DEF PollBlocks, TypeOK
  <2>3. loops'[l] # Idle
    BY <1>3, PollAssumption DEF PollBlocks, Tick, Begin, Idle, TypeOK, PollTypeOK
  <2>4. UNCHANGED <<best, pollInstance, currentBlockNumber, pending, used, destroys>>
    BY <1>3 DEF PollBlocks, manager, history
  <2>5. FetchesNext'
    BY <2>1, <2>2, <2>3, <2>4 DEF FetchesNext, GetCurrentBlock, Nothing
  <2> QED
    BY <2>4, <2>5 DEF SerialInv, PendingAlone
<1>4. ~Destroy
  BY DEF Destroy, Serial, SerialInv
<1>5. CASE NewBlock
  BY <1>5 DEF NewBlock, manager, history, pollVars, SerialInv, PendingAlone, FetchesNext,
              TypeOK, Blocks, NotPending
<1>6. CASE UNCHANGED vars
  BY <1>6 DEF vars, manager, history, pollVars, SerialInv, PendingAlone, FetchesNext
<1> QED
  BY <1>1, <1>2, <1>3, <1>4, <1>5, <1>6 DEF Next

-----------------------------------------------------------------------------
(***************************************************************************)
(* Such a provider implements BlockFeed, step by step.                     *)
(***************************************************************************)
Joined     == {i \in used : pending[i] = NotPending}
Subscribed == (logSubscriptions \union {newHeadsSubscription}) \ {NoId}
Asked(f)   == UNION {(f[l].of \union {f[l].head}) \ {NoId} : l \in {k \in Loops : f[k].stage = "logs"}}
FeedVars   == <<best, currentBlockNumber, Joined, Subscribed, Asked(fetch), feed>>

\* One loop, one block that is looked into.
LEMMA AskedOfOne ==
  ASSUME Serial, NEW l \in Loops, NEW f
  PROVE  /\ f[l].stage # "logs" => Asked(f) = {}
         /\ f[l].stage = "logs" => Asked(f) = (f[l].of \union {f[l].head}) \ {NoId}
<1>1. \A k \in Loops : k = l
  BY DEF Serial
<1>2. CASE f[l].stage # "logs"
  BY <1>1, <1>2 DEF Asked
<1>3. CASE f[l].stage = "logs"
  <2>1. {k \in Loops : f[k].stage = "logs"} = {l}
    BY <1>1, <1>3
  <2> QED
    BY <1>3, <2>1 DEF Asked
<1> QED
  BY <1>2, <1>3

\* Whoever registers is subscribed, and may take the place of the head subscription.
LEMMA RegisterSubscribes ==
  ASSUME TypeOK, NEW id \in Ids, Register(id)
  PROVE  \E replaced \in SUBSET Subscribed : Subscribed' = (Subscribed \ replaced) \union {id}
<1> USE SubscriptionAssumption DEF Ids, Subscribed, Register, TypeOK
<1>1. CASE id \in HeadIds
  <2>1. Subscribed' = (Subscribed \ ({newHeadsSubscription} \ {NoId})) \union {id}
    BY <1>1
  <2>2. {newHeadsSubscription} \ {NoId} \in SUBSET Subscribed
    OBVIOUS
  <2> QED
    BY <2>1, <2>2
<1>2. CASE id \in LogIds
  <2>1. Subscribed' = (Subscribed \ {}) \union {id}
    BY <1>2
  <2>2. {} \in SUBSET Subscribed
    OBVIOUS
  <2> QED
    BY <2>1, <2>2
<1> QED
  BY <1>1, <1>2

LEMMA FeedStarts == Init => Feed!FeedInit
<1> SUFFICES ASSUME Init PROVE Feed!FeedInit
  OBVIOUS
<1>1. Asked(fetch) = {}
  BY DEF Init, Asked, NoFetch
<1> QED
  BY <1>1, SubscriptionAssumption DEF Init, Feed!FeedInit, Asked, Blocks

LEMMA CallsFeed ==
  ASSUME Serial, TypeOK, SubscribedInv, SerialInv, NEW id \in Ids, Calls(id)
  PROVE  [Feed!FeedNext]_(Feed!feedVars)
<1> USE SubscriptionAssumption
<1>1. CASE Subscribe(id)
  <2>1. pending[id] = NotPending
    BY <1>1 DEF Subscribe, SerialInv, PendingAlone
  <2>2. id \notin Joined /\ Joined' = Joined \union {id}
    BY <1>1, <2>1 DEF Subscribe, Joined, NotPending
  <2>3. \E replaced \in SUBSET Subscribed : Subscribed' = (Subscribed \ replaced) \union {id}
    BY <1>1, RegisterSubscribes DEF Subscribe
  <2>4. Subscribed # {}
    BY <1>1 DEF Subscribe, SubscribedInv, PollsIffSubscribed, IsThereActiveSubscriptions,
                Active, Subscribed, TypeOK, Ids
  <2>5. UNCHANGED <<best, currentBlockNumber, feed, fetch>>
    BY <1>1 DEF Subscribe
  <2>6. Feed!Join(id)
    BY <2>2, <2>3, <2>4, <2>5 DEF Feed!Join, Joined, Subscribed
  <2> QED
    BY <2>6 DEF Feed!FeedNext
<1>2. CASE SubscribeFirst(id)
  <2>1. \A i \in Ids : pending'[i] = IF i = id THEN best ELSE pending[i]
    BY <1>2 DEF SubscribeFirst, TypeOK
  <2>2. best # NotPending
    BY DEF TypeOK, Blocks, NotPending
  <2>3. Joined' = Joined
    BY <1>2, <2>1, <2>2 DEF SubscribeFirst, Joined, TypeOK, NotPending
  <2>4. UNCHANGED <<best, manager, fetch, feed>>
    BY <1>2 DEF SubscribeFirst
  <2> QED
    BY <2>3, <2>4 DEF Feed!feedVars, Joined, manager
<1>3. CASE BestBlock(id)
  <2>1. /\ pollInstance = NoPoll /\ destroys = 0 /\ id \in used /\ pending[id] # NotPending
        /\ UNCHANGED <<best, feed, used>>
    BY <1>3 DEF BestBlock, SerialInv, PendingAlone, history
  <2>2. Subscribed = {}
    BY <2>1 DEF SubscribedInv, PollsIffSubscribed, IsThereActiveSubscriptions, Active, Subscribed
  <2>3. id \notin Joined /\ Joined' = Joined \union {id}
    BY <1>3, <2>1 DEF BestBlock, Joined, NotPending, TypeOK
  <2>4. \E replaced \in SUBSET Subscribed : Subscribed' = (Subscribed \ replaced) \union {id}
    BY <1>3, RegisterSubscribes DEF BestBlock
  <2>5. PICK number \in pending[id] .. best :
          currentBlockNumber' = number /\ StartSubscriptionsPolling(number)
    BY <1>3 DEF BestBlock
  <2>6. number \in 0 .. best
    BY <2>5 DEF TypeOK, Blocks, NotPending
  <2>7. PICK p \in Polls, l \in Loops :
          StartListen(p, l) /\ fetch' = [fetch EXCEPT ![l] = GetCurrentBlock(number)]
    BY <2>1, <2>5 DEF StartSubscriptionsPolling
  <2>8. loops[l] = Idle
    BY <2>7 DEF StartListen, Begin
  <2>9. fetch[l].stage # "logs"
    BY <2>8 DEF SerialInv, FetchesNext, NoFetch
  <2>10. fetch'[l].stage # "logs"
    BY <2>7 DEF TypeOK, GetCurrentBlock, Nothing
  <2>11. Asked(fetch) = {} /\ Asked(fetch') = {}
    BY <2>9, <2>10, AskedOfOne
  <2>12. Feed!Join(id)
    BY <2>1, <2>2, <2>3, <2>4, <2>5, <2>6, <2>11 DEF Feed!Join, Joined, Subscribed, Asked
  <2> QED
    BY <2>12 DEF Feed!FeedNext
<1>4. CASE BestBlockFails(id)
  <2>1. id \in used /\ pending[id] # NotPending /\ UNCHANGED <<best, manager, fetch, feed, used>>
    BY <1>4 DEF BestBlockFails, SerialInv, PendingAlone
  <2>2. id \notin Joined /\ Joined' = Joined \union {id}
    BY <1>4, <2>1 DEF BestBlockFails, Joined, NotPending, TypeOK
  <2>3. Feed!Refuse(id)
    BY <2>1, <2>2 DEF Feed!Refuse, Joined, manager
  <2> QED
    BY <2>3 DEF Feed!FeedNext
<1>5. CASE Unsubscribe(id)
  <2>1. Subscribed' = Subscribed \ {id}
    BY <1>5 DEF Unsubscribe, Subscribed, Ids
  <2>2. UNCHANGED <<best, currentBlockNumber, pending, fetch, feed, used>>
    BY <1>5 DEF Unsubscribe, history
  <2>3. Feed!Leave(id)
    BY <2>1, <2>2 DEF Feed!Leave, Subscribed
  <2> QED
    BY <2>3 DEF Feed!FeedNext
<1> QED
  BY <1>1, <1>2, <1>3, <1>4, <1>5 DEF Calls

\* Messages for the block at the cursor, all of them for blocks of the chain.
LEMMA EmitTells ==
  ASSUME TypeOK, NEW l \in Loops, NEW h \in HeadIds \union {NoId}, NEW of \in SUBSET LogIds,
         NEW logs \in Nat, of # {} => logs = currentBlockNumber,
         Emit(l, h, currentBlockNumber, of, logs),
         currentBlockNumber <= best,
         UNCHANGED <<best, newHeadsSubscription, logSubscriptions, pending, used>>
  PROVE  Feed!Tell((of \union {h}) \ {NoId})
<1> USE SubscriptionAssumption
<1>1. currentBlockNumber \in Blocks /\ currentBlockNumber \in 0 .. best
  BY DEF TypeOK, Blocks
<1> DEFINE S     == (of \union {h}) \ {NoId}
           Holds == [i \in Ids |-> IF i \in HeadIds THEN Blocks ELSE LogBlocks[i]]
<1>2. \A i \in Ids : (i = h \/ (i \in of /\ logs \in LogBlocks[i] \intersect 0 .. best))
                       <=> (i \in S /\ currentBlockNumber \in Holds[i])
  <2> TAKE i \in Ids
  <2>1. CASE i = h
    <3>1. i # NoId /\ i \in HeadIds /\ i \in S
      BY <2>1
    <3>2. Holds[i] = Blocks
      BY <3>1
    <3> QED
      BY <1>1, <2>1, <3>1, <3>2
  <2>2. CASE i # h /\ i \in of
    BY <1>1, <2>2 DEF Ids
  <2>3. CASE i # h /\ i \notin of
    BY <2>3
  <2> QED
    BY <2>1, <2>2, <2>3
<1>3. feed' = [i \in Ids |-> IF i = h THEN Append(feed[i], currentBlockNumber)
                             ELSE IF i \in of /\ logs \in LogBlocks[i] \intersect 0 .. best
                             THEN Append(feed[i], logs)
                             ELSE feed[i]]
  BY DEF Emit
<1>4. feed' = [i \in Ids |-> IF i \in S /\ currentBlockNumber \in Holds[i]
                             THEN Append(feed[i], currentBlockNumber) ELSE feed[i]]
  <2> HIDE DEF S, Holds
  <2>1. \A i \in Ids : (IF i = h THEN Append(feed[i], currentBlockNumber)
                        ELSE IF i \in of /\ logs \in LogBlocks[i] \intersect 0 .. best
                        THEN Append(feed[i], logs)
                        ELSE feed[i])
                     = (IF i \in S /\ currentBlockNumber \in Holds[i]
                        THEN Append(feed[i], currentBlockNumber) ELSE feed[i])
    <3> TAKE i \in Ids
    <3>1. CASE i = h
      BY <1>2, <3>1
    <3>2. CASE i # h /\ i \in of
      <4>1. logs = currentBlockNumber
        BY <3>2
      <4> QED
        BY <1>2, <3>2, <4>1
    <3>3. CASE i # h /\ i \notin of
      BY <1>2, <3>3
    <3> QED
      BY <3>1, <3>2, <3>3
  <2> QED
    BY <1>3, <2>1
<1>5. currentBlockNumber' = currentBlockNumber + 1
  BY DEF Emit
<1> QED
  BY <1>4, <1>5 DEF Feed!Tell

LEMMA AnswersFeed ==
  ASSUME Serial, TypeOK, SubscribedInv, SerialInv, NEW l \in Loops, Answers(l)
  PROVE  [Feed!FeedNext]_(Feed!feedVars)
<1> USE SubscriptionAssumption
<1>1. CASE NoNewBlock(l)
  <2>1. fetch[l].stage # "logs"
    BY <1>1 DEF NoNewBlock, Nothing
  <2>2. fetch'[l].stage # "logs" /\ UNCHANGED <<best, manager, pending, feed, used>>
    BY <1>1 DEF NoNewBlock, TypeOK, NoFetch, history
  <2>3. Asked(fetch) = {} /\ Asked(fetch') = {}
    BY <2>1, <2>2, AskedOfOne
  <2> QED
    BY <2>2, <2>3 DEF Feed!feedVars, Asked, manager
<1>2. CASE BlockArrives(l)
  <2>1. /\ fetch[l].stage = "block" /\ fetch[l].number = currentBlockNumber
        /\ currentBlockNumber <= best
        /\ UNCHANGED <<best, newHeadsSubscription, logSubscriptions, pending, used>>
    BY <1>2 DEF BlockArrives, SerialInv, FetchesNext
  <2>2. Asked(fetch) = {}
    BY <2>1, AskedOfOne
  <2>3. CASE logSubscriptions = {} /\ Emit(l, newHeadsSubscription, fetch[l].number, {}, 0)
    <3>1. Feed!Tell(({} \union {newHeadsSubscription}) \ {NoId})
      BY <2>1, <2>3, EmitTells DEF TypeOK
    <3>2. ({} \union {newHeadsSubscription}) \ {NoId} = Subscribed
      BY <2>3 DEF Subscribed
    <3>3. fetch'[l].stage # "logs"
      BY <2>3 DEF Emit, TypeOK, NoFetch
    <3>4. Asked(fetch') = {}
      BY <3>3, AskedOfOne
    <3>5. Feed!Tell(Subscribed)
      BY <3>1, <3>2
    <3>6. Feed!TellAtOnce
      BY <2>2, <3>4, <3>5 DEF Feed!TellAtOnce, Asked, Subscribed
    <3> QED
      BY <3>6 DEF Feed!FeedNext
  <2>4. CASE /\ logSubscriptions # {}
             /\ fetch' = [fetch EXCEPT ![l] =
                            [stage |-> "logs", number |-> fetch[l].number,
                             head |-> newHeadsSubscription,
                             logs |-> currentBlockNumber, of |-> logSubscriptions,
                             early |-> currentBlockNumber > best]]
             /\ UNCHANGED <<pollVars, currentBlockNumber, feed>>
    <3>1. /\ fetch'[l].stage = "logs" /\ fetch'[l].of = logSubscriptions
          /\ fetch'[l].head = newHeadsSubscription
      BY <2>4 DEF TypeOK
    <3>2. Asked(fetch') = Subscribed
      BY <3>1, AskedOfOne DEF Subscribed
    <3>3. Feed!LookInto
      BY <2>1, <2>2, <2>4, <3>2 DEF Feed!LookInto, Asked, Subscribed
    <3> QED
      BY <3>3 DEF Feed!FeedNext
  <2> QED
    BY <1>2, <2>3, <2>4 DEF BlockArrives
<1>3. CASE LogsArrive(l)
  <2>1. /\ fetch[l].stage = "logs" /\ ~ fetch[l].early /\ fetch[l].of # {}
        /\ fetch[l].number = currentBlockNumber /\ fetch[l].logs = currentBlockNumber
        /\ currentBlockNumber <= best
        /\ UNCHANGED <<best, newHeadsSubscription, logSubscriptions, pending, used>>
    BY <1>3 DEF LogsArrive, SerialInv, FetchesNext
  <2>2. fetch[l].head \in HeadIds \union {NoId} /\ fetch[l].of \in SUBSET LogIds
    <3>1. fetch[l] \in Fetches
      BY DEF TypeOK
    <3> QED
      BY <2>1, <3>1 DEF Fetches, NoFetch, Nothing
  <2>3. Emit(l, fetch[l].head, fetch[l].number, fetch[l].of, fetch[l].logs)
    BY <1>3, <2>1 DEF LogsArrive
  <2>4. Feed!Tell((fetch[l].of \union {fetch[l].head}) \ {NoId})
    BY <2>1, <2>2, <2>3, EmitTells DEF TypeOK
  <2>5. Asked(fetch) = (fetch[l].of \union {fetch[l].head}) \ {NoId}
    BY <2>1, AskedOfOne
  <2>6. Asked(fetch) # {}
    BY <2>1, <2>2, <2>5 DEF Ids
  <2>7. fetch'[l].stage # "logs"
    BY <2>3 DEF Emit, TypeOK, NoFetch
  <2>8. Asked(fetch') = {}
    BY <2>7, AskedOfOne
  <2>9. Feed!Tell(Asked(fetch))
    BY <2>4, <2>5
  <2>10. Feed!TellAsked
    BY <2>6, <2>8, <2>9 DEF Feed!TellAsked, Asked
  <2> QED
    BY <2>10 DEF Feed!FeedNext
<1>4. CASE RequestFails(l)
  <2>1. fetch'[l].stage # "logs" /\ UNCHANGED <<best, manager, pending, feed, used>>
    BY <1>4 DEF RequestFails, TypeOK, NoFetch
  <2>2. Asked(fetch') = {}
    BY <2>1, AskedOfOne
  <2>3. Feed!GiveUp
    BY <2>1, <2>2 DEF Feed!GiveUp, Asked, manager
  <2> QED
    BY <2>3 DEF Feed!FeedNext
<1> QED
  BY <1>1, <1>2, <1>3, <1>4 DEF Answers

LEMMA FeedSteps ==
  Serial /\ TypeOK /\ SubscribedInv /\ SerialInv /\ [Next]_vars => [Feed!FeedNext]_(Feed!feedVars)
<1> SUFFICES ASSUME Serial, TypeOK, SubscribedInv, SerialInv, [Next]_vars
             PROVE  [Feed!FeedNext]_(Feed!feedVars)
  OBVIOUS
<1>1. ASSUME NEW id \in Ids, Calls(id) PROVE [Feed!FeedNext]_(Feed!feedVars)
  BY <1>1, CallsFeed
<1>2. ASSUME NEW l \in Loops, Answers(l) PROVE [Feed!FeedNext]_(Feed!feedVars)
  BY <1>2, AnswersFeed
<1>3. ASSUME NEW t \in Timers, NEW l \in Loops, PollBlocks(t, l) PROVE UNCHANGED Feed!feedVars
  <2>1. loops[l] = Idle
    BY <1>3 DEF PollBlocks, Tick, Begin
  <2>2. fetch[l].stage # "logs"
    BY <2>1 DEF SerialInv, FetchesNext, NoFetch
  <2>3. fetch'[l].stage # "logs" /\ UNCHANGED <<best, manager, pending, feed, used>>
    BY <1>3 DEF PollBlocks, TypeOK, GetCurrentBlock, Nothing, history
  <2>4. Asked(fetch) = {} /\ Asked(fetch') = {}
    BY <2>2, <2>3, AskedOfOne
  <2> QED
    BY <2>3, <2>4 DEF Feed!feedVars, Asked, manager
<1>4. ~Destroy
  BY DEF Destroy, Serial, SerialInv
<1>5. CASE NewBlock
  <2>1. Feed!Grow
    BY <1>5 DEF NewBlock, Feed!Grow, manager, history
  <2> QED
    BY <2>1 DEF Feed!FeedNext
<1>6. CASE UNCHANGED vars
  BY <1>6 DEF vars, manager, history, Feed!feedVars
<1> QED
  BY <1>1, <1>2, <1>3, <1>4, <1>5, <1>6 DEF Next

\* While nothing overlaps, the subscriptions keep what BlockFeed promises: every
\* step of the provider is a step of the feed, or changes nothing of it.
THEOREM SerialImplementsFeed == ASSUME Serial PROVE Spec => ImplementsFeed
<1>1. Init => SerialInv
  BY SerialInitInv
<1>2. PollInv /\ TypeOK /\ SerialInv /\ [Next]_vars => SerialInv'
  BY SerialStep
<1>3. TypeOK /\ SubscribedInv /\ SerialInv /\ [Next]_vars => [Feed!FeedNext]_(Feed!feedVars)
  BY FeedSteps
<1> QED
  BY <1>1, <1>2, <1>3, SubscribedInit, SubscribedStep, TypeCorrect, FeedStarts, PTL
  DEF Spec, ImplementsFeed, Feed!FeedSpec

FeedProofs == INSTANCE BlockFeedProofs WITH
  Subscribers <- Ids,
  Holds       <- [i \in Ids |-> IF i \in HeadIds THEN Blocks ELSE LogBlocks[i]],
  head        <- best,
  next        <- currentBlockNumber,
  joined      <- {i \in used : pending[i] = NotPending},
  subscribed  <- (logSubscriptions \union {newHeadsSubscription}) \ {NoId},
  asked       <- UNION {(fetch[l].of \union {fetch[l].head}) \ {NoId} :
                          l \in {k \in Loops : fetch[k].stage = "logs"}},
  told        <- feed

\* Hence its messages: what BlockFeedProofs shows of every feed holds of every
\* subscription, each is told of its blocks in order, once, none left out.
THEOREM SerialFeedsInOrder == ASSUME Serial PROVE Spec => []InOrderFeeds
<1>1. Feed!FeedInit => FeedProofs!FeedInit
  BY DEF Feed!FeedInit, FeedProofs!FeedInit
<1>2. [Feed!FeedNext]_(Feed!feedVars) => [FeedProofs!FeedNext]_(FeedProofs!feedVars)
  BY DEF Feed!FeedNext, Feed!feedVars, Feed!Grow, Feed!Join, Feed!Refuse, Feed!Leave,
         Feed!Tell, Feed!TellAtOnce, Feed!LookInto, Feed!TellAsked, Feed!GiveUp,
         FeedProofs!FeedNext, FeedProofs!feedVars, FeedProofs!Grow, FeedProofs!Join,
         FeedProofs!Refuse, FeedProofs!Leave, FeedProofs!Tell, FeedProofs!TellAtOnce,
         FeedProofs!LookInto, FeedProofs!TellAsked, FeedProofs!GiveUp
<1>3. FeedProofs!InOrder => InOrderFeeds
  BY DEF FeedProofs!InOrder, FeedProofs!Told, InOrderFeeds, Feed!InOrder, Feed!Told
<1> QED
  BY <1>1, <1>2, <1>3, SerialImplementsFeed, FeedProofs!FeedKeepsOrder, PTL
  DEF ImplementsFeed, Feed!FeedSpec, FeedProofs!FeedSpec
=============================================================================
