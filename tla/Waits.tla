-------------------------------- MODULE Waits --------------------------------
(***************************************************************************)
(* The waits of the network package, which poll a node synchronously:      *)
(* waitForBlockCompressed and waitForBlockExpanded of BlocksModule         *)
(* (packages/network/src/thor-client/blocks/blocks-module.ts) and          *)
(* waitForTransaction of TransactionsModule (packages/network/src/         *)
(* thor-client/transactions/transactions-module.ts).                       *)
(*                                                                         *)
(* Each builds a SyncPoll of its own.  Several calls model callers of      *)
(* Poll.SyncPoll that share one object, with the polling function of one   *)
(* kind of wait and a condition each.  Requests take their answer from the *)
(* node at one moment and reach the client at a later one.                 *)
(***************************************************************************)
EXTENDS SyncPoll

CONSTANTS
  Kinds,        \* the kinds of wait: "compressed" or "expanded" blocks, "receipt"
  Number,       \* the block number each call waits for
  Inclusion,    \* the block that includes the awaited transaction
  MaxBlock,     \* bound on the node's chain
  MaxFailures,  \* bound on the requests that fail
  NoReply,      \* a request not yet answered
  Failed        \* a request that failed

ASSUME WaitAssumption ==
  /\ Kinds \subseteq {"compressed", "expanded", "receipt"}
  /\ Number \in [Calls -> Nat \ {0}]   \* _waitForBlock rejects other numbers
  /\ Inclusion \in Nat
  /\ MaxBlock \in Nat
  /\ MaxFailures \in Nat

VARIABLES
  kind,      \* what the object waits for
  best,      \* number of the node's best block
  reply,     \* what came back for the request of each call
  since,     \* history: the best block when each call began
  failures   \* history: requests that failed

waitVars == <<kind, best, reply, since, failures>>
vars == <<syncVars, waitVars>>

Blocks == 0 .. MaxBlock

\* The data of the polling functions: a block, in one of two forms, or a
\* receipt, null until there is one.
Results ==
  [number : Blocks, form : {"compressed", "expanded"}]
    \union [receipt : BOOLEAN]

TypeOK ==
  /\ SyncTypeOK(Results)
  /\ kind \in Kinds
  /\ best \in Blocks
  /\ reply \in [Calls -> Results \union {NoReply, Failed}]
  /\ since \in [Calls -> Blocks]
  /\ failures \in 0 .. MaxFailures

Init ==
  /\ SyncInit
  /\ kind \in Kinds
  /\ best = 0
  /\ reply = [c \in Calls |-> NoReply]
  /\ since = [c \in Calls |-> 0]
  /\ failures = 0

-----------------------------------------------------------------------------
\* Which request _waitForBlock makes for the value of `expanded'.
FormFetched(expanded) == IF expanded THEN "compressed" ELSE "expanded"

\* Mutant of Polled: the block before the best one, from a cache.
PolledCached(n) ==
  IF kind = "receipt" THEN [receipt |-> n >= Inclusion]
  ELSE [number |-> IF n = 0 THEN 0 ELSE n - 1, form |-> FormFetched(kind = "expanded")]

\* What the node answers when its best block is number n.
Polled(n) ==
  IF kind = "receipt" THEN [receipt |-> n >= Inclusion]
  ELSE [number |-> n, form |-> FormFetched(kind = "expanded")]

\* The conditions given to waitUntil.
Satisfied(c, data) ==
  IF kind = "receipt" THEN data.receipt ELSE data.number >= Number[c]

Wait(c) ==
  /\ WaitUntil(c)
  /\ since' = [since EXCEPT ![c] = best]
  /\ UNCHANGED <<kind, best, reply, failures>>

\* The request reaches the node, or fails.
Answer(c) ==
  /\ stage[c] = "fetching" /\ reply[c] = NoReply
  /\ reply' = [reply EXCEPT ![c] = Polled(best)]
  /\ UNCHANGED <<syncVars, kind, best, since, failures>>

Lose(c) ==
  /\ stage[c] = "fetching" /\ reply[c] = NoReply
  /\ failures < MaxFailures
  /\ failures' = failures + 1
  /\ reply' = [reply EXCEPT ![c] = Failed]
  /\ UNCHANGED <<syncVars, kind, best, since>>

\* The answer reaches the client.
Receive(c) ==
  /\ reply[c] # NoReply
  /\ IF reply[c] = Failed THEN FetchFails(c) ELSE Fetched(c, reply[c])
  /\ reply' = [reply EXCEPT ![c] = NoReply]
  /\ UNCHANGED <<kind, best, since, failures>>

Wake(c) ==
  /\ currentResult # NoResult
  /\ Check(c, Satisfied(c, currentResult))
  /\ UNCHANGED waitVars

\* The node gets a new best block.
NewBlock ==
  /\ best < MaxBlock
  /\ best' = best + 1
  /\ UNCHANGED <<syncVars, kind, reply, since, failures>>

Time == PassTime /\ UNCHANGED waitVars

Next ==
  \/ \E c \in Calls : Wait(c) \/ Answer(c) \/ Lose(c) \/ Receive(c) \/ Wake(c)
  \/ NewBlock
  \/ Time

Spec == Init /\ [][Next]_vars

\* Time passes, every request ends (HttpRequests: if the node completes the
\* responses it begins) and a timer that
\* is due fires; the chain owes nothing.
Fairness ==
  /\ WF_vars(Time)
  /\ \A c \in Calls : WF_vars(Answer(c) \/ Lose(c)) /\ WF_vars(Receive(c)) /\ WF_vars(Wake(c))

FairSpec == Spec /\ Fairness

-----------------------------------------------------------------------------
Returned(c) == stage[c] = "returned"
Ended(c)    == stage[c] \in {"returned", "thrown"}

\* A call that returns has what it waited for, or one of its limits was
\* reached, whatever other calls did to the result they share.
OnlyLimitsCutShort ==
  \A c \in Calls :
    Returned(c) => \/ Satisfied(c, result[c])
                   \/ IsMaximumReached(currentIteration)

\* c is the only call of its object so far.
Alone(c) == \A d \in Calls \ {c} : stage[d] = "new"

\* A wait that is alone on its object, as those of the package are, returns
\* nothing the node said before the wait began.
FreshResult ==
  \A c \in Calls :
    Returned(c) /\ Alone(c) /\ kind # "receipt" => result[c].number >= since[c]

\* A wait with a limit ends, and so does one without, once the node has what it
\* waits for, also when another call on the object resets what they share.
WaitsEnd ==
  \A c \in Calls :
    stage[c] = "fetching"
      /\ ({iterationLimit, timeLimit} # {NoLimit} \/ Satisfied(c, Polled(best)))
    ~> Ended(c)
=============================================================================
