----------------------------- MODULE HeadTracker -----------------------------
(***************************************************************************)
(* The head block a ThorClient follows: the polling part of BlocksModule,  *)
(* packages/network/src/thor-client/blocks/blocks-module.ts, with the      *)
(* EventPoll it owns and a node whose best block grows.                    *)
(*                                                                         *)
(* A request takes its answer from the node at one moment and reaches the  *)
(* client at a later one; requests of two intervals may be answered out of *)
(* order, because an interval (10 s) does not wait for the previous        *)
(* request (which may take the 30 s of DEFAULT_HTTP_TIMEOUT).              *)
(***************************************************************************)
EXTENDS EventPoll

CONSTANTS
  HeadPoll,     \* the poll instance
  MaxBlock,     \* bound on the node's chain
  MaxFailures,  \* bound on the requests that fail
  NoBlock,      \* null, before the first data
  NoReply,      \* a request not yet answered
  Failed        \* a request that failed

ASSUME HeadAssumption ==
  /\ Polls = {HeadPoll}
  /\ HeadPoll \in StopOnError    \* the default of createEventPoll
  /\ HeadPoll \in ErrorListened  \* onBlockError, or a listener that does nothing
  /\ MaxStarts = 1               \* setupPolling is called by the constructor only
  /\ MaxBlock \in Nat
  /\ MaxFailures \in Nat
  /\ {NoBlock, NoReply, Failed} \intersect Nat = {}
  /\ NoReply # Failed

VARIABLES
  best,       \* number of the node's best block
  headBlock,  \* the field of the module
  reply,      \* what came back for the request of each activation
  since,      \* history: the head when each activation began
  failures,   \* history: requests that failed
  destroyed   \* history: destroy was called

headVars == <<best, headBlock, reply, since, failures, destroyed>>
vars == <<pollVars, headVars>>

Blocks == 0 .. MaxBlock

HeadTypeOK ==
  /\ best \in Blocks
  /\ headBlock \in Blocks \union {NoBlock}
  /\ reply \in [Loops -> Blocks \union {NoReply, Failed}]
  /\ since \in [Loops -> Blocks \union {NoBlock}]
  /\ failures \in 0 .. MaxFailures
  /\ destroyed \in BOOLEAN

Init ==
  /\ PollInit
  /\ best = 0
  /\ headBlock = NoBlock
  /\ reply = [l \in Loops |-> NoReply]
  /\ since = [l \in Loops |-> NoBlock]
  /\ failures = 0
  /\ destroyed = FALSE

-----------------------------------------------------------------------------
\* The constructor, with isPollingEnabled.  startListen calls the polling
\* function while ThorClient's constructor has not yet assigned `blocks', so
\* that `this.thor.blocks.getBestBlockCompressed()' throws in the first
\* activation, whatever the node would have said.
SetupPolling(l) ==
  /\ StartListen(HeadPoll, l)
  /\ reply' = [reply EXCEPT ![l] = Failed]
  /\ UNCHANGED <<best, headBlock, since, failures, destroyed>>

\* An interval expires: getBestBlockCompressed sends a request.
PollHead(t, l) ==
  /\ Tick(t, l)
  /\ since' = [since EXCEPT ![l] = headBlock]
  /\ UNCHANGED <<best, headBlock, reply, failures, destroyed>>

\* The request reaches the node, or fails.
Answer(l) ==
  /\ loops[l] # Idle /\ reply[l] = NoReply
  /\ reply' = [reply EXCEPT ![l] = best]
  /\ UNCHANGED <<pollVars, best, headBlock, since, failures, destroyed>>

Lose(l) ==
  /\ loops[l] # Idle /\ reply[l] = NoReply
  /\ failures < MaxFailures
  /\ reply' = [reply EXCEPT ![l] = Failed]
  /\ failures' = failures + 1
  /\ UNCHANGED <<pollVars, best, headBlock, since, destroyed>>

\* Mutant of OnData: only the first block is kept.
OnDataOnce(l) ==
  /\ loops[l] # Idle /\ reply[l] \in Blocks
  /\ Deliver(l, FALSE)
  /\ headBlock' = IF headBlock = NoBlock THEN reply[l] ELSE headBlock
  /\ reply' = [reply EXCEPT ![l] = NoReply]
  /\ UNCHANGED <<best, since, failures, destroyed>>

\* The answer reaches the client: the listener of setupPolling keeps it.
OnData(l) ==
  /\ loops[l] # Idle /\ reply[l] \in Blocks
  /\ Deliver(l, FALSE)
  /\ headBlock' = reply[l]
  /\ reply' = [reply EXCEPT ![l] = NoReply]
  /\ UNCHANGED <<best, since, failures, destroyed>>

\* Mutant of OnError: an error forgets the head.
OnErrorForgets(l) ==
  /\ loops[l] # Idle /\ reply[l] = Failed
  /\ Fail(l)
  /\ headBlock' = NoBlock
  /\ reply' = [reply EXCEPT ![l] = NoReply]
  /\ UNCHANGED <<best, since, failures, destroyed>>

OnError(l) ==
  /\ loops[l] # Idle /\ reply[l] = Failed
  /\ Fail(l)
  /\ reply' = [reply EXCEPT ![l] = NoReply]
  /\ UNCHANGED <<best, headBlock, since, failures, destroyed>>

\* ThorClient.destroy; without a poll instance it does nothing.
Destroy ==
  /\ starts[HeadPoll] = 1
  /\ StopListen(HeadPoll)
  /\ destroyed' = TRUE
  /\ UNCHANGED <<best, headBlock, reply, since, failures>>

\* The node gets a new best block.
NewBlock ==
  /\ best < MaxBlock
  /\ best' = best + 1
  /\ UNCHANGED <<pollVars, headBlock, reply, since, failures, destroyed>>

Next ==
  \/ \E l \in Loops : SetupPolling(l) \/ Answer(l) \/ Lose(l) \/ OnData(l) \/ OnError(l)
  \/ \E t \in Timers : \E l \in Loops : PollHead(t, l)
  \/ Destroy
  \/ NewBlock

Spec == Init /\ [][Next]_vars

\* Live intervals fire and every request ends (HttpRequests: if the node completes
\* the responses it begins);
\* the owner and the chain owe nothing.
Fairness ==
  /\ \A t \in Timers : WF_vars(\E l \in Loops : PollHead(t, l))
  /\ \A l \in Loops : WF_vars(Answer(l) \/ Lose(l)) /\ WF_vars(OnData(l) \/ OnError(l))

FairSpec == Spec /\ Fairness

-----------------------------------------------------------------------------
\* The end of a request never takes the head back past the block it was at when
\* the request was sent, however many requests overlap (one that was answered
\* meanwhile may be newer).  With one request at a time the head only moves on.
NoOlderThanAsked ==
  [][\A l \in Loops :
       /\ loops[l] # Idle /\ loops'[l] = Idle
       /\ since[l] # NoBlock /\ headBlock' # headBlock
       => headBlock' \in since[l] .. best]_vars

\* While the poll has its interval, through overlapping requests, the head comes
\* to rest on the best block when the chain comes to rest.
HeadSettles == <>[](TimersOf(HeadPoll) = {} \/ headBlock = best)

\* A client that polls, is not destroyed and has no request that fails does so:
\* its poll gets its interval although the first activation always fails, and that
\* failure, of a poll that stops on errors, does not cost it the interval.
HeadFollows ==
  <>[](starts[HeadPoll] = 0 \/ destroyed \/ failures > 0 \/ headBlock = best)
=============================================================================
