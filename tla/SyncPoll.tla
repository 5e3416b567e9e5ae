------------------------------- MODULE SyncPoll -------------------------------
(***************************************************************************)
(* One object of the synchronous poll of the network package,              *)
(* packages/network/src/utils/poll/sync.ts, and the calls of its           *)
(* waitUntil.  The counter, the last result and the start time belong to   *)
(* the object: calls in progress at once share them.                       *)
(*                                                                         *)
(* Time passes in units that PassTime counts.  A sleep lasts at least      *)
(* Interval of them: setTimeout never fires early but may fire late.       *)
(***************************************************************************)
EXTENDS Naturals

CONSTANTS
  Calls,            \* the calls of waitUntil
  Interval,         \* requestIntervalInMilliseconds
  IterationLimits,  \* what maximumIterations may be
  TimeLimits,       \* what maximumWaitingTimeInMilliseconds may be
  NoLimit,          \* an option left undefined
  NoResult          \* before the first result

\* What SyncPoll validates of its options.
ASSUME SyncPollAssumption ==
  /\ Interval \in Nat \ {0}
  /\ NoLimit \notin Nat
  /\ IterationLimits \subseteq (Nat \ {0}) \union {NoLimit}
  /\ TimeLimits \subseteq (Nat \ {0}) \union {NoLimit}

VARIABLES
  iterationLimit,   \* the field maximumIterations, from the constructor's options
  timeLimit,        \* the field maximumWaitingTimeInMilliseconds, likewise
  stage,            \* where each call is
  left,             \* what is left of the sleep of each call
  currentIteration, \* the counter of the object; stays at its limit in the model
  elapsed,          \* the time since startTime; stays at its limit in the model
  currentResult,    \* the last result of the object
  result            \* what each call returned

limits == <<iterationLimit, timeLimit>>
syncVars == <<limits, stage, left, currentIteration, elapsed, currentResult, result>>

Stages == {"new", "fetching", "sleeping", "returned", "thrown"}

UpTo(limit) == IF limit = NoLimit THEN {0} ELSE 0 .. limit

SyncTypeOK(Results) ==
  /\ iterationLimit \in IterationLimits
  /\ timeLimit \in TimeLimits
  /\ stage \in [Calls -> Stages]
  /\ left \in [Calls -> 0 .. Interval]
  /\ currentIteration \in UpTo(iterationLimit)
  /\ elapsed \in UpTo(timeLimit)
  /\ currentResult \in Results \union {NoResult}
  /\ result \in [Calls -> Results \union {NoResult}]

SyncInit ==
  /\ iterationLimit \in IterationLimits
  /\ timeLimit \in TimeLimits
  /\ stage = [c \in Calls |-> "new"]
  /\ left = [c \in Calls |-> 0]
  /\ currentIteration = 0
  /\ elapsed = 0
  /\ currentResult = NoResult
  /\ result = [c \in Calls |-> NoResult]

-----------------------------------------------------------------------------
\* waitUntil is called and calls the polling function.
WaitUntil(c) ==
  /\ stage[c] = "new"
  /\ stage' = [stage EXCEPT ![c] = "fetching"]
  /\ UNCHANGED <<limits, left, currentIteration, elapsed, currentResult, result>>

\* The polling function settles; the call sleeps ...
Fetched(c, data) ==
  /\ stage[c] = "fetching"
  /\ stage' = [stage EXCEPT ![c] = "sleeping"]
  /\ left' = [left EXCEPT ![c] = Interval]
  /\ currentResult' = data
  /\ UNCHANGED <<limits, currentIteration, elapsed, result>>

\* ... or, when it threw, ends with PollExecution.
FetchFails(c) ==
  /\ stage[c] = "fetching"
  /\ stage' = [stage EXCEPT ![c] = "thrown"]
  /\ UNCHANGED <<limits, left, currentIteration, elapsed, currentResult, result>>

Increment(n, limit) == IF limit # NoLimit /\ n < limit THEN n + 1 ELSE n

Reached(n, limit) == limit # NoLimit /\ n >= limit

IsMaximumReached(iterations) ==
  \/ Reached(iterations, iterationLimit)
  \/ Reached(elapsed, timeLimit)

\* What Check does when the call is over, or not.
Finish(c, over) ==
  IF over
  THEN /\ stage' = [stage EXCEPT ![c] = "returned"]
       /\ result' = [result EXCEPT ![c] = currentResult]
  ELSE /\ stage' = [stage EXCEPT ![c] = "fetching"]
       /\ UNCHANGED result

\* Mutant of Check: the limits are reached one unit early.
CheckEarly(c, satisfied) ==
  /\ stage[c] = "sleeping" /\ left[c] = 0
  /\ currentIteration' = Increment(currentIteration, iterationLimit)
  /\ Finish(c, \/ satisfied
               \/ Reached(currentIteration' + 1, iterationLimit)
               \/ Reached(elapsed + 1, timeLimit))
  /\ UNCHANGED <<limits, left, elapsed, currentResult>>

\* Mutant of Check: the condition alone ends the call.
CheckUnlimited(c, satisfied) ==
  /\ stage[c] = "sleeping" /\ left[c] = 0
  /\ currentIteration' = Increment(currentIteration, iterationLimit)
  /\ Finish(c, satisfied)
  /\ UNCHANGED <<limits, left, elapsed, currentResult>>

\* Mutant of Check: a limit alone ends the call.
CheckLimits(c, satisfied) ==
  /\ stage[c] = "sleeping" /\ left[c] = 0
  /\ currentIteration' = Increment(currentIteration, iterationLimit)
  /\ Finish(c, IsMaximumReached(currentIteration'))
  /\ UNCHANGED <<limits, left, elapsed, currentResult>>

\* The sleep is over: the condition, `satisfied' of the object's last result,
\* or a limit ends the call, or it polls again.
Check(c, satisfied) ==
  /\ stage[c] = "sleeping" /\ left[c] = 0
  /\ currentIteration' = Increment(currentIteration, iterationLimit)
  /\ Finish(c, satisfied \/ IsMaximumReached(currentIteration'))
  /\ UNCHANGED <<limits, left, elapsed, currentResult>>

PassTime ==
  /\ elapsed' = Increment(elapsed, timeLimit)
  /\ left' = [c \in Calls |-> IF left[c] > 0 THEN left[c] - 1 ELSE 0]
  /\ UNCHANGED <<limits, stage, currentIteration, currentResult, result>>
=============================================================================
