------------------------------ MODULE EventPoll ------------------------------
(***************************************************************************)
(* The asynchronous poll of the network package,                           *)
(* packages/network/src/utils/poll/event.ts.                               *)
(*                                                                         *)
(* startListen runs one activation of _intervalLoop at once and asks the   *)
(* runtime for an interval only when that first activation has settled;    *)
(* from then on every interval expiry runs another activation, whether or  *)
(* not the previous ones have settled.  An activation is a JavaScript      *)
(* async call: it is suspended in `await this.pollingFunction()' between   *)
(* the action that begins it and the action that resumes it, and runs to   *)
(* completion in each of them.  The `.then' reaction that creates the      *)
(* interval follows the first activation in the same microtask queue and   *)
(* is part of the action that resumes it.                                  *)
(*                                                                         *)
(* The module has a set of EventPoll objects, so that the modules of the   *)
(* components that own polls can extend it.                                *)
(***************************************************************************)
EXTENDS Naturals

CONSTANTS
  Polls,          \* the EventPoll objects
  Loops,          \* room for activations of _intervalLoop in progress; bounds their overlap
  Timers,         \* handles setInterval can return
  StopOnError,    \* the polls built with hasToStopOnError
  ErrorListened,  \* the polls with a listener of the 'error' event
  MaxIterations,  \* where the model's counter of iterations stays; the code's has no limit
  MaxStarts,      \* how often the owner calls startListen on one poll
  NoPoll,         \* no poll: a cleared interval, a free loop
  NoTimer         \* the initial, undefined, intervalId

ASSUME PollAssumption ==
  /\ StopOnError \subseteq Polls
  /\ ErrorListened \subseteq Polls
  /\ NoPoll \notin Polls
  /\ NoTimer \notin Timers
  /\ MaxIterations \in Nat
  /\ MaxStarts \in Nat

VARIABLES
  currentIteration, \* the counter of each poll
  intervalId,       \* the field of each poll: the last handle setInterval gave it
  timers,           \* the runtime's live intervals: the poll each one runs, or NoPoll
  loops,            \* the activations in progress: their poll, and whether startListen made them
  error,            \* the polls whose field error is set
  unhandled,        \* the polls whose activation rejected with nobody handling it
  starts,           \* history: how often startListen was called
  stopped           \* history: the polls whose last listening call was stopListen

pollVars == <<currentIteration, intervalId, timers, loops, error, unhandled, starts, stopped>>

Idle == [poll |-> NoPoll, first |-> FALSE]

LoopsOf(p)  == {l \in Loops : loops[l].poll = p}
TimersOf(p) == {t \in Timers : timers[t] = p}

\* A handle that neither runs nor is held by a poll.  The runtime never gives
\* the same handle twice; only forgotten ones are used again here.
FreshTimers == {t \in Timers : timers[t] = NoPoll /\ \A p \in Polls : intervalId[p] # t}

PollTypeOK ==
  /\ currentIteration \in [Polls -> 0 .. MaxIterations]
  /\ intervalId \in [Polls -> Timers \union {NoTimer}]
  /\ timers \in [Timers -> Polls \union {NoPoll}]
  /\ loops \in [Loops -> [poll : Polls \union {NoPoll}, first : BOOLEAN]]
  /\ error \subseteq Polls
  /\ unhandled \subseteq Polls
  /\ starts \in [Polls -> 0 .. MaxStarts]
  /\ stopped \subseteq Polls

PollInit ==
  /\ currentIteration = [p \in Polls |-> 0]
  /\ intervalId = [p \in Polls |-> NoTimer]
  /\ timers = [t \in Timers |-> NoPoll]
  /\ loops = [l \in Loops |-> Idle]
  /\ error = {}
  /\ unhandled = {}
  /\ starts = [p \in Polls |-> 0]
  /\ stopped = {}

-----------------------------------------------------------------------------
(***************************************************************************)
(* The steps of the object.  An owner adds to Begin, Deliver, Fail and     *)
(* Reject what its polling function and its listeners do.                  *)
(***************************************************************************)

\* _intervalLoop is called and reaches `await this.pollingFunction()'.
Begin(p, l, first) ==
  /\ loops[l] = Idle
  /\ loops' = [loops EXCEPT ![l] = [poll |-> p, first |-> first]]

StartListen(p, l) ==
  /\ starts[p] < MaxStarts
  /\ Begin(p, l, TRUE)
  /\ starts' = [starts EXCEPT ![p] = @ + 1]
  /\ stopped' = stopped \ {p}
  /\ UNCHANGED <<currentIteration, intervalId, timers, error, unhandled>>

\* Mutant of ClearInterval: the handle is not cleared.
ForgetInterval(id) == [t \in Timers |-> timers[t]]

\* clearInterval: clearing an undefined or a dead handle does nothing.
ClearInterval(id) == [t \in Timers |-> IF t = id THEN NoPoll ELSE timers[t]]

\* stopListen leaves the field intervalId as it is.
StopListen(p) ==
  /\ timers' = ClearInterval(intervalId[p])
  /\ stopped' = stopped \union {p}
  /\ UNCHANGED <<currentIteration, intervalId, loops, error, unhandled, starts>>

\* An interval expires.
Tick(t, l) ==
  /\ timers[t] # NoPoll
  /\ Begin(timers[t], l, FALSE)
  /\ UNCHANGED <<currentIteration, intervalId, timers, error, unhandled, starts, stopped>>

\* setInterval in the `.then' of startListen; `live' are the intervals
\* after what the activation itself did.
SetInterval(p, live) ==
  \E t \in FreshTimers :
    /\ intervalId' = [intervalId EXCEPT ![p] = t]
    /\ timers' = [live EXCEPT ![t] = p]

Increment(n) == IF n < MaxIterations THEN n + 1 ELSE n

\* Mutant of Settle: every activation asks for an interval, not only the first.
SettleRearming(l, stop) ==
  LET p    == loops[l].poll
      live == IF stop THEN ClearInterval(intervalId[p]) ELSE timers
  IN  /\ currentIteration' = [currentIteration EXCEPT ![p] = Increment(@)]
      /\ loops' = [loops EXCEPT ![l] = Idle]
      /\ stopped' = IF stop THEN stopped \union {p} ELSE stopped
      /\ SetInterval(p, live)
      /\ UNCHANGED <<unhandled, starts>>

\* Mutant of Settle: a stop during the first activation is honoured.
SettleStopping(l, stop) ==
  LET p    == loops[l].poll
      live == IF stop THEN ClearInterval(intervalId[p]) ELSE timers
  IN  /\ currentIteration' = [currentIteration EXCEPT ![p] = Increment(@)]
      /\ loops' = [loops EXCEPT ![l] = Idle]
      /\ stopped' = IF stop THEN stopped \union {p} ELSE stopped
      /\ \/ loops[l].first /\ ~stop /\ SetInterval(p, live)
         \/ (~loops[l].first \/ stop) /\ timers' = live /\ UNCHANGED intervalId
      /\ UNCHANGED <<unhandled, starts>>

\* The end of an activation that does not reject; `stop' tells whether
\* stopListen was called on the way, by a listener or for an error.
Settle(l, stop) ==
  LET p    == loops[l].poll
      live == IF stop THEN ClearInterval(intervalId[p]) ELSE timers
  IN  /\ currentIteration' = [currentIteration EXCEPT ![p] = Increment(@)]
      /\ loops' = [loops EXCEPT ![l] = Idle]
      /\ stopped' = IF stop THEN stopped \union {p} ELSE stopped
      /\ \/ loops[l].first /\ SetInterval(p, live)
         \/ ~loops[l].first /\ timers' = live /\ UNCHANGED intervalId
      /\ UNCHANGED <<unhandled, starts>>

\* The polling function gave data; its listener may stop the poll.
Deliver(l, stop) ==
  /\ loops[l].poll # NoPoll
  /\ Settle(l, stop)
  /\ UNCHANGED error

\* Mutant of Fail: an error in the first activation leaves the poll without interval.
FailUnarmed(l) ==
  /\ loops[l].poll \in ErrorListened
  /\ error' = error \union {loops[l].poll}
  /\ loops' = [loops EXCEPT ![l] = Idle]
  /\ UNCHANGED <<currentIteration, intervalId, timers, unhandled, starts, stopped>>

\* The polling function, or a listener of the data, threw; the error has a listener.
Fail(l) ==
  /\ loops[l].poll \in ErrorListened
  /\ error' = error \union {loops[l].poll}
  /\ Settle(l, loops[l].poll \in StopOnError)

\* The same without a listener: emit('error') itself throws, and nothing
\* after it in _intervalLoop, nor the `.then' of startListen, is executed.
Reject(l) ==
  /\ loops[l].poll \in Polls \ ErrorListened
  /\ loops' = [loops EXCEPT ![l] = Idle]
  /\ error' = error \union {loops[l].poll}
  /\ unhandled' = unhandled \union {loops[l].poll}
  /\ UNCHANGED <<currentIteration, intervalId, timers, starts, stopped>>

-----------------------------------------------------------------------------
(***************************************************************************)
(* Polls alone, with owners that call startListen and stopListen at will.  *)
(***************************************************************************)
Resume(l) ==
  \/ \E stop \in BOOLEAN : Deliver(l, stop)
  \/ Fail(l)
  \/ Reject(l)

PollNext ==
  \/ \E p \in Polls : \E l \in Loops : StartListen(p, l)
  \/ \E p \in Polls : StopListen(p)
  \/ \E t \in Timers : \E l \in Loops : Tick(t, l)
  \/ \E l \in Loops : Resume(l)

PollSpec == PollInit /\ [][PollNext]_pollVars

\* The runtime fires live intervals, and every polling function settles:
\* each of the package ends in a request, which ends (HttpRequests) if the node,
\* once it has begun a response, completes it.  The fairness of the intervals is
\* strong because they compete in the model for the room in Loops, which the
\* runtime does not limit.
PollFairness ==
  /\ \A t \in Timers : SF_pollVars(\E l \in Loops : Tick(t, l))
  /\ \A l \in Loops : WF_pollVars(Resume(l))

FairPollSpec == PollSpec /\ PollFairness

-----------------------------------------------------------------------------
\* p begins an activation that an interval asked for.
BeginsPolling(p) == \E l \in Loops : loops[l] = Idle /\ loops'[l] = [poll |-> p, first |-> FALSE]

\* An owner that starts a poll once never has two intervals running for it, and
\* the one that runs is the one its stopListen would clear.
SingleInterval ==
  \A t \in Timers : timers[t] # NoPoll => intervalId[timers[t]] = t

\* Why it holds: a first activation is the only one of its poll, which has no
\* interval yet, and a poll that was not started has neither.
FirstIsAlone ==
  \A l \in Loops :
    loops[l].first => /\ loops[l].poll \in Polls
                      /\ intervalId[loops[l].poll] = NoTimer
                      /\ \A m \in Loops : loops[m].poll = loops[l].poll => m = l

UnstartedIsIdle ==
  \A p \in Polls :
    starts[p] = 0 => intervalId[p] = NoTimer /\ \A l \in Loops : loops[l].poll # p

PollInv == PollTypeOK /\ SingleInterval /\ FirstIsAlone /\ UnstartedIsIdle

\* stopListen is called: by the owner of p, by a listener of its data, or for an error.
Stops(p) ==
  \/ StopListen(p)
  \/ \E l \in LoopsOf(p) : Deliver(l, TRUE) \/ (p \in StopOnError /\ Fail(l))

\* Once the first activation of a poll that is started once has settled, a
\* stopListen takes its interval away for good: no later step gives it another.
StopIsFinal ==
  [][\A p \in Polls :
       intervalId[p] # NoTimer /\ (Stops(p) \/ TimersOf(p) = {}) => TimersOf(p)' = {}]_pollVars

\* What stopListen says ("Stop listening to the event", event.ts:243): a
\* stopped poll runs its polling function no more.
StopListens == [][\A p \in stopped : ~BeginsPolling(p)]_pollVars

\* A poll that was started goes on polling, through errors too, unless it is
\* stopped or one of its activations rejects unhandled.
KeepsPolling ==
  \A p \in Polls :
    starts[p] > 0 ~> \/ currentIteration[p] = MaxIterations
                     \/ p \in stopped \union unhandled
=============================================================================
