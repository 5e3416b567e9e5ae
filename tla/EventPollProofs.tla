--------------------------- MODULE EventPollProofs ---------------------------
(***************************************************************************)
(* What every poll that is started at most once guarantees, for any number *)
(* of polls, overlapping activations and timers.                           *)
(***************************************************************************)
EXTENDS EventPoll, TLAPS

\* At rest the inductive invariant holds.
LEMMA PollInitInv == PollInit => PollInv
<1> SUFFICES ASSUME PollInit PROVE PollInv
  OBVIOUS
<1> USE PollAssumption DEF PollInit, Idle
<1>1. PollTypeOK
  BY DEF PollTypeOK
<1>2. SingleInterval
  BY DEF SingleInterval
<1>3. FirstIsAlone
  BY DEF FirstIsAlone
<1>4. UnstartedIsIdle
  BY DEF UnstartedIsIdle
<1> QED
  BY <1>1, <1>2, <1>3, <1>4 DEF PollInv

\* Beginning an activation in a free loop, as startListen and an interval do.
LEMMA BeginTypeOK ==
  ASSUME PollTypeOK, NEW p \in Polls, NEW l \in Loops, NEW first \in BOOLEAN, Begin(p, l, first)
  PROVE  /\ loops' \in [Loops -> [poll : Polls \union {NoPoll}, first : BOOLEAN]]
         /\ loops[l] = Idle
         /\ loops'[l] = [poll |-> p, first |-> first]
         /\ \A m \in Loops \ {l} : loops'[m] = loops[m]
BY DEF Begin, PollTypeOK

\* startListen preserves the invariant: a poll that is started for the first
\* time has no activation that its first one could meet.
LEMMA StartListenInv ==
  ASSUME PollInv, MaxStarts = 1, NEW p \in Polls, NEW l \in Loops, StartListen(p, l)
  PROVE  PollInv'
<1> USE PollAssumption
<1>t. PollTypeOK
  BY DEF PollInv
<1>1. starts[p] \in 0 .. 1 /\ starts[p] < 1
  BY <1>t DEF StartListen, PollTypeOK
<1>2. starts[p] = 0
  BY <1>1
<1>3. starts' = [starts EXCEPT ![p] = 1]
  BY <1>2 DEF StartListen
<1>4. /\ UNCHANGED <<currentIteration, intervalId, timers, error, unhandled>>
      /\ stopped' = stopped \ {p}
  BY DEF StartListen
<1>5. /\ loops' \in [Loops -> [poll : Polls \union {NoPoll}, first : BOOLEAN]]
      /\ loops[l] = Idle
      /\ loops'[l] = [poll |-> p, first |-> TRUE]
      /\ \A m \in Loops \ {l} : loops'[m] = loops[m]
  BY <1>t, BeginTypeOK DEF StartListen
<1>6. intervalId[p] = NoTimer /\ \A m \in Loops : loops[m].poll # p
  BY <1>2 DEF PollInv, UnstartedIsIdle
<1>7. PollTypeOK'
  BY <1>t, <1>3, <1>4, <1>5 DEF PollTypeOK
<1>8. SingleInterval'
  BY <1>4 DEF PollInv, SingleInterval
<1>9. FirstIsAlone'
  BY <1>4, <1>5, <1>6 DEF PollInv, FirstIsAlone
<1>10. UnstartedIsIdle'
  BY <1>t, <1>3, <1>4, <1>5 DEF PollInv, UnstartedIsIdle, PollTypeOK
<1> QED
  BY <1>7, <1>8, <1>9, <1>10 DEF PollInv

\* stopListen only takes intervals away.
LEMMA StopListenInv ==
  ASSUME PollInv, NEW p \in Polls, StopListen(p)
  PROVE  PollInv'
<1> USE PollAssumption DEF StopListen, ClearInterval, PollInv
<1>1. PollTypeOK'
  BY DEF PollTypeOK
<1>2. SingleInterval'
  BY DEF SingleInterval
<1>3. FirstIsAlone' /\ UnstartedIsIdle'
  BY DEF FirstIsAlone, UnstartedIsIdle
<1> QED
  BY <1>1, <1>2, <1>3

\* An interval expires: its poll was armed, so none of its activations is a first one.
LEMMA TickInv ==
  ASSUME PollInv, NEW t \in Timers, NEW l \in Loops, Tick(t, l)
  PROVE  PollInv'
<1> USE PollAssumption
<1> DEFINE p == timers[t]
<1>t. PollTypeOK /\ p \in Polls
  BY DEF PollInv, PollTypeOK, Tick
<1>1. /\ loops' \in [Loops -> [poll : Polls \union {NoPoll}, first : BOOLEAN]]
      /\ loops[l] = Idle
      /\ loops'[l] = [poll |-> p, first |-> FALSE]
      /\ \A m \in Loops \ {l} : loops'[m] = loops[m]
  BY <1>t, BeginTypeOK DEF Tick
<1>2. UNCHANGED <<currentIteration, intervalId, timers, error, unhandled, starts, stopped>>
  BY DEF Tick
<1>3. intervalId[p] # NoTimer
  BY <1>t DEF PollInv, SingleInterval, Tick
<1>4. PollTypeOK'
  BY <1>t, <1>1, <1>2 DEF PollTypeOK
<1>5. SingleInterval'
  BY <1>2 DEF PollInv, SingleInterval
<1>6. FirstIsAlone'
  BY <1>1, <1>2, <1>3 DEF PollInv, FirstIsAlone
<1>7. UnstartedIsIdle'
  BY <1>t, <1>1, <1>2, <1>3 DEF PollInv, UnstartedIsIdle
<1> QED
  BY <1>4, <1>5, <1>6, <1>7 DEF PollInv

\* The end of an activation.  Only the first one of a poll asks for an interval,
\* and the handle it is given is held by no other poll.
LEMMA SettleInv ==
  ASSUME PollInv, NEW l \in Loops, loops[l].poll \in Polls, NEW stop \in BOOLEAN, Settle(l, stop),
         error' \subseteq Polls
  PROVE  PollInv'
<1> USE PollAssumption
<1> DEFINE p    == loops[l].poll
           live == IF stop THEN ClearInterval(intervalId[p]) ELSE timers
<1>t. PollTypeOK /\ p \in Polls
  BY DEF PollInv
<1>1. /\ currentIteration' = [currentIteration EXCEPT ![p] = Increment(@)]
      /\ loops' = [loops EXCEPT ![l] = Idle]
      /\ stopped' = IF stop THEN stopped \union {p} ELSE stopped
      /\ UNCHANGED <<unhandled, starts>>
      /\ \/ loops[l].first /\ SetInterval(p, live)
         \/ ~loops[l].first /\ timers' = live /\ UNCHANGED intervalId
  BY DEF Settle
<1>2. /\ loops' \in [Loops -> [poll : Polls \union {NoPoll}, first : BOOLEAN]]
      /\ loops'[l] = Idle
      /\ \A m \in Loops \ {l} : loops'[m] = loops[m]
      /\ currentIteration' \in [Polls -> 0 .. MaxIterations]
  BY <1>t, <1>1 DEF PollTypeOK, Idle, Increment
<1>3. /\ live \in [Timers -> Polls \union {NoPoll}]
      /\ \A t \in Timers : live[t] # NoPoll => live[t] = timers[t]
  BY <1>t DEF PollTypeOK, ClearInterval
<1>4. CASE ~loops[l].first
  <2>1. timers' = live /\ UNCHANGED intervalId
    BY <1>1, <1>4
  <2>2. PollTypeOK'
    BY <1>t, <1>1, <1>2, <1>3, <2>1 DEF PollTypeOK
  <2>3. SingleInterval'
    BY <1>3, <2>1 DEF PollInv, SingleInterval
  <2>4. FirstIsAlone'
    BY <1>2, <2>1 DEF PollInv, FirstIsAlone, Idle
  <2>5. UnstartedIsIdle'
    BY <1>1, <1>2, <2>1 DEF PollInv, UnstartedIsIdle, Idle
  <2> QED
    BY <2>2, <2>3, <2>4, <2>5 DEF PollInv
<1>5. CASE loops[l].first
  <2>1. PICK t \in FreshTimers : /\ intervalId' = [intervalId EXCEPT ![p] = t]
                                 /\ timers' = [live EXCEPT ![t] = p]
    BY <1>1, <1>5 DEF SetInterval
  <2>2. t \in Timers /\ timers[t] = NoPoll /\ \A q \in Polls : intervalId[q] # t
    BY DEF FreshTimers
  <2>3. intervalId[p] = NoTimer /\ \A m \in Loops : loops[m].poll = p => m = l
    BY <1>5 DEF PollInv, FirstIsAlone
  <2>4. starts[p] # 0
    BY <1>t DEF PollInv, UnstartedIsIdle
  <2>5. PollTypeOK'
    BY <1>t, <1>1, <1>2, <1>3, <2>1, <2>2 DEF PollTypeOK
  <2>6. SingleInterval'
    <3> SUFFICES ASSUME NEW u \in Timers, timers'[u] # NoPoll
                 PROVE  intervalId'[timers'[u]] = u
      BY DEF SingleInterval
    <3>1. CASE u = t
      BY <3>1, <1>t, <1>3, <2>1, <2>2 DEF PollTypeOK
    <3>2. CASE u # t
      <4>1. timers'[u] = timers[u] /\ intervalId[timers[u]] = u
        BY <3>2, <1>3, <2>1, <2>2 DEF PollInv, SingleInterval
      <4>2. timers[u] # p
        BY <4>1, <2>3
      <4> QED
        BY <4>1, <4>2, <1>t, <2>1 DEF PollTypeOK
    <3> QED
      BY <3>1, <3>2
  <2>7. FirstIsAlone'
    <3> SUFFICES ASSUME NEW m \in Loops, loops'[m].first
                 PROVE  /\ loops'[m].poll \in Polls
                        /\ intervalId'[loops'[m].poll] = NoTimer
                        /\ \A k \in Loops : loops'[k].poll = loops'[m].poll => k = m
      BY DEF FirstIsAlone
    <3>1. m # l /\ loops'[m] = loops[m]
      BY <1>2 DEF Idle
    <3>2. /\ loops[m].poll \in Polls
          /\ intervalId[loops[m].poll] = NoTimer
          /\ \A k \in Loops : loops[k].poll = loops[m].poll => k = m
      BY <3>1 DEF PollInv, FirstIsAlone
    <3>3. loops[m].poll # p
      BY <3>1, <2>3
    <3> QED
      BY <3>1, <3>2, <3>3, <1>t, <1>2, <2>1 DEF PollTypeOK, Idle
  <2>8. UnstartedIsIdle'
    <3> SUFFICES ASSUME NEW q \in Polls, starts'[q] = 0
                 PROVE  intervalId'[q] = NoTimer /\ \A m \in Loops : loops'[m].poll # q
      BY DEF UnstartedIsIdle
    <3>1. starts[q] = 0 /\ q # p
      BY <1>1, <2>4
    <3>2. intervalId[q] = NoTimer /\ \A m \in Loops : loops[m].poll # q
      BY <3>1 DEF PollInv, UnstartedIsIdle
    <3> QED
      BY <3>1, <3>2, <1>t, <1>2, <2>1 DEF PollTypeOK, Idle
  <2> QED
    BY <2>5, <2>6, <2>7, <2>8 DEF PollInv
<1> QED
  BY <1>4, <1>5

\* A rejection ends an activation and changes nothing else of the poll.
LEMMA RejectInv ==
  ASSUME PollInv, NEW l \in Loops, Reject(l)
  PROVE  PollInv'
<1> USE PollAssumption DEF Reject, Idle
<1>t. PollTypeOK
  BY DEF PollInv
<1>1. /\ loops' \in [Loops -> [poll : Polls \union {NoPoll}, first : BOOLEAN]]
      /\ loops'[l] = Idle
      /\ \A m \in Loops \ {l} : loops'[m] = loops[m]
  BY <1>t DEF PollTypeOK
<1>2. PollTypeOK'
  BY <1>t, <1>1 DEF PollTypeOK
<1>3. SingleInterval'
  BY DEF PollInv, SingleInterval
<1>4. FirstIsAlone'
  BY <1>1 DEF PollInv, FirstIsAlone
<1>5. UnstartedIsIdle'
  BY <1>1 DEF PollInv, UnstartedIsIdle
<1> QED
  BY <1>2, <1>3, <1>4, <1>5 DEF PollInv

\* An activation that is resumed rejects, or settles with or without a stop.
LEMMA ResumeCases ==
  ASSUME PollTypeOK, NEW l \in Loops, Resume(l), ~Reject(l)
  PROVE  /\ loops[l].poll \in Polls
         /\ error' \subseteq Polls
         /\ \E stop \in BOOLEAN : Settle(l, stop)
<1>1. CASE \E stop \in BOOLEAN : Deliver(l, stop)
  BY <1>1 DEF Deliver, PollTypeOK
<1>2. CASE Fail(l)
  <2> DEFINE stop == loops[l].poll \in StopOnError
  <2>1. Settle(l, stop) /\ stop \in BOOLEAN
    BY <1>2 DEF Fail
  <2>2. loops[l].poll \in Polls /\ error' \subseteq Polls
    BY <1>2, PollAssumption DEF Fail, PollTypeOK
  <2> HIDE DEF stop
  <2> QED
    BY <2>1, <2>2
<1> QED
  BY <1>1, <1>2 DEF Resume

LEMMA ResumeInv ==
  ASSUME PollInv, NEW l \in Loops, Resume(l)
  PROVE  PollInv'
<1>1. CASE Reject(l)
  BY <1>1, RejectInv
<1>2. CASE ~Reject(l)
  BY <1>2, ResumeCases, SettleInv DEF PollInv
<1> QED
  BY <1>1, <1>2

\* Every step of the polls, and every step that leaves them alone, preserves it.
LEMMA PollStepInv ==
  ASSUME PollInv, MaxStarts = 1, [PollNext]_pollVars
  PROVE  PollInv'
<1>1. ASSUME NEW p \in Polls, NEW l \in Loops, StartListen(p, l) PROVE PollInv'
  BY <1>1, StartListenInv
<1>2. ASSUME NEW p \in Polls, StopListen(p) PROVE PollInv'
  BY <1>2, StopListenInv
<1>3. ASSUME NEW t \in Timers, NEW l \in Loops, Tick(t, l) PROVE PollInv'
  BY <1>3, TickInv
<1>4. ASSUME NEW l \in Loops, Resume(l) PROVE PollInv'
  BY <1>4, ResumeInv
<1>5. ASSUME UNCHANGED pollVars PROVE PollInv'
  BY <1>5 DEF pollVars, PollInv, PollTypeOK, SingleInterval, FirstIsAlone, UnstartedIsIdle
<1> QED
  BY <1>1, <1>2, <1>3, <1>4, <1>5 DEF PollNext

\* Polls that are started at most once keep the invariant, and with it the
\* rule that the only interval of a poll is the one stopListen clears.
THEOREM PollCorrect ==
  ASSUME MaxStarts = 1
  PROVE  PollSpec => []PollInv
<1>1. PollInit => PollInv
  BY PollInitInv
<1>2. PollInv /\ [PollNext]_pollVars => PollInv'
  BY PollStepInv
<1> QED
  BY <1>1, <1>2, PTL DEF PollSpec

-----------------------------------------------------------------------------
\* Ending an activation of an armed poll gives no poll's interval to it.
LEMMA SettleArmed ==
  ASSUME PollInv, NEW l \in Loops, loops[l].poll \in Polls, NEW stop \in BOOLEAN, Settle(l, stop),
         NEW p \in Polls, intervalId[p] # NoTimer
  PROVE  /\ \A t \in Timers : timers'[t] = p => timers[t] = p
         /\ stop /\ loops[l].poll = p => TimersOf(p)' = {}
<1> USE PollAssumption
<1> DEFINE q    == loops[l].poll
           live == IF stop THEN ClearInterval(intervalId[q]) ELSE timers
<1>t. PollTypeOK
  BY DEF PollInv
<1>1. /\ live \in [Timers -> Polls \union {NoPoll}]
      /\ \A t \in Timers : live[t] = p => timers[t] = p
      /\ stop => \A t \in Timers : live[t] = q => timers[t] = q /\ t # intervalId[q]
  BY <1>t DEF PollTypeOK, ClearInterval
<1>2. stop => \A t \in Timers : live[t] # q
  BY <1>1 DEF PollInv, SingleInterval
<1>3. CASE ~loops[l].first
  <2>1. timers' = live
    BY <1>3 DEF Settle
  <2> QED
    BY <2>1, <1>1, <1>2 DEF TimersOf
<1>4. CASE loops[l].first
  <2>1. q # p
    BY <1>4 DEF PollInv, FirstIsAlone
  <2>2. PICK t \in FreshTimers : timers' = [live EXCEPT ![t] = q]
    BY <1>4 DEF Settle, SetInterval
  <2>3. \A u \in Timers : timers'[u] = p => live[u] = p
    BY <1>1, <2>1, <2>2 DEF FreshTimers
  <2> QED
    BY <1>1, <2>1, <2>3
<1> QED
  BY <1>3, <1>4

\* No step gives an interval to a poll that is armed and has none.
LEMMA SilenceLasts ==
  ASSUME PollInv, MaxStarts = 1, [PollNext]_pollVars,
         NEW p \in Polls, intervalId[p] # NoTimer, TimersOf(p) = {}
  PROVE  TimersOf(p)' = {}
<1> SUFFICES \A t \in Timers : timers'[t] = p => timers[t] = p
  BY DEF TimersOf
<1>1. ASSUME NEW q \in Polls, NEW l \in Loops, StartListen(q, l)
      PROVE  \A t \in Timers : timers'[t] = p => timers[t] = p
  BY <1>1 DEF StartListen
<1>2. ASSUME NEW q \in Polls, StopListen(q)
      PROVE  \A t \in Timers : timers'[t] = p => timers[t] = p
  BY <1>2, PollAssumption DEF StopListen, ClearInterval
<1>3. ASSUME NEW u \in Timers, NEW l \in Loops, Tick(u, l)
      PROVE  \A t \in Timers : timers'[t] = p => timers[t] = p
  BY <1>3 DEF Tick
<1>4. ASSUME NEW l \in Loops, Resume(l)
      PROVE  \A t \in Timers : timers'[t] = p => timers[t] = p
  <2>1. CASE Reject(l)
    BY <2>1 DEF Reject
  <2>2. CASE ~Reject(l)
    BY <1>4, <2>2, ResumeCases, SettleArmed DEF PollInv
  <2> QED
    BY <2>1, <2>2
<1>5. ASSUME UNCHANGED pollVars
      PROVE  \A t \in Timers : timers'[t] = p => timers[t] = p
  BY <1>5 DEF pollVars
<1> QED
  BY <1>1, <1>2, <1>3, <1>4, <1>5 DEF PollNext

\* A stopListen of an armed poll takes its interval away.
LEMMA StopSilences ==
  ASSUME PollInv, NEW p \in Polls, intervalId[p] # NoTimer, Stops(p)
  PROVE  TimersOf(p)' = {}
<1>1. CASE StopListen(p)
  BY <1>1, PollAssumption DEF StopListen, ClearInterval, TimersOf, PollInv, PollTypeOK, SingleInterval
<1>2. CASE \E l \in LoopsOf(p) : Deliver(l, TRUE) \/ (p \in StopOnError /\ Fail(l))
  <2>1. PICK l \in Loops : loops[l].poll = p /\ Settle(l, TRUE)
    BY <1>2 DEF LoopsOf, Deliver, Fail
  <2> QED
    BY <2>1, SettleArmed
<1> QED
  BY <1>1, <1>2 DEF Stops

\* The property itself: once its first activation has settled, stopping a poll
\* that is started once is final.
THEOREM StopFinal ==
  ASSUME MaxStarts = 1
  PROVE  PollSpec => StopIsFinal
<1>1. PollInv /\ [PollNext]_pollVars
        => [\A p \in Polls :
              intervalId[p] # NoTimer /\ (Stops(p) \/ TimersOf(p) = {})
                => TimersOf(p)' = {}]_pollVars
  BY SilenceLasts, StopSilences
<1> QED
  BY <1>1, PollCorrect, PTL DEF PollSpec, StopIsFinal
=============================================================================
