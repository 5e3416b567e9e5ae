------------------------------ MODULE ThorProofs ------------------------------
(***************************************************************************)
(* What ThorClient guarantees, for every node, chain and trunk, whatever   *)
(* is called and however the requests end: the head that it tracks, the    *)
(* timers of its requests, the names that it resolves, the callers of the  *)
(* reads of a contract, the reasons of reverts and the logs of a filter.   *)
(***************************************************************************)
EXTENDS HeadTracker, Contracts, EventPollProofs, FiniteSetTheorems, WellFoundedInduction

-----------------------------------------------------------------------------
(***************************************************************************)
(* The head.                                                               *)
(***************************************************************************)
\* Every step of the module is a step of its poll, or leaves it alone.
LEMMA StepUsesPoll == [Next]_vars => [PollNext]_pollVars
<1> SUFFICES ASSUME [Next]_vars PROVE [PollNext]_pollVars
  OBVIOUS
<1> USE HeadAssumption
<1>1. ASSUME NEW l \in Loops, SetupPolling(l) PROVE PollNext
  BY <1>1 DEF SetupPolling, PollNext
<1>2. ASSUME NEW l \in Loops, Answer(l) \/ Lose(l) PROVE UNCHANGED pollVars
  BY <1>2 DEF Answer, Lose
<1>3. ASSUME NEW l \in Loops, OnData(l) PROVE PollNext
  BY <1>3 DEF OnData, PollNext, Resume
<1>4. ASSUME NEW l \in Loops, OnError(l) PROVE PollNext
  BY <1>4 DEF OnError, PollNext, Resume
<1>5. ASSUME NEW t \in Timers, NEW l \in Loops, PollHead(t, l) PROVE PollNext
  BY <1>5 DEF PollHead, PollNext
<1>6. ASSUME Destroy PROVE PollNext
  BY <1>6 DEF Destroy, PollNext
<1>7. ASSUME NewBlock PROVE UNCHANGED pollVars
  BY <1>7 DEF NewBlock
<1>8. ASSUME UNCHANGED vars PROVE UNCHANGED pollVars
  BY <1>8 DEF vars
<1> QED
  BY <1>1, <1>2, <1>3, <1>4, <1>5, <1>6, <1>7, <1>8 DEF Next

\* What holds of a poll whatever its owner does holds of this one.
LEMMA HeadPolls == Spec => PollSpec
<1>1. Init => PollInit
  BY DEF Init
<1> QED
  BY <1>1, StepUsesPoll, PTL DEF Spec, PollSpec

\* Once the first activation has settled, destroy stops the polling of the head
\* for good.
THEOREM HeadStopFinal == Spec => StopIsFinal
<1>1. MaxStarts = 1
  BY HeadAssumption
<1> QED
  BY <1>1, HeadPolls, StopFinal, PTL

-----------------------------------------------------------------------------
\* Type correctness: no failure is ever kept as a head, and no reply outlives
\* the activation it belongs to as something else.
LEMMA HeadTypeStep == HeadTypeOK /\ [Next]_vars => HeadTypeOK'
<1> SUFFICES ASSUME HeadTypeOK, [Next]_vars PROVE HeadTypeOK'
  OBVIOUS
<1> USE HeadAssumption DEF HeadTypeOK, Blocks
<1>1. ASSUME NEW l \in Loops, SetupPolling(l) PROVE HeadTypeOK'
  BY <1>1 DEF SetupPolling
<1>2. ASSUME NEW l \in Loops, Answer(l) PROVE HeadTypeOK'
  BY <1>2 DEF Answer
<1>3. ASSUME NEW l \in Loops, Lose(l) PROVE HeadTypeOK'
  BY <1>3 DEF Lose
<1>4. ASSUME NEW l \in Loops, OnData(l) PROVE HeadTypeOK'
  BY <1>4 DEF OnData
<1>5. ASSUME NEW l \in Loops, OnError(l) PROVE HeadTypeOK'
  BY <1>5 DEF OnError
<1>6. ASSUME NEW t \in Timers, NEW l \in Loops, PollHead(t, l) PROVE HeadTypeOK'
  BY <1>6 DEF PollHead
<1>7. ASSUME Destroy PROVE HeadTypeOK'
  BY <1>7 DEF Destroy
<1>8. ASSUME NewBlock PROVE HeadTypeOK'
  BY <1>8 DEF NewBlock
<1>9. ASSUME UNCHANGED vars PROVE HeadTypeOK'
  BY <1>9 DEF vars, headVars
<1> QED
  BY <1>1, <1>2, <1>3, <1>4, <1>5, <1>6, <1>7, <1>8, <1>9 DEF Next

\* Type correctness of the module's state.
THEOREM HeadTypeCorrect == Spec => []HeadTypeOK
<1>1. ASSUME Init PROVE HeadTypeOK
  <2>1. best \in Blocks /\ failures \in 0 .. MaxFailures
    BY <1>1, HeadAssumption DEF Init, Blocks
  <2> QED
    BY <1>1, <2>1 DEF Init, HeadTypeOK
<1> QED
  BY <1>1, HeadTypeStep, PTL DEF Spec

-----------------------------------------------------------------------------
\* Why no answer is older than the head was when it was asked for: the head of
\* that moment came from the node earlier, and the node only moves on.
HeadIsBehind ==
  /\ headBlock # NoBlock => headBlock <= best
  /\ \A l \in Loops :
       /\ loops[l] = Idle => reply[l] = NoReply
       /\ since[l] # NoBlock => since[l] <= best
       /\ reply[l] \in Blocks =>
            reply[l] <= best /\ (since[l] # NoBlock => since[l] <= reply[l])

\* Every step keeps it.
LEMMA HeadIsBehindStep ==
  ASSUME PollTypeOK, HeadTypeOK, HeadIsBehind, [Next]_vars
  PROVE  HeadIsBehind'
<1> USE HeadAssumption DEF HeadTypeOK, HeadIsBehind, Blocks
<1>0. loops \in [Loops -> [poll : Polls \union {NoPoll}, first : BOOLEAN]]
  BY DEF PollTypeOK
<1>1. ASSUME NEW l \in Loops, SetupPolling(l) PROVE HeadIsBehind'
  <2>1. \A m \in Loops : loops'[m] = Idle => loops[m] = Idle /\ m # l
    BY <1>0, <1>1, PollAssumption DEF SetupPolling, StartListen, Begin, Idle
  <2> QED
    BY <1>1, <2>1 DEF SetupPolling
<1>2. ASSUME NEW l \in Loops, Answer(l) PROVE HeadIsBehind'
  BY <1>2 DEF Answer, pollVars
<1>3. ASSUME NEW l \in Loops, Lose(l) PROVE HeadIsBehind'
  BY <1>3 DEF Lose, pollVars
<1>4. ASSUME NEW l \in Loops, OnData(l) PROVE HeadIsBehind'
  <2>1. \A m \in Loops : loops'[m] = Idle => loops[m] = Idle \/ m = l
    BY <1>0, <1>4 DEF OnData, Deliver, Settle
  <2> QED
    BY <1>4, <2>1 DEF OnData
<1>5. ASSUME NEW l \in Loops, OnError(l) PROVE HeadIsBehind'
  <2>1. \A m \in Loops : loops'[m] = Idle => loops[m] = Idle \/ m = l
    BY <1>0, <1>5 DEF OnError, Fail, Settle
  <2> QED
    BY <1>5, <2>1 DEF OnError
<1>6. ASSUME NEW t \in Timers, NEW l \in Loops, PollHead(t, l) PROVE HeadIsBehind'
  <2>1. loops[l] = Idle
    BY <1>6 DEF PollHead, Tick, Begin
  <2>2. \A m \in Loops : loops'[m] = Idle => loops[m] = Idle
    BY <1>0, <1>6, PollAssumption DEF PollHead, Tick, Begin, Idle
  <2> QED
    BY <1>6, <2>1, <2>2 DEF PollHead
<1>7. ASSUME Destroy PROVE HeadIsBehind'
  BY <1>7 DEF Destroy, StopListen
<1>8. ASSUME NewBlock PROVE HeadIsBehind'
  BY <1>8 DEF NewBlock, pollVars
<1>9. ASSUME UNCHANGED vars PROVE HeadIsBehind'
  BY <1>9 DEF vars, headVars, pollVars
<1> QED
  BY <1>1, <1>2, <1>3, <1>4, <1>5, <1>6, <1>7, <1>8, <1>9 DEF Next

\* Only an answer moves the head: to where the answer is.
LEMMA HeadStep ==
  ASSUME PollTypeOK, HeadTypeOK, HeadIsBehind, [Next]_vars,
         NEW l \in Loops, loops[l] # Idle, loops'[l] = Idle,
         since[l] # NoBlock, headBlock' # headBlock
  PROVE  headBlock' \in since[l] .. best
<1> USE HeadAssumption DEF HeadTypeOK, HeadIsBehind, Blocks
<1>1. ASSUME NEW m \in Loops, OnData(m) PROVE headBlock' \in since[l] .. best
  <2>1. m = l
    BY <1>1 DEF OnData, Deliver, Settle, PollTypeOK
  <2> QED
    BY <1>1, <2>1 DEF OnData
<1>2. ASSUME NEW m \in Loops, SetupPolling(m) \/ Answer(m) \/ Lose(m) \/ OnError(m)
      PROVE  headBlock' = headBlock
  BY <1>2 DEF SetupPolling, Answer, Lose, OnError
<1>3. ASSUME NEW t \in Timers, NEW m \in Loops, PollHead(t, m) PROVE headBlock' = headBlock
  BY <1>3 DEF PollHead
<1>4. ASSUME Destroy \/ NewBlock \/ UNCHANGED vars PROVE headBlock' = headBlock
  BY <1>4 DEF Destroy, NewBlock, vars, headVars
<1> QED
  BY <1>1, <1>2, <1>3, <1>4 DEF Next

\* However many requests overlap, whatever fails and whenever the module is
\* destroyed, no answer takes the head back past where it was when the request
\* of the answer was sent.
THEOREM HeadNoOlderThanAsked == Spec => NoOlderThanAsked
<1>1. Init => HeadIsBehind
  BY HeadAssumption DEF Init, PollInit, HeadIsBehind, Blocks
<1>2. PollTypeOK /\ HeadTypeOK /\ HeadIsBehind /\ [Next]_vars => HeadIsBehind'
  BY HeadIsBehindStep
<1>3. PollTypeOK /\ HeadTypeOK /\ HeadIsBehind /\ [Next]_vars =>
        [\A l \in Loops :
           /\ loops[l] # Idle /\ loops'[l] = Idle
           /\ since[l] # NoBlock /\ headBlock' # headBlock
           => headBlock' \in since[l] .. best]_vars
  BY HeadStep
<1>4. Spec => []PollTypeOK
  <2>1. MaxStarts = 1
    BY HeadAssumption
  <2>2. PollInv => PollTypeOK
    BY DEF PollInv
  <2> QED
    BY <2>1, <2>2, HeadPolls, PollCorrect, PTL
<1> QED
  BY <1>1, <1>2, <1>3, <1>4, HeadTypeCorrect, PTL DEF Spec, NoOlderThanAsked

-----------------------------------------------------------------------------
\* Once it has an interval, the poll of the head loses it only to destroy or to a
\* request that failed: not to the failure of its first activation.
HeadPollLives ==
  intervalId[HeadPoll] # NoTimer =>
    \/ timers[intervalId[HeadPoll]] = HeadPoll
    \/ destroyed
    \/ failures > 0

\* A failure that is under way is that of the first activation or of a request.
FailuresAreCounted ==
  \A l \in Loops : loops[l] # Idle /\ reply[l] = Failed => loops[l].first \/ failures > 0

\* Every step keeps both.
LEMMA HeadPollStep ==
  ASSUME PollInv, HeadTypeOK, HeadIsBehind, FailuresAreCounted, HeadPollLives, [Next]_vars
  PROVE  FailuresAreCounted' /\ HeadPollLives'
<1> USE HeadAssumption DEF FailuresAreCounted, HeadPollLives
<1>0. /\ loops \in [Loops -> [poll : Polls \union {NoPoll}, first : BOOLEAN]]
      /\ intervalId \in [Polls -> Timers \union {NoTimer}]
      /\ timers \in [Timers -> Polls \union {NoPoll}]
      /\ reply \in [Loops -> Blocks \union {NoReply, Failed}]
      /\ failures \in Nat
      /\ \A l \in Loops : loops[l] = Idle => reply[l] = NoReply
  BY DEF PollInv, PollTypeOK, HeadTypeOK, HeadIsBehind
<1>1. ASSUME NEW l \in Loops, SetupPolling(l) PROVE FailuresAreCounted' /\ HeadPollLives'
  BY <1>0, <1>1 DEF SetupPolling, StartListen, Begin
<1>2. ASSUME NEW l \in Loops, Answer(l) PROVE FailuresAreCounted' /\ HeadPollLives'
  <2>1. best \in Nat /\ Failed \notin Nat
    BY DEF HeadTypeOK, Blocks
  <2> QED
    BY <1>0, <1>2, <2>1 DEF Answer, pollVars
<1>3. ASSUME NEW l \in Loops, Lose(l) PROVE FailuresAreCounted' /\ HeadPollLives'
  BY <1>0, <1>3 DEF Lose, pollVars
<1>4. ASSUME NEW l \in Loops, NEW stop \in BOOLEAN, Settle(l, stop), loops[l] # Idle,
             reply' = [reply EXCEPT ![l] = NoReply], UNCHANGED <<failures, destroyed>>,
             stop /\ ~loops[l].first => failures > 0
      PROVE  FailuresAreCounted' /\ HeadPollLives'
  <2>1. loops[l].poll = HeadPoll
    BY <1>0, <1>4 DEF Idle, PollInv, FirstIsAlone
  <2>2. CASE loops[l].first
    <3>1. intervalId[HeadPoll] = NoTimer
      BY <2>1, <2>2 DEF PollInv, FirstIsAlone
    <3>2. PICK t \in Timers : intervalId'[HeadPoll] = t /\ timers'[t] = HeadPoll
      BY <1>0, <1>4, <2>1, <2>2 DEF Settle, SetInterval, FreshTimers, ClearInterval
    <3> QED
      BY <1>0, <1>4, <3>2 DEF Settle, Idle
  <2>3. CASE ~loops[l].first
    BY <1>0, <1>4, <2>1, <2>3 DEF Settle, Idle
  <2> QED
    BY <2>2, <2>3
<1>5. ASSUME NEW l \in Loops, OnData(l) PROVE FailuresAreCounted' /\ HeadPollLives'
  BY <1>4, <1>5 DEF OnData, Deliver
<1>6. ASSUME NEW l \in Loops, OnError(l) PROVE FailuresAreCounted' /\ HeadPollLives'
  <2> DEFINE stop == loops[l].poll \in StopOnError
  <2>1. stop \in BOOLEAN /\ (stop /\ ~loops[l].first => failures > 0)
    BY <1>6 DEF OnError
  <2>2. /\ Settle(l, stop) /\ loops[l] # Idle
        /\ reply' = [reply EXCEPT ![l] = NoReply] /\ UNCHANGED <<failures, destroyed>>
    BY <1>6 DEF OnError, Fail
  <2> HIDE DEF stop
  <2> QED
    BY <1>4, <2>1, <2>2
<1>7. ASSUME NEW t \in Timers, NEW l \in Loops, PollHead(t, l)
      PROVE  FailuresAreCounted' /\ HeadPollLives'
  BY <1>0, <1>7 DEF PollHead, Tick, Begin
<1>8. ASSUME Destroy PROVE FailuresAreCounted' /\ HeadPollLives'
  BY <1>8 DEF Destroy, StopListen
<1>9. ASSUME NewBlock \/ UNCHANGED vars PROVE FailuresAreCounted' /\ HeadPollLives'
  BY <1>9 DEF NewBlock, vars, headVars, pollVars
<1> QED
  BY <1>1, <1>2, <1>3, <1>5, <1>6, <1>7, <1>8, <1>9 DEF Next

\* Whatever overlaps, the head goes on being polled until destroy is called or one
\* of the requests fails.
THEOREM HeadPollGoesOn == Spec => []HeadPollLives
<1>1. Init => HeadIsBehind /\ FailuresAreCounted /\ HeadPollLives
  BY HeadAssumption DEF Init, PollInit, HeadIsBehind, FailuresAreCounted, HeadPollLives, Blocks
<1>2. PollInv /\ HeadTypeOK /\ HeadIsBehind /\ FailuresAreCounted /\ HeadPollLives /\ [Next]_vars
        => HeadIsBehind' /\ FailuresAreCounted' /\ HeadPollLives'
  BY HeadIsBehindStep, HeadPollStep DEF PollInv
<1>3. Spec => []PollInv
  <2>1. MaxStarts = 1
    BY HeadAssumption
  <2> QED
    BY <2>1, HeadPolls, PollCorrect, PTL
<1> QED
  BY <1>1, <1>2, <1>3, HeadTypeCorrect, PTL DEF Spec

-----------------------------------------------------------------------------
(***************************************************************************)
(* Induction, and folds from the left.                                     *)
(***************************************************************************)
\* A set of numbers that is not empty has a least member: induction as the least
\* counterexample.
LEMMA LeastNumber ==
  ASSUME NEW T \in SUBSET Nat, T # {}
  PROVE  \E n \in T : \A m \in T : n <= m
<1>1. IsWellFoundedOn(OpToRel(<, Nat), Nat)
  BY NatLessThanWellFounded
<1>2. PICK n \in T : \A m \in T : ~ (<<m, n>> \in OpToRel(<, Nat))
  BY <1>1, WFMin
<1>3. \A m \in T : ~ (m < n)
  BY <1>2 DEF OpToRel
<1> QED
  BY <1>3

\* A set that holds 0 and, with a number below N, the next, holds all up to N.
LEMMA UpToAll ==
  ASSUME NEW N \in Nat, NEW S, 0 \in S, \A n \in 0 .. N - 1 : n \in S => n + 1 \in S
  PROVE  0 .. N \subseteq S
<1> DEFINE T == (0 .. N) \ S
<1>1. SUFFICES ASSUME T # {} PROVE FALSE
  OBVIOUS
<1>2. T \in SUBSET Nat
  OBVIOUS
<1>3. PICK n \in T : \A m \in T : n <= m
  <2> HIDE DEF T
  <2> QED
    BY <1>1, <1>2, LeastNumber
<1>4. n \in 0 .. N /\ n # 0 /\ n \notin S
  OBVIOUS
<1>5. n - 1 \in 0 .. N - 1 /\ n - 1 \in S
  BY <1>3, <1>4
<1> QED
  BY <1>4, <1>5

\* The greatest member of a set of numbers up to n that holds n is n.
LEMMA MaxOfUpTo ==
  ASSUME NEW n \in Nat, NEW s \in SUBSET (1 .. n), n \in s
  PROVE  Max(s) = n
<1>1. \A x \in s : (\A y \in s : x >= y) <=> x = n
  OBVIOUS
<1> QED
  BY <1>1 DEF Max

\* The greatest member is a member.
LEMMA MaxIsMember ==
  ASSUME NEW n \in Nat, NEW s \in SUBSET (1 .. n), s # {}
  PROVE  Max(s) \in s
<1> DEFINE T == {m \in Nat : n - m \in s}
<1>1. T \in SUBSET Nat /\ T # {}
  <2>1. PICK x \in s : TRUE
    OBVIOUS
  <2>2. n - x \in Nat /\ n - (n - x) \in s
    OBVIOUS
  <2> QED
    BY <2>2
<1>2. PICK m \in T : \A k \in T : m <= k
  <2> HIDE DEF T
  <2> QED
    BY <1>1, LeastNumber
<1>3. \A y \in s : n - m >= y
  <2> TAKE y \in s
  <2>1. n - y \in Nat /\ n - (n - y) \in s
    OBVIOUS
  <2>2. m <= n - y
    BY <1>2, <2>1
  <2> QED
    BY <2>2
<1> QED
  BY <1>2, <1>3 DEF Max

\* What a fold computes for the indexes in a set: from base, by a step for each index.
Folds(f, A, base, step, n) ==
  /\ f \in [SUBSET (1 .. n) -> A]
  /\ \A s \in SUBSET (1 .. n) :
       f[s] = IF s = {} THEN base ELSE step[Max(s)][f[s \ {Max(s)}]]

\* There is such a function, whatever the step.
LEMMA FoldExists ==
  ASSUME NEW A, NEW base \in A, NEW N \in Nat, NEW step \in [1 .. N -> [A -> A]]
  PROVE  \E f : Folds(f, A, base, step, N)
<1> DEFINE S == {n \in 0 .. N : \E f : Folds(f, A, base, step, n)}
<1>1. 0 \in S
  <2>1. SUBSET (1 .. 0) = {{}}
    OBVIOUS
  <2>2. Folds([s \in {{}} |-> base], A, base, step, 0)
    BY <2>1 DEF Folds
  <2> QED
    BY <2>2
<1>2. ASSUME NEW n \in 0 .. N - 1, n \in S PROVE n + 1 \in S
  <2>1. PICK f : Folds(f, A, base, step, n)
    BY <1>2
  <2> DEFINE old(s) == s \ {n + 1}
             g == [s \in SUBSET (1 .. n + 1) |->
                     IF n + 1 \in s THEN step[n + 1][f[old(s)]] ELSE f[s]]
  <2>2. \A s \in SUBSET (1 .. n + 1) : old(s) \in SUBSET (1 .. n)
    OBVIOUS
  <2>3. \A s \in SUBSET (1 .. n + 1) : n + 1 \notin s => s \in SUBSET (1 .. n)
    OBVIOUS
  <2>4. g \in [SUBSET (1 .. n + 1) -> A]
    BY <2>1, <2>2, <2>3 DEF Folds
  <2>5. ASSUME NEW s \in SUBSET (1 .. n + 1), n + 1 \in s
        PROVE  s # {} /\ g[s] = step[Max(s)][g[s \ {Max(s)}]]
    <3>1. Max(s) = n + 1
      BY <2>5, MaxOfUpTo
    <3>2. old(s) \in SUBSET (1 .. n + 1) /\ n + 1 \notin old(s)
      OBVIOUS
    <3>3. g[old(s)] = f[old(s)]
      BY <3>2
    <3> QED
      BY <2>5, <3>1, <3>3
  <2>6. ASSUME NEW s \in SUBSET (1 .. n + 1), n + 1 \notin s, s # {}
        PROVE  g[s] = step[Max(s)][g[s \ {Max(s)}]]
    <3>1. s \in SUBSET (1 .. n) /\ s \ {Max(s)} \in SUBSET (1 .. n)
      BY <2>3, <2>6
    <3>2. g[s] = f[s] /\ g[s \ {Max(s)}] = f[s \ {Max(s)}]
      BY <2>6, <3>1
    <3>3. f[s] = step[Max(s)][f[s \ {Max(s)}]]
      BY <2>1, <2>6, <3>1 DEF Folds
    <3> QED
      BY <3>2, <3>3
  <2>7. g[{}] = base
    BY <2>1 DEF Folds
  <2>8. Folds(g, A, base, step, n + 1)
    <3> HIDE DEF g
    <3> QED
      BY <2>4, <2>5, <2>6, <2>7 DEF Folds
  <2> QED
    BY <2>8
<1>3. N \in S
  <2>1. 0 \in S /\ \A n \in 0 .. N - 1 : n \in S => n + 1 \in S
    BY <1>1, <1>2
  <2> HIDE DEF S
  <2>2. 0 .. N \subseteq S
    BY <2>1, UpToAll
  <2> QED
    BY <2>2
<1> QED
  BY <1>3

\* One step of UniqueNames, and the function that it folds with.
AddName(names, c) ==
  IF IsName(c.to) /\ c.to \notin ToSet(names) THEN Append(names, c.to) ELSE names

AddsNames(f, clauses) ==
  f = [s \in SUBSET DOMAIN clauses |->
         IF s = {} THEN <<>> ELSE AddName(f[s \ {Max(s)}], clauses[Max(s)])]

\* It is there.
LEMMA UniqueNamesEquation ==
  ASSUME NEW C, NEW clauses \in Seq(C)
  PROVE  \E f : AddsNames(f, clauses) /\ UniqueNames(clauses) = f[DOMAIN clauses]
<1> DEFINE N == Len(clauses)
           step == [i \in 1 .. N |-> [names \in Seq(Names) |-> AddName(names, clauses[i])]]
<1>1. N \in Nat /\ DOMAIN clauses = 1 .. N
  OBVIOUS
<1>2. \A names \in Seq(Names), i \in 1 .. N : AddName(names, clauses[i]) \in Seq(Names)
  BY DEF AddName, IsName
<1>3. step \in [1 .. N -> [Seq(Names) -> Seq(Names)]]
  BY <1>2
<1>4. PICK f : Folds(f, Seq(Names), <<>>, step, N)
  <2> HIDE DEF step, N
  <2>1. <<>> \in Seq(Names)
    OBVIOUS
  <2> QED
    BY <1>1, <1>3, <2>1, FoldExists
<1>5. ASSUME NEW s \in SUBSET (1 .. N), s # {}
      PROVE  f[s] = AddName(f[s \ {Max(s)}], clauses[Max(s)])
  <2>1. f[s] = step[Max(s)][f[s \ {Max(s)}]]
    <3> HIDE DEF step, N
    <3> QED
      BY <1>4, <1>5 DEF Folds
  <2>2. Max(s) \in 1 .. N
    <3> HIDE DEF N
    <3> QED
      BY <1>1, <1>5, MaxIsMember
  <2>3. f[s \ {Max(s)}] \in Seq(Names)
    <3> HIDE DEF step, N
    <3> QED
      BY <1>4 DEF Folds
  <2> QED
    BY <2>1, <2>2, <2>3
<1>6. AddsNames(f, clauses)
  <2>1. f \in [SUBSET (1 .. N) -> Seq(Names)] /\ f[{}] = <<>>
    <3> HIDE DEF step, N
    <3> QED
      BY <1>1, <1>4 DEF Folds
  <2> HIDE DEF step, N
  <2> QED
    BY <1>1, <1>5, <2>1 DEF AddsNames
<1>7. AddsNames(CHOOSE g : AddsNames(g, clauses), clauses)
  BY <1>6
<1>8. UniqueNames(clauses) = (CHOOSE g : AddsNames(g, clauses))[DOMAIN clauses]
  BY DEF UniqueNames, FoldLeft, MapThenFoldSet, AddName, AddsNames
<1> QED
  BY <1>7, <1>8

\* What a sequence holds with one more member.
LEMMA ToSetAppend ==
  ASSUME NEW A, NEW s \in Seq(A), NEW e \in A
  PROVE  ToSet(Append(s, e)) = ToSet(s) \union {e}
<1> DEFINE t == Append(s, e)
<1>1. /\ DOMAIN s = 1 .. Len(s) /\ Len(s) \in Nat
      /\ DOMAIN t = 1 .. Len(s) + 1 /\ t[Len(s) + 1] = e
      /\ \A i \in 1 .. Len(s) : t[i] = s[i]
  OBVIOUS
<1> HIDE DEF t
<1>2. ToSet(t) \subseteq ToSet(s) \union {e}
  <2> SUFFICES ASSUME NEW i \in DOMAIN t PROVE t[i] \in ToSet(s) \union {e}
    BY DEF ToSet
  <2>1. i \in DOMAIN s \/ i = Len(s) + 1
    BY <1>1
  <2> QED
    BY <1>1, <2>1 DEF ToSet
<1>3. ToSet(s) \subseteq ToSet(t)
  <2> SUFFICES ASSUME NEW i \in DOMAIN s PROVE s[i] \in ToSet(t)
    BY DEF ToSet
  <2>1. i \in DOMAIN t /\ t[i] = s[i]
    BY <1>1
  <2> QED
    BY <2>1 DEF ToSet
<1>4. e \in ToSet(t)
  <2>1. Len(s) + 1 \in DOMAIN t
    BY <1>1
  <2> QED
    BY <1>1, <2>1 DEF ToSet
<1> QED
  BY <1>2, <1>3, <1>4 DEF t

\* The unique names of clauses are the names that they pay to, and no others.
LEMMA NamesAreUnique ==
  ASSUME NEW C, NEW clauses \in Seq(C)
  PROVE  /\ UniqueNames(clauses) \in Seq(Names)
         /\ ToSet(UniqueNames(clauses)) = {clauses[i].to : i \in DOMAIN clauses} \intersect Names
<1> DEFINE N == Len(clauses)
<1>1. N \in Nat /\ DOMAIN clauses = 1 .. N
  OBVIOUS
<1>2. PICK f : AddsNames(f, clauses) /\ UniqueNames(clauses) = f[DOMAIN clauses]
  BY UniqueNamesEquation
<1> DEFINE Found(n) == {clauses[i].to : i \in 1 .. n} \intersect Names
           S == {n \in 0 .. N : f[1 .. n] \in Seq(Names) /\ ToSet(f[1 .. n]) = Found(n)}
<1> HIDE DEF N
<1>3. 0 \in S
  <2>1. f[1 .. 0] = <<>>
    <3>1. 1 .. 0 = {}
      OBVIOUS
    <3> QED
      BY <1>1, <1>2, <3>1 DEF AddsNames
  <2>2. Found(0) = {} /\ ToSet(<<>>) = {}
    BY DEF ToSet
  <2>3. <<>> \in Seq(Names) /\ 0 \in 0 .. N
    BY <1>1
  <2> HIDE DEF Found
  <2> QED
    BY <2>1, <2>2, <2>3
<1>4. ASSUME NEW n \in 0 .. N - 1, n \in S PROVE n + 1 \in S
  <2> DEFINE names == f[1 .. n]
             to == clauses[n + 1].to
  <2>1. f[1 .. n + 1] = AddName(names, clauses[n + 1])
    <3>1. (1 .. n + 1) \in SUBSET DOMAIN clauses /\ n + 1 \in 1 .. n + 1
      BY <1>1
    <3>2. Max(1 .. n + 1) = n + 1 /\ (1 .. n + 1) \ {n + 1} = 1 .. n
      BY <1>1, <3>1, MaxOfUpTo
    <3> QED
      BY <1>2, <3>1, <3>2 DEF AddsNames
  <2>2. names \in Seq(Names) /\ ToSet(names) = Found(n)
    BY <1>4
  <2>3. Found(n + 1) = Found(n) \union ({to} \intersect Names)
    BY <1>1
  <2> HIDE DEF names, Found, S
  <2>6. SUFFICES f[1 .. n + 1] \in Seq(Names) /\ ToSet(f[1 .. n + 1]) = Found(n + 1)
    BY <1>1 DEF S
  <2>4. CASE to \in Names /\ to \notin ToSet(names)
    <3>1. f[1 .. n + 1] = Append(names, to)
      BY <2>1, <2>4 DEF AddName, IsName
    <3>2. ToSet(Append(names, to)) = ToSet(names) \union {to}
      BY <2>2, <2>4, ToSetAppend
    <3>3. Append(names, to) \in Seq(Names)
      BY <2>2, <2>4
    <3> QED
      BY <2>2, <2>3, <2>4, <2>6, <3>1, <3>2, <3>3
  <2>5. CASE ~(to \in Names /\ to \notin ToSet(names))
    <3>1. f[1 .. n + 1] = names
      BY <2>1, <2>5 DEF AddName, IsName
    <3> QED
      BY <2>2, <2>3, <2>5, <2>6, <3>1
  <2> QED
    BY <2>4, <2>5
<1>5. N \in S
  <2>1. 0 \in S /\ \A n \in 0 .. N - 1 : n \in S => n + 1 \in S
    BY <1>3, <1>4
  <2> HIDE DEF S
  <2>2. 0 .. N \subseteq S
    BY <1>1, <2>1, UpToAll
  <2> QED
    BY <1>1, <2>2
<1> QED
  BY <1>1, <1>2, <1>5

IsSequence(s) == s \in Seq(ToSet(s))

\* Appending.
LEMMA SequenceAppend ==
  ASSUME NEW s, IsSequence(s), NEW e
  PROVE  /\ IsSequence(Append(s, e))
         /\ Len(s) \in Nat /\ Len(Append(s, e)) = Len(s) + 1
         /\ \A i \in 1 .. Len(s) : Append(s, e)[i] = s[i]
         /\ Append(s, e)[Len(s) + 1] = e
<1>1. s \in Seq(ToSet(s) \union {e})
  BY DEF IsSequence
<1>2. ToSet(Append(s, e)) = ToSet(s) \union {e}
  BY <1>1, ToSetAppend
<1> QED
  BY <1>1, <1>2 DEF IsSequence

\* What is made from base, by a step for each number up to n.
Steps(f, base, grow, n) ==
  /\ f[0] = base
  /\ \A i \in 1 .. n : f[i] = grow[i][f[i - 1]]

\* There is such a function, whatever the steps.
LEMMA StepsExist ==
  ASSUME NEW A, NEW base \in A, NEW N \in Nat, NEW grow \in [1 .. N -> [A -> A]]
  PROVE  \E f \in [0 .. N -> A] : Steps(f, base, grow, N)
<1> DEFINE Solves(f, n) == f \in [0 .. n -> A] /\ Steps(f, base, grow, n)
           S == {n \in 0 .. N : \E f : Solves(f, n)}
<1>1. 0 \in S
  <2> DEFINE f == [i \in 0 .. 0 |-> base]
  <2>1. Solves(f, 0)
    BY DEF Steps
  <2> HIDE DEF Solves, f
  <2> QED
    BY <2>1
<1>2. ASSUME NEW n \in 0 .. N - 1, n \in S PROVE n + 1 \in S
  <2>1. PICK f : Solves(f, n)
    BY <1>2
  <2>2. n + 1 \in 1 .. N /\ n + 1 \in 0 .. N /\ n \in 0 .. n
    OBVIOUS
  <2> DEFINE last == grow[n + 1][f[n]]
             g == [i \in 0 .. n + 1 |-> IF i = n + 1 THEN last ELSE f[i]]
  <2>3. last \in A
    BY <2>1, <2>2
  <2> HIDE DEF last
  <2>4. g \in [0 .. n + 1 -> A]
    BY <2>1, <2>3
  <2>5. g[0] = base
    BY <2>1 DEF Steps
  <2>6. ASSUME NEW i \in 1 .. n + 1 PROVE g[i] = grow[i][g[i - 1]]
    <3>1. g[i - 1] = f[i - 1]
      OBVIOUS
    <3>2. CASE i = n + 1
      BY <3>1, <3>2 DEF last
    <3>3. CASE i # n + 1
      <4>1. i \in 1 .. n /\ g[i] = f[i]
        BY <3>3
      <4> QED
        BY <2>1, <3>1, <4>1 DEF Steps
    <3> QED
      BY <3>2, <3>3
  <2> HIDE DEF g
  <2>7. Solves(g, n + 1)
    BY <2>4, <2>5, <2>6 DEF Steps
  <2> HIDE DEF Solves
  <2> QED
    BY <2>2, <2>7
<1>3. N \in S
  <2> HIDE DEF S
  <2>1. 0 .. N \subseteq S
    BY <1>1, <1>2, UpToAll
  <2> QED
    BY <2>1
<1> QED
  BY <1>3

\* What the first of n sequences are together, and FlattenSeq all of them.
Joins(f, seqs, n) ==
  /\ f[1] = seqs[1]
  /\ \A i \in 2 .. n : f[i] = f[i - 1] \o seqs[i]
  /\ FlattenSeq(seqs) = f[n]

\* Sequences are put together one after the other.
LEMMA FlattenEquation ==
  ASSUME NEW A, NEW N \in Nat \ {0}, NEW seqs \in [1 .. N -> Seq(A)]
  PROVE  \E f \in [1 .. N -> Seq(A)] : Joins(f, seqs, N)
<1> DEFINE All == Seq(A)
           grow == [i \in 1 .. N |-> [t \in All |-> IF i = 1 THEN seqs[i] ELSE t \o seqs[i]]]
           Q(h) == h = [i \in 1 .. N |-> IF i = 1 THEN seqs[i] ELSE h[i - 1] \o seqs[i]]
           h == CHOOSE k : Q(k)
<1>1. PICK g \in [0 .. N -> All] : Steps(g, <<>>, grow, N)
  <2>1. \A i \in 1 .. N, t \in All : seqs[i] \in All /\ t \o seqs[i] \in All
    OBVIOUS
  <2>2. <<>> \in All
    OBVIOUS
  <2> HIDE DEF All
  <2>3. grow \in [1 .. N -> [All -> All]]
    BY <2>1
  <2> HIDE DEF grow
  <2> QED
    BY <2>2, <2>3, StepsExist
<1> DEFINE f == [i \in 1 .. N |-> g[i]]
<1>2. f \in [1 .. N -> All]
  <2> HIDE DEF All
  <2> QED
    BY <1>1
<1>3. \A i \in 1 .. N : f[i] = IF i = 1 THEN seqs[i] ELSE f[i - 1] \o seqs[i]
  <2> TAKE i \in 1 .. N
  <2>1. g[i - 1] \in All /\ f[i] = g[i] /\ (i # 1 => f[i - 1] = g[i - 1])
    <3> HIDE DEF All
    <3> QED
      BY <1>1
  <2>2. g[i] = grow[i][g[i - 1]]
    BY <1>1 DEF Steps
  <2> HIDE DEF All, f
  <2>3. grow[i][g[i - 1]] = IF i = 1 THEN seqs[i] ELSE g[i - 1] \o seqs[i]
    BY <2>1
  <2> QED
    BY <2>1, <2>2, <2>3
<1>4. Q(f)
  <2>1. f = [i \in 1 .. N |-> f[i]]
    OBVIOUS
  <2> HIDE DEF f
  <2> QED
    BY <1>3, <2>1
<1>5. Q(h)
  <2> HIDE DEF Q
  <2> QED
    BY <1>4
<1>6. Len(seqs) = N
  OBVIOUS
<1>7. FlattenSeq(seqs) = h[N]
  BY <1>6 DEF FlattenSeq
<1> HIDE DEF h, f
<1>8. DOMAIN h = 1 .. N /\ \A i \in 1 .. N : h[i] = IF i = 1 THEN seqs[i] ELSE h[i - 1] \o seqs[i]
  BY <1>5
<1> DEFINE T == {n \in 0 .. N : n = 0 \/ h[n] = f[n]}
<1>9. ASSUME NEW n \in 0 .. N - 1, n \in T PROVE n + 1 \in T
  <2>1. n + 1 \in 1 .. N /\ (n + 1) - 1 = n /\ n + 1 \in 0 .. N
    OBVIOUS
  <2>2. /\ h[n + 1] = IF n + 1 = 1 THEN seqs[n + 1] ELSE h[n] \o seqs[n + 1]
        /\ f[n + 1] = IF n + 1 = 1 THEN seqs[n + 1] ELSE f[n] \o seqs[n + 1]
    BY <1>3, <1>8, <2>1
  <2>3. h[n + 1] = f[n + 1]
    BY <1>9, <2>1, <2>2
  <2> QED
    BY <2>1, <2>3
<1>10. 0 .. N \subseteq T
  <2>1. 0 \in T
    OBVIOUS
  <2> HIDE DEF T
  <2> QED
    BY <1>9, <2>1, UpToAll
<1>11. h[N] = f[N]
  BY <1>10
<1>12. f \in [1 .. N -> Seq(A)]
  BY <1>2
<1>13. f[1] = seqs[1] /\ \A i \in 2 .. N : f[i] = f[i - 1] \o seqs[i]
  <2>1. f[1] = IF 1 = 1 THEN seqs[1] ELSE f[1 - 1] \o seqs[1]
    BY <1>3
  <2>2. ASSUME NEW i \in 2 .. N PROVE f[i] = f[i - 1] \o seqs[i]
    <3>1. i \in 1 .. N /\ i # 1
      OBVIOUS
    <3> QED
      BY <1>3, <3>1
  <2> QED
    BY <2>1, <2>2
<1>14. Joins(f, seqs, N)
  <2> HIDE DEF Q
  <2> QED
    BY <1>7, <1>11, <1>13 DEF Joins
<1> QED
  BY <1>12, <1>14

\* The elements of two sequences, one after the other.
LEMMA ToSetOfBoth ==
  ASSUME NEW A, NEW s \in Seq(A), NEW t \in Seq(A)
  PROVE  ToSet(s \o t) = ToSet(s) \union ToSet(t)
<1>1. /\ Len(s) \in Nat /\ Len(t) \in Nat
      /\ DOMAIN s = 1 .. Len(s) /\ DOMAIN t = 1 .. Len(t)
      /\ DOMAIN (s \o t) = 1 .. Len(s) + Len(t)
  OBVIOUS
<1>2. \A i \in 1 .. Len(s) : (s \o t)[i] = s[i]
  OBVIOUS
<1>3. \A i \in 1 .. Len(t) : (s \o t)[Len(s) + i] = t[i]
  OBVIOUS
<1>4. ASSUME NEW i \in 1 .. Len(s) + Len(t)
      PROVE  (s \o t)[i] \in ToSet(s) \union ToSet(t)
  <2>1. CASE i <= Len(s)
    BY <1>1, <1>2, <2>1 DEF ToSet
  <2>2. CASE i > Len(s)
    <3>1. i - Len(s) \in 1 .. Len(t) /\ Len(s) + (i - Len(s)) = i
      BY <1>1, <2>2
    <3>2. (s \o t)[i] = t[i - Len(s)]
      BY <1>3, <3>1
    <3> QED
      BY <1>1, <3>1, <3>2 DEF ToSet
  <2> QED
    BY <1>1, <2>1, <2>2
<1>5. ASSUME NEW i \in 1 .. Len(s) PROVE s[i] \in ToSet(s \o t)
  <2>1. i \in 1 .. Len(s) + Len(t)
    BY <1>1
  <2> QED
    BY <1>1, <1>2, <2>1 DEF ToSet
<1>6. ASSUME NEW i \in 1 .. Len(t) PROVE t[i] \in ToSet(s \o t)
  <2>1. Len(s) + i \in 1 .. Len(s) + Len(t)
    BY <1>1
  <2> QED
    BY <1>1, <1>3, <2>1 DEF ToSet
<1> QED
  BY <1>1, <1>4, <1>5, <1>6 DEF ToSet

\* Of what is put together, the elements are those of its parts.
LEMMA FlattenOnes ==
  ASSUME NEW A, NEW N \in Nat, NEW seqs \in [1 .. N -> Seq(A)]
  PROVE  /\ FlattenSeq(seqs) \in Seq(A)
         /\ ToSet(FlattenSeq(seqs)) = UNION {ToSet(seqs[i]) : i \in 1 .. N}
<1>1. CASE N = 0
  <2>1. Len(seqs) = 0 /\ seqs \in Seq(A) /\ DOMAIN seqs = {}
    BY <1>1
  <2> QED
    BY <1>1, <2>1 DEF FlattenSeq, ToSet
<1>2. CASE N # 0
  <2>1. PICK f \in [1 .. N -> Seq(A)] : Joins(f, seqs, N)
    <3>1. N \in Nat \ {0}
      BY <1>2
    <3> QED
      BY <3>1, FlattenEquation
  <2> DEFINE Up(n) == UNION {ToSet(seqs[i]) : i \in 1 .. n}
             S == {n \in 0 .. N : n = 0 \/ ToSet(f[n]) = Up(n)}
  <2>2. ASSUME NEW n \in 0 .. N - 1, n \in S PROVE n + 1 \in S
    <3>1. n + 1 \in 1 .. N /\ (n + 1) - 1 = n /\ n + 1 \in 0 .. N /\ seqs[n + 1] \in Seq(A)
      OBVIOUS
    <3>2. CASE n = 0
      <4>1. 1 .. 1 = {1}
        OBVIOUS
      <4>2. Up(1) = ToSet(seqs[1])
        BY <4>1
      <4>3. ToSet(f[n + 1]) = Up(n + 1)
        BY <2>1, <3>2, <4>2 DEF Joins
      <4> HIDE DEF Up
      <4> QED
        BY <3>1, <4>3
    <3>3. CASE n # 0
      <4>6. n + 1 \in 2 .. N /\ n \in 1 .. N
        BY <3>3
      <4>1. f[n + 1] = f[n] \o seqs[n + 1] /\ f[n] \in Seq(A)
        BY <2>1, <3>1, <4>6 DEF Joins
      <4>2. ToSet(f[n] \o seqs[n + 1]) = ToSet(f[n]) \union ToSet(seqs[n + 1])
        <5> DEFINE a == f[n]
                   b == seqs[n + 1]
        <5>1. a \in Seq(A) /\ b \in Seq(A)
          BY <3>1, <4>1
        <5> HIDE DEF a, b
        <5>2. ToSet(a \o b) = ToSet(a) \union ToSet(b)
          BY <5>1, ToSetOfBoth
        <5> QED
          BY <5>2 DEF a, b
      <4>3. 1 .. n + 1 = (1 .. n) \union {n + 1}
        OBVIOUS
      <4>4. Up(n + 1) = Up(n) \union ToSet(seqs[n + 1])
        BY <4>3
      <4>5. ToSet(f[n]) = Up(n)
        BY <2>2, <3>3
      <4> HIDE DEF Up
      <4> QED
        BY <3>1, <4>1, <4>2, <4>4, <4>5
    <3> QED
      BY <3>2, <3>3
  <2>3. 0 .. N \subseteq S
    <3>1. 0 \in S
      OBVIOUS
    <3> HIDE DEF S
    <3> QED
      BY <2>2, <3>1, UpToAll
  <2>4. ToSet(f[N]) = Up(N)
    <3> HIDE DEF Up
    <3> QED
      BY <1>2, <2>3
  <2> QED
    BY <1>2, <2>1, <2>4 DEF Joins
<1> QED
  BY <1>1, <1>2

\* What is selected of the beginnings of a sequence.
Selects(v, s, members) ==
  /\ v[0] = <<>>
  /\ \A i \in 1 .. Len(s) :
       v[i] = IF s[i] \in members THEN Append(v[i - 1], s[i]) ELSE v[i - 1]
  /\ Selected(s, members) = v[Len(s)]

LEMMA SelectedEquation ==
  ASSUME NEW A, NEW s \in Seq(A), NEW members
  PROVE  \E v \in [0 .. Len(s) -> Seq(A)] : Selects(v, s, members)
<1> DEFINE N == Len(s)
           All == Seq(A)
           grow == [i \in 1 .. N |-> [t \in All |-> IF s[i] \in members THEN Append(t, s[i]) ELSE t]]
           Q(h) == h = [n \in 0 .. N |->
                          IF n = 0 THEN <<>>
                          ELSE IF s[n] \in members THEN Append(h[n - 1], s[n]) ELSE h[n - 1]]
           h == CHOOSE k : Q(k)
<1>1. N \in Nat /\ \A i \in 1 .. N : s[i] \in A
  OBVIOUS
<1>2. \A i \in 1 .. N, t \in All : Append(t, s[i]) \in All
  BY <1>1
<1>3. <<>> \in All
  OBVIOUS
<1>4. PICK f \in [0 .. N -> All] : Steps(f, <<>>, grow, N)
  <2> HIDE DEF All, N
  <2>1. grow \in [1 .. N -> [All -> All]]
    BY <1>2
  <2> HIDE DEF grow
  <2> QED
    BY <1>1, <1>3, <2>1, StepsExist
<1> HIDE DEF All
<1>5. ASSUME NEW i \in 1 .. N
      PROVE  f[i] = IF s[i] \in members THEN Append(f[i - 1], s[i]) ELSE f[i - 1]
  <2>2. i - 1 \in 0 .. N
    BY <1>1
  <2>3. f[i] = grow[i][f[i - 1]]
    BY <1>4 DEF Steps
  <2>1. f[i] = grow[i][f[i - 1]] /\ f[i - 1] \in All
    <3> HIDE DEF N, grow
    <3> QED
      BY <1>4, <2>2, <2>3
  <2> QED
    BY <2>1
<1>6. Q(f)
  <2>1. f[0] = <<>> /\ f = [n \in 0 .. N |-> f[n]]
    BY <1>4 DEF Steps
  <2>2. \A n \in 0 .. N : n # 0 => n \in 1 .. N
    BY <1>1
  <2> HIDE DEF N
  <2> QED
    BY <1>5, <2>1, <2>2
<1>7. Q(h)
  <2> HIDE DEF Q
  <2> QED
    BY <1>6
<1>8. Selected(s, members) = h[N]
  BY DEF Selected
<1> HIDE DEF h, grow
<1>9. DOMAIN h = 0 .. N /\ h[0] = <<>>
  BY <1>1, <1>7
<1>10. ASSUME NEW i \in 1 .. N
       PROVE  h[i] = IF s[i] \in members THEN Append(h[i - 1], s[i]) ELSE h[i - 1]
  <2>1. i \in 0 .. N /\ i # 0
    BY <1>1
  <2> QED
    BY <1>7, <2>1
<1> HIDE DEF Q
<1>11. h \in [0 .. N -> All]
  <2> DEFINE S == {n \in 0 .. N : h[n] \in All}
  <2>1. 0 \in S
    BY <1>1, <1>3, <1>9
  <2>2. ASSUME NEW n \in 0 .. N - 1, n \in S PROVE n + 1 \in S
    <3>1. n + 1 \in 1 .. N /\ (n + 1) - 1 = n /\ n + 1 \in 0 .. N
      BY <1>1
    <3>2. h[n + 1] = IF s[n + 1] \in members THEN Append(h[n], s[n + 1]) ELSE h[n]
      BY <1>10, <3>1
    <3>3. h[n] \in All /\ Append(h[n], s[n + 1]) \in All
      BY <1>2, <2>2, <3>1
    <3>4. h[n + 1] \in All
      BY <3>2, <3>3
    <3> QED
      BY <3>1, <3>4
  <2>3. 0 .. N \subseteq S
    <3> HIDE DEF S, N
    <3> QED
      BY <1>1, <2>1, <2>2, UpToAll
  <2>4. h = [n \in 0 .. N |-> h[n]]
    BY <1>7 DEF Q
  <2> QED
    BY <2>3, <2>4
<1>12. Selects(h, s, members)
  BY <1>8, <1>9, <1>10 DEF Selects, N
<1> QED
  BY <1>11, <1>12 DEF All, N

\* The ones that are selected are the members.
LEMMA SelectedOnes ==
  ASSUME NEW A, NEW s \in Seq(A), NEW members
  PROVE  /\ Selected(s, members) \in Seq(A)
         /\ ToSet(Selected(s, members)) = ToSet(s) \intersect members
<1> DEFINE N == Len(s)
           Up(n) == {s[i] : i \in 1 .. n}
<1>1. PICK v \in [0 .. N -> Seq(A)] : Selects(v, s, members)
  BY SelectedEquation
<1>2. N \in Nat /\ DOMAIN s = 1 .. N /\ \A i \in 1 .. N : s[i] \in A
  OBVIOUS
<1> DEFINE S == {n \in 0 .. N : ToSet(v[n]) = Up(n) \intersect members}
<1>3. 0 \in S
  <2>1. v[0] = <<>> /\ Up(0) = {}
    BY <1>1 DEF Selects
  <2> QED
    BY <1>2, <2>1 DEF ToSet
<1>4. ASSUME NEW n \in 0 .. N - 1, n \in S PROVE n + 1 \in S
  <2>1. n + 1 \in 1 .. N /\ (n + 1) - 1 = n /\ n + 1 \in 0 .. N /\ n \in 0 .. N
    BY <1>2
  <2>2. v[n + 1] = IF s[n + 1] \in members THEN Append(v[n], s[n + 1]) ELSE v[n]
    BY <1>1, <2>1 DEF Selects
  <2>3. v[n] \in Seq(A) /\ s[n + 1] \in A
    BY <1>2, <2>1
  <2>4. ToSet(Append(v[n], s[n + 1])) = ToSet(v[n]) \union {s[n + 1]}
    BY <2>3, ToSetAppend
  <2>5. Up(n + 1) = Up(n) \union {s[n + 1]}
    <3>1. 1 .. n + 1 = (1 .. n) \union {n + 1}
      BY <2>1
    <3> QED
      BY <3>1
  <2>6. ToSet(v[n]) = Up(n) \intersect members
    BY <1>4
  <2> HIDE DEF Up
  <2>7. ToSet(v[n + 1]) = Up(n + 1) \intersect members
    BY <2>2, <2>4, <2>5, <2>6
  <2> QED
    BY <2>1, <2>7
<1>5. 0 .. N \subseteq S
  <2> HIDE DEF S, N
  <2> QED
    BY <1>2, <1>3, <1>4, UpToAll
<1>6. ToSet(v[N]) = Up(N) \intersect members
  <2>1. N \in S
    BY <1>2, <1>5
  <2> QED
    BY <2>1
<1>7. Selected(s, members) = v[N] /\ v[N] \in Seq(A)
  BY <1>1, <1>2 DEF Selects
<1> QED
  BY <1>2, <1>6, <1>7 DEF ToSet

-----------------------------------------------------------------------------
(***************************************************************************)
(* What simulates clauses: the requests it makes, in order, and what the   *)
(* node has to say to them.                                                *)
(***************************************************************************)
RegistryKnown == trunk[1] \in DOMAIN Registries

RequestsFor(clauses) ==
  IF UniqueNames(clauses) = <<>> THEN 1 ELSE IF RegistryKnown THEN 3 ELSE 2

Resolved(clauses) ==
  LET names == UniqueNames(clauses)
  IN  IF names = <<>> THEN clauses
      ELSE WithAddresses(clauses, names,
                         IF RegistryKnown THEN got[2][1].data.words
                                          ELSE [n \in DOMAIN names |-> Null])

GenesisRequest == BlockRequest([number |-> 0], FALSE)

SimulationOf(clauses, options) ==
  [path |-> "simulate", clauses |-> clauses, revision |-> options.revision,
   caller |-> options.caller]

RegistryClause(clauses) ==
  [to |-> Registries[trunk[1]], data |-> [names |-> UniqueNames(clauses)]]

RequestFor(clauses, options, k) ==
  IF k = RequestsFor(clauses) THEN SimulationOf(Resolved(clauses), options)
  ELSE IF k = 1 THEN GenesisRequest
  ELSE SimulationOf(<<RegistryClause(clauses)>>, NoOptions)

RegistryResult(clauses, b) ==
  [reverted |-> FALSE,
   data |-> [selector |-> Null,
             words |-> [n \in DOMAIN UniqueNames(clauses) |->
                          Registered[b][UniqueNames(clauses)[n]]]]]

RevertsWithoutOutputs(result) ==
  result.reverted /\ result.data.selector = Null => result.data.words = <<>>

Answers(clauses, k, a) ==
  IF k = RequestsFor(clauses)
  THEN DOMAIN a = DOMAIN clauses /\ \A i \in DOMAIN clauses : RevertsWithoutOutputs(a[i])
  ELSE IF k = 1 THEN a = trunk[1]
  ELSE \E b \in bests : a[1] = RegistryResult(clauses, b)

\* A request for an answer that is there, or is not.
LEMMA AskGoes ==
  ASSUME NEW request, NEW i
  PROVE  Ask(request, i) = IF i > Len(got) THEN [ask |-> request]
                                           ELSE [ret |-> got[i], next |-> i + 1]
BY DEF Ask

\* The addresses of the names: the registry is asked if the network has one.
LEMMA NamesGo ==
  ASSUME NEW clauses, IsSequence(got), UniqueNames(clauses) \in Seq(Names),
         UniqueNames(clauses) # <<>>,
         \A k \in 1 .. Len(got) : k < RequestsFor(clauses) => Answers(clauses, k, got[k])
  PROVE  ResolveNames(UniqueNames(clauses), 1) =
           IF Len(got) + 1 < RequestsFor(clauses)
           THEN [ask |-> RequestFor(clauses, NoOptions, Len(got) + 1)]
           ELSE [ret |-> IF RegistryKnown THEN got[2][1].data.words
                         ELSE [n \in DOMAIN UniqueNames(clauses) |-> Null],
                 next |-> RequestsFor(clauses)]
<1> DEFINE names == UniqueNames(clauses)
           nulls == [n \in DOMAIN names |-> Null]
           request == [to |-> Registries[trunk[1]], data |-> [names |-> names]]
           words == got[2][1].data.words
<1>1. Len(got) \in Nat
  BY DEF IsSequence
<1>2. GetGenesisBlock(1) = Ask(GenesisRequest, 1)
  <2>1. [number |-> 0] # Malformed
    BY ThorAssumption
  <2> QED
    BY <2>1 DEF GetGenesisBlock, GetBlockCompressed, GenesisRequest
<1>3. CASE Len(got) = 0
  <2>1. GetGenesisBlock(1) = [ask |-> GenesisRequest]
    BY <1>2, <1>3 DEF Ask
  <2>2. ResolveNames(names, 1) = [ask |-> GenesisRequest]
    BY <2>1 DEF ResolveNames, Then
  <2> QED
    BY <1>3, <2>2 DEF RequestFor, RequestsFor
<1>4. ASSUME Len(got) > 0 PROVE GetGenesisBlock(1) = [ret |-> trunk[1], next |-> 2]
  <2>1. got[1] = trunk[1]
    BY <1>1, <1>4 DEF RequestsFor, Answers
  <2> QED
    BY <1>1, <1>2, <1>4, <2>1 DEF Ask
<1>5. CASE Len(got) > 0 /\ ~RegistryKnown
  <2>1. ResolveNames(names, 1) = [ret |-> nulls, next |-> 2]
    BY <1>4, <1>5 DEF ResolveNames, Then, RegistryKnown, Return
  <2> QED
    BY <1>1, <1>5, <2>1 DEF RequestsFor
<1>6. ASSUME Len(got) > 0, RegistryKnown
      PROVE  ResolveNames(names, 1) =
               LET result == Then(Ask(SimulationOf(<<request>>, NoOptions), 2),
                                  LAMBDA results, k : CallResult([outputs |-> Len(names)], results[1], k))
               IN  Then(result, LAMBDA r, k : IF "text" \in DOMAIN r THEN Throw ELSE Return(r.outputs, k))
  <2>1. Simulate(<<request>>, NoOptions, 2) = Ask(SimulationOf(<<request>>, NoOptions), 2)
    <3>1. NoOptions.revision # Malformed
      BY ThorAssumption DEF NoOptions
    <3> QED
      BY <3>1 DEF Simulate, SimulationOf
  <2> QED
    BY <1>4, <1>6, <2>1 DEF ResolveNames, Then, RegistryKnown
<1>7. CASE Len(got) = 1 /\ RegistryKnown
  <2>1. Ask(SimulationOf(<<request>>, NoOptions), 2) = [ask |-> SimulationOf(<<request>>, NoOptions)]
    BY <1>7 DEF Ask
  <2>2. ResolveNames(names, 1) = [ask |-> SimulationOf(<<request>>, NoOptions)]
    BY <1>6, <1>7, <2>1 DEF Then
  <2> QED
    BY <1>7, <2>2 DEF RequestFor, RequestsFor, RegistryClause
<1>8. CASE Len(got) > 1 /\ RegistryKnown
  <2>1. Ask(SimulationOf(<<request>>, NoOptions), 2) = [ret |-> got[2], next |-> 3]
    BY <1>1, <1>8 DEF Ask
  <2>2. PICK b \in bests : got[2][1] = RegistryResult(clauses, b)
    <3>1. 2 \in 1 .. Len(got) /\ 2 < RequestsFor(clauses)
      BY <1>1, <1>8 DEF RequestsFor
    <3> QED
      BY <3>1 DEF Answers
  <2>3. /\ ~got[2][1].reverted /\ got[2][1].data.selector = Null
        /\ words = [n \in DOMAIN names |-> Registered[b][names[n]]]
    BY <2>2 DEF RegistryResult
  <2>4. Len(names) \in Nat /\ DOMAIN names = 1 .. Len(names)
    OBVIOUS
  <2>5. Len(words) = Len(names) /\ SubSeq(words, 1, Len(names)) = words
    BY <2>3, <2>4
  <2>6. CallResult([outputs |-> Len(names)], got[2][1], 3) = [ret |-> [outputs |-> words], next |-> 3]
    BY <2>3, <2>4, <2>5 DEF CallResult, DecodeOutput, Return
  <2>7. ResolveNames(names, 1) = [ret |-> words, next |-> 3]
    BY <1>6, <1>8, <2>1, <2>6 DEF Then, Return
  <2> QED
    BY <1>1, <1>8, <2>7 DEF RequestsFor
<1>9. \/ Len(got) = 0
      \/ Len(got) > 0 /\ ~RegistryKnown
      \/ Len(got) = 1 /\ RegistryKnown
      \/ Len(got) > 1 /\ RegistryKnown
  <2>1. \A n \in Nat : n = 0 \/ (n > 0 /\ (n = 1 \/ n > 1))
    OBVIOUS
  <2>2. Len(got) = 0 \/ (Len(got) > 0 /\ (Len(got) = 1 \/ Len(got) > 1))
    BY <1>1, <2>1
  <2> QED
    BY <2>2
<1> QED
  BY <1>3, <1>5, <1>7, <1>8, <1>9

\* Simulating clauses: the requests for the names of them, then the simulation, whose
\* results it gives.
LEMMA SimulationGoes ==
  ASSUME NEW clauses, NEW options, IsSequence(got), UniqueNames(clauses) \in Seq(Names),
         \A k \in 1 .. Len(got) : k < RequestsFor(clauses) => Answers(clauses, k, got[k]),
         options.revision # Malformed
  PROVE  SimulateTransaction(clauses, options, 1) =
           IF Len(got) < RequestsFor(clauses)
           THEN [ask |-> RequestFor(clauses, options, Len(got) + 1)]
           ELSE [ret |-> got[RequestsFor(clauses)], next |-> RequestsFor(clauses) + 1]
<1> DEFINE names == UniqueNames(clauses)
           n == RequestsFor(clauses)
           addresses == IF RegistryKnown THEN got[2][1].data.words ELSE [m \in DOMAIN names |-> Null]
           Goal == SimulateTransaction(clauses, options, 1) =
                     IF Len(got) < n
                     THEN [ask |-> RequestFor(clauses, options, Len(got) + 1)]
                     ELSE [ret |-> got[n], next |-> n + 1]
<1>1. Len(got) \in Nat /\ n \in {1, 2, 3}
  BY DEF IsSequence, RequestsFor
<1>2. ASSUME ResolveNamesInClauses(clauses, 1) = [ret |-> Resolved(clauses), next |-> n],
             Len(got) + 1 >= n
      PROVE  Goal
  <2>1. SimulateTransaction(clauses, options, 1) = Ask(SimulationOf(Resolved(clauses), options), n)
    BY <1>2 DEF SimulateTransaction, Then, Simulate, SimulationOf
  <2>2. CASE Len(got) < n
    <3>1. Len(got) + 1 = n
      BY <1>1, <1>2, <2>2
    <3>2. Ask(SimulationOf(Resolved(clauses), options), n) =
            [ask |-> RequestFor(clauses, options, Len(got) + 1)]
      BY <1>1, <2>2, <3>1 DEF Ask, RequestFor
    <3> QED
      BY <2>1, <2>2, <3>2
  <2>3. CASE ~(Len(got) < n)
    <3>1. Ask(SimulationOf(Resolved(clauses), options), n) = [ret |-> got[n], next |-> n + 1]
      BY <1>1, <2>3 DEF Ask
    <3> QED
      BY <2>1, <2>3, <3>1
  <2> QED
    BY <2>2, <2>3
<1>3. CASE names = <<>>
  <2>1. ResolveNamesInClauses(clauses, 1) = [ret |-> clauses, next |-> 1]
    BY <1>3 DEF ResolveNamesInClauses, Return
  <2>2. Resolved(clauses) = clauses /\ n = 1
    BY <1>3 DEF Resolved, RequestsFor
  <2> QED
    BY <1>1, <1>2, <2>1, <2>2
<1>4. CASE names # <<>> /\ Len(got) + 1 < n
  <2>1. ResolveNames(names, 1) = [ask |-> RequestFor(clauses, NoOptions, Len(got) + 1)]
    BY <1>4, NamesGo
  <2>2. RequestFor(clauses, NoOptions, Len(got) + 1) = RequestFor(clauses, options, Len(got) + 1)
    BY <1>1, <1>4 DEF RequestFor
  <2>3. ResolveNamesInClauses(clauses, 1) = [ask |-> RequestFor(clauses, options, Len(got) + 1)]
    BY <1>4, <2>1, <2>2 DEF ResolveNamesInClauses, Then
  <2>4. SimulateTransaction(clauses, options, 1) =
          [ask |-> RequestFor(clauses, options, Len(got) + 1)]
    BY <2>3 DEF SimulateTransaction, Then
  <2> QED
    BY <1>1, <1>4, <2>4
<1>5. CASE names # <<>> /\ ~(Len(got) + 1 < n)
  <2>1. ResolveNames(names, 1) = [ret |-> addresses, next |-> n]
    BY <1>5, NamesGo
  <2>2. ResolveNamesInClauses(clauses, 1) =
          [ret |-> WithAddresses(clauses, names, addresses), next |-> n]
    BY <1>5, <2>1 DEF ResolveNamesInClauses, Then, Return
  <2>3. Resolved(clauses) = WithAddresses(clauses, names, addresses)
    BY <1>5 DEF Resolved
  <2> QED
    BY <1>1, <1>2, <1>5, <2>2, <2>3
<1> QED
  BY <1>3, <1>4, <1>5

\* With a revision that is none, nothing is asked.
LEMMA BadRevisionThrows ==
  ASSUME NEW clauses, NEW options, options.revision = Malformed
  PROVE  SimulateTransaction(clauses, options, 1) = Throw
BY DEF SimulateTransaction

\* What the node says to these requests.
LEMMA NodeAnswers ==
  ASSUME NEW clauses, NEW options, trunk \in Trunks, Last(trunk) \in bests,
         UniqueNames(clauses) \in Seq(Names),
         \A i \in DOMAIN clauses : clauses[i].data.call \in DOMAIN Simulated,
         NEW k \in 1 .. RequestsFor(clauses),
         Node(RequestFor(clauses, options, k)) # Refused
  PROVE  Answers(clauses, k, Node(RequestFor(clauses, options, k)))
<1> DEFINE names == UniqueNames(clauses)
           request == RequestFor(clauses, options, k)
<1>1. CASE k = RequestsFor(clauses)
  <2> DEFINE all == Resolved(clauses)
  <2>1. request = SimulationOf(all, options)
    BY <1>1 DEF RequestFor
  <2>2. Node(request) = NodeSimulation(all, options.revision)
    BY <2>1 DEF Node, SimulationOf
  <2>3. DOMAIN all = DOMAIN clauses /\ \A i \in DOMAIN clauses : all[i].data = clauses[i].data
    BY DEF Resolved, WithAddresses
  <2> DEFINE b == NodeBlock(options.revision)
             Run(i) ==
               IF "names" \in DOMAIN clauses[i].data
               THEN [reverted |-> FALSE,
                     data |-> [selector |-> Null,
                               words |-> [j \in DOMAIN clauses[i].data.names |->
                                            Registered[b][clauses[i].data.names[j]]]]]
               ELSE Simulated[clauses[i].data.call]
  <2>4. Node(request) = [i \in DOMAIN clauses |-> Run(i)]
    <3> HIDE DEF all
    <3>1. b # Null
      BY <2>2 DEF NodeSimulation
    <3> HIDE DEF b
    <3> QED
      BY <2>2, <2>3, <3>1 DEF NodeSimulation, b
  <2>5. ASSUME NEW i \in DOMAIN clauses PROVE RevertsWithoutOutputs(Node(request)[i])
    <3>1. CASE "names" \in DOMAIN clauses[i].data
      BY <2>4, <3>1 DEF RevertsWithoutOutputs
    <3>2. CASE "names" \notin DOMAIN clauses[i].data
      BY <2>4, <3>2, ThorAssumption DEF RevertsWithoutOutputs
    <3> QED
      BY <3>1, <3>2
  <2> QED
    BY <1>1, <2>4, <2>5 DEF Answers
<1>2. CASE k # RequestsFor(clauses) /\ k = 1
  <2>1. request = BlockRequest([number |-> 0], FALSE)
    BY <1>2 DEF RequestFor, GenesisRequest
  <2>2. Node(request) = NodeBlock([number |-> 0])
    BY <2>1 DEF Node, BlockRequest
  <2>3. Len(trunk) \in Nat /\ Len(trunk) > 0
    BY ThorAssumption
  <2>4. NodeBlock([number |-> 0]) = trunk[1]
    BY <2>3, ThorAssumption DEF NodeBlock
  <2> QED
    BY <1>2, <2>2, <2>4 DEF Answers
<1>3. CASE k # RequestsFor(clauses) /\ k # 1
  <2>1. request = SimulationOf(<<RegistryClause(clauses)>>, NoOptions)
    BY <1>3 DEF RequestFor
  <2>2. Node(request) = NodeSimulation(<<RegistryClause(clauses)>>, Null)
    BY <2>1 DEF Node, SimulationOf, NoOptions
  <2>3. NodeBlock(Null) = Last(trunk)
    BY DEF NodeBlock
  <2>4. Node(request)[1] = RegistryResult(clauses, Last(trunk))
    <3> DEFINE c == RegistryClause(clauses)
    <3>1. Last(trunk) # Null
      BY <2>2, <2>3 DEF NodeSimulation
    <3>2. c.data = [names |-> names] /\ c.data.names = names /\ "names" \in DOMAIN c.data
      BY DEF RegistryClause
    <3>3. 1 \in DOMAIN <<c>> /\ <<c>>[1] = c
      OBVIOUS
    <3> DEFINE s == <<c>>
               Run(i) ==
                 IF "names" \in DOMAIN s[i].data
                 THEN [reverted |-> FALSE,
                       data |-> [selector |-> Null,
                                 words |-> [j \in DOMAIN s[i].data.names |->
                                              Registered[Last(trunk)][s[i].data.names[j]]]]]
                 ELSE Simulated[s[i].data.call]
    <3> HIDE DEF c, s
    <3>4. NodeSimulation(s, Null) = [i \in DOMAIN s |-> Run(i)]
      BY <2>3, <3>1 DEF NodeSimulation
    <3>5. 1 \in DOMAIN s /\ s[1] = c
      BY <3>3 DEF s
    <3>6. NodeSimulation(s, Null)[1] = Run(1)
      BY <3>4, <3>5
    <3>7. Run(1) = RegistryResult(clauses, Last(trunk))
      BY <3>2, <3>5 DEF RegistryResult
    <3>8. Node(request) = NodeSimulation(s, Null)
      BY <2>2 DEF c, s
    <3> HIDE DEF Run, request
    <3> QED
      BY <3>6, <3>7, <3>8
  <2> QED
    BY <1>3, <2>4 DEF Answers
<1> QED
  BY <1>1, <1>2, <1>3

-----------------------------------------------------------------------------
(***************************************************************************)
(* Requests.                                                               *)
(***************************************************************************)
Pending == {"connecting", "json", "text"}

\* Requests are made one after another, each when the one before has been answered; one
\* that is rejected ends the operation.
SessionOK ==
  /\ stage \in [Requests -> Pending \union {"new", "resolved", "rejected"}]
  /\ IsSequence(sent) /\ IsSequence(got)
  /\ Len(got) <= Len(sent) /\ Len(sent) <= Len(got) + 1
  /\ op = Null => sent = <<>> /\ got = <<>>
  /\ trunk \in Trunks
  /\ op # Null => Last(trunk) \in bests
  /\ \A r \in Requests :
       /\ stage[r] = "resolved" <=> r <= Len(got)
       /\ stage[r] \in Pending => r = Len(sent) /\ Len(sent) = Len(got) + 1
       /\ stage[r] = "rejected" => outcome = Thrown

\* Requests are numbered from 1.
LEMMA RequestsAreNumbers == Requests \subseteq Nat \ {0}
<1>1. Cardinality(Requests) \in Nat
  BY ThorAssumption, FS_CardinalityType
<1> QED
  BY <1>1, ThorAssumption

\* Nothing has been asked.
LEMMA SessionInit == ContractInit => SessionOK
<1> SUFFICES ASSUME ContractInit PROVE SessionOK
  OBVIOUS
<1>1. /\ stage = [r \in Requests |-> "new"] /\ sent = <<>> /\ got = <<>>
      /\ op = Null /\ trunk \in Trunks
  BY DEF ContractInit, ThorInit, HttpInit
<1>2. IsSequence(<<>>) /\ Len(<<>>) = 0
  BY DEF IsSequence
<1>3. \A r \in Requests : ~(r <= 0)
  BY RequestsAreNumbers
<1> QED
  BY <1>1, <1>2, <1>3 DEF SessionOK, Pending

\* The steps that keep it: a request is made,
LEMMA AsksKeeps == ASSUME SessionOK, NEW step, Asks(step) PROVE SessionOK'
<1> DEFINE n == Len(sent) + 1
<1>1. Len(sent) \in Nat /\ Len(got) = Len(sent) /\ n \in Nat
  BY DEF SessionOK, Asks, IsSequence
<1>2. UNCHANGED <<got, trunk, bests, op>>
  BY DEF Asks, nodeVars
<1>3. \A r \in Requests : stage[r] \notin Pending
  <2>1. Len(sent) # Len(got) + 1
    BY <1>1
  <2> QED
    BY <2>1 DEF SessionOK
<1>4. CASE Send(n) /\ sent' = Append(sent, step.ask) /\ UNCHANGED outcome
  <2>1. stage[n] = "new" /\ stage' = [stage EXCEPT ![n] = "connecting"]
    BY <1>4 DEF Send, Goes
  <2>2. IsSequence(sent') /\ Len(sent') = n
    BY <1>4, SequenceAppend DEF SessionOK
  <2>3. op # Null
    BY DEF Asks, Running
  <2>4. \A r \in Requests : stage'[r] = IF r = n THEN "connecting" ELSE stage[r]
    BY <2>1 DEF SessionOK
  <2>5. stage' \in [Requests -> Pending \union {"new", "resolved", "rejected"}]
    BY <2>1 DEF SessionOK, Pending
  <2>6. ASSUME NEW r \in Requests
        PROVE  /\ stage'[r] = "resolved" <=> r <= Len(got')
               /\ stage'[r] \in Pending => r = Len(sent') /\ Len(sent') = Len(got') + 1
               /\ stage'[r] = "rejected" => outcome' = Thrown
    BY <1>1, <1>2, <1>3, <1>4, <2>2, <2>4, RequestsAreNumbers DEF SessionOK, Pending
  <2> QED
    BY <1>1, <1>2, <2>2, <2>3, <2>5, <2>6 DEF SessionOK
<1>5. CASE InvalidUrl(n) /\ outcome' = Thrown /\ UNCHANGED sent
  <2>1. stage[n] = "new" /\ stage' = [stage EXCEPT ![n] = "rejected"]
    BY <1>5 DEF InvalidUrl, Goes
  <2>2. \A r \in Requests : stage'[r] = IF r = n THEN "rejected" ELSE stage[r]
    BY <2>1 DEF SessionOK
  <2>3. stage' \in [Requests -> Pending \union {"new", "resolved", "rejected"}]
    BY <2>1 DEF SessionOK, Pending
  <2>4. ASSUME NEW r \in Requests
        PROVE  /\ stage'[r] = "resolved" <=> r <= Len(got')
               /\ stage'[r] \in Pending => r = Len(sent') /\ Len(sent') = Len(got') + 1
               /\ stage'[r] = "rejected" => outcome' = Thrown
    BY <1>1, <1>2, <1>3, <1>5, <2>2, RequestsAreNumbers DEF SessionOK, Pending
  <2> QED
    BY <1>1, <1>2, <1>5, <2>3, <2>4 DEF SessionOK
<1> QED
  BY <1>4, <1>5 DEF Asks, Following

\* the operation ends,
LEMMA EndsKeeps == ASSUME SessionOK, NEW step, Ends(step) PROVE SessionOK'
<1>1. UNCHANGED <<stage, sent, got, trunk, bests, op>> /\ outcome = Null
  BY DEF Ends, httpVars, nodeVars, Running
<1>2. \A r \in Requests : stage[r] # "rejected"
  BY <1>1, ThorAssumption DEF SessionOK, Thrown
<1> QED
  BY <1>1, <1>2 DEF SessionOK

\* Where a request may go, and that nothing changes of the others.
LEMMA RespondsGoes ==
  ASSUME SessionOK, NEW r \in Requests, Responds(r)
  PROVE  /\ r = Len(sent) /\ Len(sent) = Len(got) + 1 /\ stage[r] = "connecting"
         /\ stage'[r] \in {"json", "text", "rejected"}
         /\ stage' = [stage EXCEPT ![r] = stage'[r]]
         /\ outcome' = IF stage'[r] = "rejected" THEN Thrown ELSE outcome
         /\ UNCHANGED <<op, sent, got, nodeVars>>
         /\ stage'[r] = "json" => answer' = Node(sent[r]) /\ Node(sent[r]) # Refused
BY DEF Responds, Respond, Goes, SessionOK, Pending

\* What the rest of a request may change.
LEMMA SettlesGoes ==
  ASSUME SessionOK, NEW r \in Requests, Elapses(r) \/ Fires(r)
  PROVE  /\ UNCHANGED <<op, sent, nodeVars>>
         /\ outcome' = IF stage'[r] = "rejected" THEN Thrown ELSE outcome
         /\ \/ UNCHANGED <<stage, got, answer>>
            \/ /\ r = Len(sent) /\ Len(sent) = Len(got) + 1
               /\ stage' = [stage EXCEPT ![r] = "rejected"]
               /\ got' = got
            \/ /\ r = Len(sent) /\ Len(sent) = Len(got) + 1 /\ stage[r] = "json"
               /\ stage' = [stage EXCEPT ![r] = "resolved"]
               /\ got' = Append(got, answer)
<1>1. CASE Elapses(r)
  BY <1>1 DEF Elapses, FetchFails, BodyEnds, BodyFails, Settles, Goes, SessionOK, Pending
<1>2. CASE Fires(r)
  BY <1>2 DEF Fires, TimerFires, Settles, SessionOK, Pending
<1> QED
  BY <1>1, <1>2

\* the node responds,
LEMMA RespondsKeeps == ASSUME SessionOK, NEW r \in Requests, Responds(r) PROVE SessionOK'
<1>1. UNCHANGED <<op, sent, got, trunk, bests>>
  BY RespondsGoes DEF nodeVars
<1>2. \A q \in Requests : stage'[q] = IF q = r THEN stage'[r] ELSE stage[q]
  BY RespondsGoes DEF SessionOK
<1>3. stage' \in [Requests -> Pending \union {"new", "resolved", "rejected"}]
  <2> DEFINE s == stage'[r]
  <2>1. s \in Pending \union {"rejected"} /\ stage' = [stage EXCEPT ![r] = s]
    BY RespondsGoes DEF Pending
  <2> HIDE DEF s
  <2> QED
    BY <2>1 DEF SessionOK
<1>4. ~(r <= Len(got)) /\ stage'[r] # "resolved"
  BY RespondsGoes, RequestsAreNumbers DEF SessionOK, IsSequence
<1>5. ASSUME NEW q \in Requests
      PROVE  /\ stage'[q] = "resolved" <=> q <= Len(got)
             /\ stage'[q] \in Pending => q = Len(sent) /\ Len(sent) = Len(got) + 1
             /\ stage'[q] = "rejected" => outcome' = Thrown
  <2>1. CASE q = r
    BY <1>2, <1>4, <2>1, RespondsGoes
  <2>2. CASE q # r
    BY <1>2, <2>2, RespondsGoes DEF SessionOK
  <2> QED
    BY <2>1, <2>2
<1> QED
  BY <1>1, <1>3, <1>5 DEF SessionOK

\* a request settles,
LEMMA SettlesKeeps ==
  ASSUME SessionOK, NEW r \in Requests, Elapses(r) \/ Fires(r)
  PROVE  SessionOK'
<1>1. UNCHANGED <<op, sent, trunk, bests>>
  BY SettlesGoes DEF nodeVars
<1>2. Len(got) \in Nat /\ Len(sent) \in Nat
  BY DEF SessionOK, IsSequence
<1>3. CASE UNCHANGED <<stage, got, answer>>
  <2>1. \A q \in Requests : stage[q] = "rejected" => outcome' = Thrown
    BY SettlesGoes DEF SessionOK
  <2> QED
    BY <1>1, <1>3, <2>1 DEF SessionOK
<1>4. CASE /\ r = Len(sent) /\ Len(sent) = Len(got) + 1
           /\ stage' = [stage EXCEPT ![r] = "rejected"]
           /\ got' = got
  <2>1. \A q \in Requests : stage'[q] = IF q = r THEN "rejected" ELSE stage[q]
    BY <1>4 DEF SessionOK
  <2>2. stage' \in [Requests -> Pending \union {"new", "resolved", "rejected"}]
    BY <1>4 DEF SessionOK
  <2>3. outcome' = Thrown /\ ~(r <= Len(got))
    <3>1. stage'[r] = "rejected"
      BY <2>1
    <3>2. outcome' = Thrown
      BY <3>1, SettlesGoes
    <3>3. ~(r <= Len(got))
      BY <1>2, <1>4
    <3> QED
      BY <3>2, <3>3
  <2>4. ASSUME NEW q \in Requests
        PROVE  /\ stage'[q] = "resolved" <=> q <= Len(got)
               /\ stage'[q] \in Pending => q = Len(sent) /\ Len(sent) = Len(got) + 1
    <3>1. CASE q = r
      BY <2>1, <2>3, <3>1 DEF Pending
    <3>2. CASE q # r
      BY <2>1, <3>2 DEF SessionOK
    <3> QED
      BY <3>1, <3>2
  <2> QED
    BY <1>1, <1>4, <2>2, <2>3, <2>4 DEF SessionOK
<1>5. CASE /\ r = Len(sent) /\ Len(sent) = Len(got) + 1 /\ stage[r] = "json"
           /\ stage' = [stage EXCEPT ![r] = "resolved"]
           /\ got' = Append(got, answer)
  <2>1. \A q \in Requests : stage'[q] = IF q = r THEN "resolved" ELSE stage[q]
    BY <1>5 DEF SessionOK
  <2>2. stage' \in [Requests -> Pending \union {"new", "resolved", "rejected"}]
    BY <1>5 DEF SessionOK
  <2>3. IsSequence(got') /\ Len(got') = Len(sent)
    BY <1>5, SequenceAppend DEF SessionOK
  <2>4. \A q \in Requests : outcome' # Thrown => stage'[q] # "rejected"
    BY <1>5, <2>1, SettlesGoes DEF SessionOK
  <2>5. ASSUME NEW q \in Requests
        PROVE  stage'[q] = "resolved" <=> q <= Len(got')
    <3>1. q \in Nat
      BY RequestsAreNumbers
    <3>2. q <= Len(got') <=> q = r \/ q <= Len(got)
      BY <1>2, <1>5, <2>3, <3>1
    <3> QED
      BY <2>1, <3>2 DEF SessionOK
  <2>6. ASSUME NEW q \in Requests PROVE stage'[q] \notin Pending
    BY <1>5, <2>1 DEF SessionOK, Pending
  <2>7. Len(got') <= Len(sent) /\ Len(sent) <= Len(got') + 1
    BY <1>2, <2>3
  <2>8. op # Null
    BY <1>2, <1>5 DEF SessionOK
  <2> QED
    BY <1>1, <2>2, <2>3, <2>4, <2>5, <2>6, <2>7, <2>8 DEF SessionOK
<1> QED
  BY <1>3, <1>4, <1>5, SettlesGoes

\* The other steps leave requests and answers alone.
Beside ==
  /\ UNCHANGED <<stage, sent, got, answer, outcome>>
  /\ trunk' \in Trunks
  /\ op # Null => op' # Null /\ bests \subseteq bests' /\ trunk'[1] = trunk[1]
  /\ op' # Null => Last(trunk') \in bests'

\* or something else happens.
LEMMA BesideKeeps == ASSUME SessionOK, Beside PROVE SessionOK'
BY DEF SessionOK, Beside

\* The operation, its options, and those of the contract.
OfContract(o) ==
  \E c \in Calls : \E s \in Signers \union {Null}, options \in Options \union {Null} :
    c.name \in OnContract /\ o = [c EXCEPT !.signer = s, !.options = options]

OpOK ==
  /\ signer \in Signers \union {Null}
  /\ contractCallOptions \in ReadOptions
  /\ contractTransactionOptions \in TransactOptions
  /\ op # Null => (op \in Calls /\ op.name \notin OnContract) \/ OfContract(op)

\* A call with the signer and the options filled in.
LEMMA CallRecord ==
  ASSUME NEW o, NEW a, NEW b, NEW c, NEW s, NEW t, NEW p, NEW q,
         o = [name |-> a, member |-> b, args |-> c, signer |-> s, options |-> t]
  PROVE  [o EXCEPT !.signer = p, !.options = q]
         = [name |-> a, member |-> b, args |-> c, signer |-> p, options |-> q]
<1> DEFINE one == [o EXCEPT !.signer = p]
<1>1. one = [name |-> a, member |-> b, args |-> c, signer |-> p, options |-> t]
  OBVIOUS
<1>2. [o EXCEPT !.signer = p, !.options = q] = [one EXCEPT !.options = q]
  BY Zenon
<1> HIDE DEF one
<1>3. [one EXCEPT !.options = q] = [name |-> a, member |-> b, args |-> c, signer |-> p, options |-> q]
  BY <1>1
<1> QED
  BY <1>2, <1>3

\* The fields of a call of a contract, whose options may be replaced.
LEMMA OfContractIs ==
  ASSUME NEW o, OfContract(o)
  PROVE  /\ o # Null /\ o.name \in OnContract
         /\ o = [name |-> o.name, member |-> o.member, args |-> o.args, signer |-> o.signer,
                 options |-> o.options]
         /\ o.signer \in Signers \union {Null} /\ o.options \in Options \union {Null}
         /\ \A options \in Options \union {Null} :
              OfContract([name |-> o.name, member |-> o.member, args |-> o.args,
                          signer |-> o.signer, options |-> options])
<1>1. PICK c \in Calls, s \in Signers \union {Null}, options \in Options \union {Null} :
        c.name \in OnContract /\ o = [c EXCEPT !.signer = s, !.options = options]
  BY DEF OfContract
<1>2. c = [name |-> c.name, member |-> c.member, args |-> c.args, signer |-> Null, options |-> Null]
  BY <1>1, ContractAssumption
<1>3. o = [name |-> c.name, member |-> c.member, args |-> c.args, signer |-> s,
           options |-> options]
  BY <1>1, <1>2, CallRecord
<1>4. o # Null
  BY <1>1, ContractAssumption
<1>5. ASSUME NEW others \in Options \union {Null}
      PROVE  OfContract([name |-> c.name, member |-> c.member, args |-> c.args, signer |-> s,
                         options |-> others])
  <2> DEFINE new == [c EXCEPT !.signer = s, !.options = others]
  <2>1. new = [name |-> c.name, member |-> c.member, args |-> c.args, signer |-> s,
               options |-> others]
    <3> DEFINE one == [c EXCEPT !.signer = s]
    <3>1. one = [name |-> c.name, member |-> c.member, args |-> c.args, signer |-> s,
                 options |-> Null]
      BY <1>2
    <3>2. new = [one EXCEPT !.options = others]
      BY Zenon
    <3> HIDE DEF one
    <3>3. [one EXCEPT !.options = others]
            = [name |-> c.name, member |-> c.member, args |-> c.args, signer |-> s,
               options |-> others]
      BY <3>1
    <3> QED
      BY <3>2, <3>3
  <2>2. OfContract(new)
    BY <1>1 DEF OfContract
  <2> QED
    BY <2>1, <2>2
<1>6. /\ o.name = c.name /\ o.member = c.member /\ o.args = c.args /\ o.signer = s
      /\ o.options = options
  BY <1>3
<1> QED
  BY <1>1, <1>3, <1>4, <1>5, <1>6

\* What the address of the signer makes of a read.
LEMMA AddressFound ==
  ASSUME OpOK, AddressArrives
  PROVE  /\ OfContract(op) /\ OfContract(op')
         /\ op.name = "read" /\ op.options = Null
         /\ op'.name = op.name /\ op'.member = op.member /\ op'.args = op.args
         /\ op'.signer = op.signer /\ op'.options # Null
         /\ op'.options.caller \in {contractCallOptions.caller, CallerOf(op.signer)}
<1> DEFINE options ==
      [contractCallOptions EXCEPT !.caller = IF @ = Null THEN CallerOf(op.signer) ELSE @]
<1>1. op # Null /\ op.name = "read" /\ op.options = Null /\ op' = [op EXCEPT !.options = options]
  BY DEF AddressArrives, AwaitsAddress, Running
<1>2. OfContract(op)
  BY <1>1 DEF OpOK, OnContract
<1>3. /\ contractCallOptions \in ReadOptions
      /\ contractCallOptions = [revision |-> contractCallOptions.revision,
                               caller |-> contractCallOptions.caller]
  BY ContractAssumption DEF OpOK
<1>4. options = [revision |-> contractCallOptions.revision,
                 caller |-> IF contractCallOptions.caller = Null THEN CallerOf(op.signer)
                            ELSE contractCallOptions.caller]
  BY <1>3
<1>5. options.caller \in {contractCallOptions.caller, CallerOf(op.signer)}
  BY <1>4
<1>6. options \in Options
  <2>1. CASE contractCallOptions.caller # Null \/ op.signer = Null
    <3>1. options = contractCallOptions
      BY <1>3, <1>4, <2>1 DEF CallerOf
    <3> QED
      BY <1>3, <3>1 DEF Options
  <2>2. CASE ~(contractCallOptions.caller # Null \/ op.signer = Null)
    <3>1. op.signer \in Signers
      BY <1>2, <2>2, OfContractIs
    <3>2. options = [contractCallOptions EXCEPT !.caller = AddressOf[op.signer]]
      BY <1>3, <1>4, <2>2 DEF CallerOf
    <3> QED
      BY <1>3, <3>1, <3>2 DEF Options
  <2> QED
    BY <2>1, <2>2
<1> HIDE DEF options
<1>7. options # Null
  BY <1>6, ContractAssumption
<1>8. op = [name |-> op.name, member |-> op.member, args |-> op.args, signer |-> op.signer,
            options |-> op.options]
  BY <1>2, OfContractIs
<1>9. op' = [name |-> op.name, member |-> op.member, args |-> op.args, signer |-> op.signer,
             options |-> options]
  BY <1>1, <1>8
<1>10. OfContract(op')
  BY <1>2, <1>6, <1>9, OfContractIs
<1>11. /\ op'.name = op.name /\ op'.member = op.member /\ op'.args = op.args
       /\ op'.signer = op.signer /\ op'.options = options
  BY <1>9
<1> QED
  BY <1>1, <1>2, <1>5, <1>7, <1>10, <1>11

\* An operation begins.
Begins ==
  /\ op = Null
  /\ \/ \E c \in Calls : op' = c /\ c.name \notin OnContract /\ UNCHANGED callers
     \/ \E c \in Calls : CallContract(c) /\ c.name \in OnContract
  /\ Beside

\* A step of others changes nothing of it.
Meanwhile ==
  /\ Beside
  /\ UNCHANGED op

\* Every step is one of these.
LEMMA StepKinds ==
  ASSUME SessionOK, OpOK, [ContractNext]_contractVars
  PROVE  \/ ContractProceeds
         \/ \E r \in Requests : Responds(r) \/ Elapses(r) \/ Fires(r)
         \/ Begins
         \/ AddressArrives /\ Beside
         \/ Meanwhile
<1>1. ASSUME NEW c \in Calls, Call(c) PROVE Begins
  <2>1. trunk' = trunk /\ bests' = {Last(trunk)} /\ trunk \in Trunks
        /\ UNCHANGED <<stage, sent, got, answer, outcome>> /\ op = Null
    BY <1>1 DEF Call, CallContract, Start, httpVars, SessionOK
  <2> QED
    BY <1>1, <2>1 DEF Call, CallContract, Start, Begins, Beside
<1>2. ASSUME AddressArrives PROVE Beside
  <2>1. op' # Null
    BY <1>2, AddressFound, OfContractIs
  <2> QED
    BY <1>2, <2>1 DEF AddressArrives, Beside, SessionOK, httpVars, nodeVars, Running
<1>3. ASSUME TrunkMoves PROVE Meanwhile
  BY <1>3 DEF TrunkMoves, Meanwhile, Beside, SessionOK, httpVars, opVars
<1>4. ASSUME SecondPasses PROVE Meanwhile
  BY <1>4 DEF SecondPasses, Meanwhile, Beside, SessionOK, httpVars, opVars
<1>5. ASSUME UNCHANGED thorVars PROVE Meanwhile
  BY <1>5 DEF Meanwhile, Beside, SessionOK, thorVars, httpVars, opVars, nodeVars
<1>6. ASSUME NEW s, SetSigner(s) \/ SetContractReadOptions(s) \/ SetContractTransactOptions(s)
      PROVE  UNCHANGED thorVars
  BY <1>6 DEF SetSigner, SetContractReadOptions, SetContractTransactOptions, Changes
<1>7. ASSUME UNCHANGED contractVars PROVE UNCHANGED thorVars
  BY <1>7 DEF contractVars
<1> QED
  BY <1>1, <1>2, <1>3, <1>4, <1>5, <1>6, <1>7 DEF ContractNext, Outside

\* The operation and the options are what they may be.
LEMMA OpInit == ContractInit => OpOK
BY DEF ContractInit, ThorInit, OpOK

\* Every step keeps them.
LEMMA OpKept == SessionOK /\ OpOK /\ [ContractNext]_contractVars => OpOK'
<1> SUFFICES ASSUME SessionOK, OpOK, [ContractNext]_contractVars PROVE OpOK'
  OBVIOUS
<1>1. /\ signer' \in Signers \union {Null}
      /\ contractCallOptions' \in ReadOptions
      /\ contractTransactionOptions' \in TransactOptions
  BY DEF ContractNext, OpOK, Call, CallContract, ContractProceeds, AddressArrives, SetSigner,
         SetContractReadOptions, SetContractTransactOptions, contractVars, contractState
<1>2. CASE UNCHANGED op
  BY <1>1, <1>2 DEF OpOK
<1>3. CASE Begins
  <2>1. ASSUME NEW c \in Calls, CallContract(c), c.name \in OnContract PROVE OfContract(op')
    <3>1. signer \in Signers \union {Null}
      BY DEF OpOK
    <3> DEFINE options == IF c.name # "read" THEN contractTransactionOptions
                          ELSE IF signer # Null THEN Null ELSE contractCallOptions
    <3>2. options \in Options \union {Null}
      BY DEF OpOK, Options
    <3>3. op' = [c EXCEPT !.signer = signer, !.options = options]
      BY <2>1 DEF CallContract
    <3> HIDE DEF options
    <3> QED
      BY <2>1, <3>1, <3>2, <3>3 DEF OfContract
  <2> QED
    BY <1>1, <1>3, <2>1 DEF Begins, OpOK
<1>4. CASE AddressArrives
  BY <1>1, <1>4, AddressFound DEF OpOK
<1>5. ASSUME NEW step, Asks(step) \/ Ends(step) PROVE UNCHANGED op
  BY <1>5 DEF Asks, Ends
<1>6. ASSUME NEW r \in Requests, Responds(r) \/ Elapses(r) \/ Fires(r) PROVE UNCHANGED op
  BY <1>6, RespondsGoes, SettlesGoes
<1> QED
  BY <1>2, <1>3, <1>4, <1>5, <1>6, StepKinds DEF ContractProceeds, Meanwhile

\* Every step keeps it.
LEMMA SessionKept == SessionOK /\ OpOK /\ [ContractNext]_contractVars => SessionOK'
<1> SUFFICES ASSUME SessionOK, OpOK, [ContractNext]_contractVars PROVE SessionOK'
  OBVIOUS
<1>1. ASSUME ContractProceeds PROVE SessionOK'
  BY <1>1, AsksKeeps, EndsKeeps DEF ContractProceeds
<1> QED
  BY <1>1, StepKinds, RespondsKeeps, SettlesKeeps, BesideKeeps DEF Begins, Meanwhile

-----------------------------------------------------------------------------
(***************************************************************************)
(* The operations that simulate clauses.                                   *)
(***************************************************************************)
Simulating == {"simulateTransaction", "executeCall", "read", "executeMultipleClausesCall"}

ArgsOf(o) == ExtractAndRemoveAdditionalOptions(o.args)

ClausesOf(o) ==
  CASE o.name = "simulateTransaction" -> o.clauses
    [] o.name = "executeCall" -> <<[to |-> o.to, data |-> o.data]>>
    [] o.name = "read" -> <<[to |-> ContractAddress,
                             data |-> [call |-> o.member, args |-> ArgsOf(o).args]]>>
    [] OTHER -> [k \in DOMAIN o.clauses |-> o.clauses[k].clause]

OptionsOf(o) ==
  IF o.name = "read" THEN [caller |-> o.options.caller, revision |-> ArgsOf(o).revision]
                     ELSE o.options

Asking(o) ==
  /\ OptionsOf(o).revision # Malformed
  /\ o.name = "read" => o.options # Null /\ CanEncode(o.member, ArgsOf(o).args)

\* What the code does with the results.
Uses(o, results, i) ==
  CASE o.name = "simulateTransaction" -> Return(results, i)
    [] o.name = "executeCall" -> CallResult(o.fragment, results[1], i)
    [] o.name = "read" -> CallResult(Functions[o.member], results[1], i)
    [] OTHER ->
         LET decoded == [k \in DOMAIN results |->
                           DecodeOutput(o.clauses[k].fragment, results[k].data, i)]
         IN  IF \A k \in DOMAIN results : "ret" \in DOMAIN decoded[k]
             THEN Return([k \in DOMAIN results |-> decoded[k].ret], i)
             ELSE Throw

\* A sequence of one.
LEMMA SequenceOf1 == ASSUME NEW e PROVE <<e>> \in Seq({e}) /\ DOMAIN <<e>> = {1} /\ <<e>>[1] = e
OBVIOUS

\* The clauses of an operation have names and call data that are known.
LEMMA ClausesKnown ==
  ASSUME OpOK, op # Null, op.name \in Simulating
  PROVE  /\ UniqueNames(ClausesOf(op)) \in Seq(Names)
         /\ ToSet(UniqueNames(ClausesOf(op))) =
              {ClausesOf(op)[i].to : i \in DOMAIN ClausesOf(op)} \intersect Names
         /\ Asking(op) => \A i \in DOMAIN ClausesOf(op) :
                            ClausesOf(op)[i].data.call \in DOMAIN Simulated
<1> DEFINE clauses == ClausesOf(op)
<1>1. CASE op.name = "simulateTransaction"
  <2>1. op \in Calls
    BY <1>1, OfContractIs DEF OpOK, OnContract
  <2>2. clauses = op.clauses
    BY <1>1 DEF ClausesOf
  <2>3. clauses \in Seq(ToSet(clauses)) /\ \A i \in DOMAIN clauses : clauses[i].data.call \in DOMAIN Simulated
    BY <1>1, <2>1, <2>2, ThorAssumption
  <2> QED
    BY <2>3, NamesAreUnique
<1>2. CASE op.name = "executeCall"
  <2>1. op \in Calls
    BY <1>2, OfContractIs DEF OpOK, OnContract
  <2> DEFINE c == [to |-> op.to, data |-> op.data]
  <2>2. clauses = <<c>>
    BY <1>2 DEF ClausesOf
  <2>3. c.data.call \in DOMAIN Simulated
    BY <1>2, <2>1, ThorAssumption
  <2> HIDE DEF c
  <2>4. clauses \in Seq({c}) /\ \A i \in DOMAIN clauses : clauses[i].data.call \in DOMAIN Simulated
    BY <2>2, <2>3, SequenceOf1
  <2> QED
    BY <2>4, NamesAreUnique
<1>3. CASE op.name = "read"
  <2> DEFINE c == [to |-> ContractAddress, data |-> [call |-> op.member, args |-> ArgsOf(op).args]]
  <2>2. clauses = <<c>>
    BY <1>3 DEF ClausesOf
  <2>3. Asking(op) => c.data.call \in DOMAIN Simulated
    BY <1>3, ContractAssumption DEF Asking, CanEncode
  <2> HIDE DEF c
  <2>4. clauses \in Seq({c}) /\ DOMAIN clauses = {1} /\ clauses[1] = c
    BY <2>2, SequenceOf1
  <2>5. Asking(op) => \A i \in DOMAIN clauses : clauses[i].data.call \in DOMAIN Simulated
    BY <2>3, <2>4
  <2> QED
    BY <2>4, <2>5, NamesAreUnique
<1>4. CASE op.name = "executeMultipleClausesCall"
  <2>1. op \in Calls
    BY <1>4, OfContractIs DEF OpOK, OnContract
  <2>2. clauses = [k \in DOMAIN op.clauses |-> op.clauses[k].clause]
    BY <1>4 DEF ClausesOf
  <2>3. /\ op.clauses \in Seq(ToSet(op.clauses))
        /\ \A k \in DOMAIN op.clauses : op.clauses[k].clause.data.call \in DOMAIN Simulated
    BY <1>4, <2>1, ContractAssumption
  <2>4. Len(op.clauses) \in Nat /\ DOMAIN op.clauses = 1 .. Len(op.clauses)
    BY <2>3
  <2>5. clauses \in Seq({op.clauses[k].clause : k \in DOMAIN op.clauses})
    BY <2>2, <2>4
  <2>6. \A i \in DOMAIN clauses : clauses[i].data.call \in DOMAIN Simulated
    BY <2>2, <2>3
  <2> QED
    BY <2>5, <2>6, NamesAreUnique
<1> QED
  BY <1>1, <1>2, <1>3, <1>4 DEF Simulating

\* The step that the operation takes.
LEMMA SimulatingGoes ==
  ASSUME OpOK, op # Null, op.name \in Simulating, ~AwaitsAddress(op), IsSequence(got),
         \A k \in 1 .. Len(got) : Answers(ClausesOf(op), k, got[k])
  PROVE  LET clauses == ClausesOf(op)
         IN  PerformOnContract(op) =
               IF ~Asking(op) THEN Throw
               ELSE IF Len(got) < RequestsFor(clauses)
                    THEN [ask |-> RequestFor(clauses, OptionsOf(op), Len(got) + 1)]
                    ELSE Uses(op, got[RequestsFor(clauses)], RequestsFor(clauses) + 1)
<1> DEFINE clauses == ClausesOf(op)
           options == OptionsOf(op)
           n == RequestsFor(clauses)
           simulated == SimulateTransaction(clauses, options, 1)
<1>1. /\ options.revision = Malformed => simulated = Throw
      /\ options.revision # Malformed =>
           simulated = IF Len(got) < n THEN [ask |-> RequestFor(clauses, options, Len(got) + 1)]
                       ELSE [ret |-> got[n], next |-> n + 1]
  BY ClausesKnown, SimulationGoes, BadRevisionThrows
<1>2. CASE op.name = "simulateTransaction"
  <2>1. PerformOnContract(op) = simulated
    BY <1>2 DEF PerformOnContract, Perform, ClausesOf, OptionsOf
  <2> HIDE DEF simulated, n, options, clauses
  <2>2. Uses(op, got[n], n + 1) = [ret |-> got[n], next |-> n + 1]
    BY <1>2 DEF Uses, Return
  <2>3. Asking(op) <=> options.revision # Malformed
    BY <1>2 DEF Asking, options
  <2> QED
    BY <1>1, <2>1, <2>2, <2>3 DEF clauses, n, options
<1>3. CASE op.name = "executeCall"
  <2>1. PerformOnContract(op) = Then(simulated, LAMBDA results, j : CallResult(op.fragment, results[1], j))
    BY <1>3 DEF PerformOnContract, Perform, ClausesOf, OptionsOf, ExecuteCall
  <2> HIDE DEF simulated, n, options, clauses
  <2>2. Uses(op, got[n], n + 1) = CallResult(op.fragment, got[n][1], n + 1)
    BY <1>3 DEF Uses
  <2>3. Asking(op) <=> options.revision # Malformed
    BY <1>3 DEF Asking, options
  <2>4. /\ simulated = [ret |-> got[n], next |-> n + 1] =>
             PerformOnContract(op) = CallResult(op.fragment, got[n][1], n + 1)
        /\ "ret" \notin DOMAIN simulated => PerformOnContract(op) = simulated
    BY <2>1 DEF Then
  <2> QED
    BY <1>1, <2>2, <2>3, <2>4 DEF clauses, n, options, Throw
<1>4. CASE op.name = "read"
  <2>1. PerformOnContract(op) = Read(op)
    BY <1>4 DEF PerformOnContract
  <2>2. CASE ~CanEncode(op.member, ArgsOf(op).args)
    BY <1>4, <2>1, <2>2 DEF Read, ArgsOf, Asking
  <2>3. CASE CanEncode(op.member, ArgsOf(op).args)
    <3>1. Read(op) = Then(simulated, LAMBDA results, j : CallResult(Functions[op.member], results[1], j))
      BY <1>4, <2>3 DEF Read, ArgsOf, ExecuteCall, ClausesOf, OptionsOf
    <3>2. op.options # Null
      BY <1>4, <2>3 DEF AwaitsAddress, CanEncode
    <3> HIDE DEF simulated, n, options, clauses
    <3>3. Uses(op, got[n], n + 1) = CallResult(Functions[op.member], got[n][1], n + 1)
      BY <1>4 DEF Uses
    <3>4. Asking(op) <=> options.revision # Malformed
      BY <1>4, <2>3, <3>2 DEF Asking, options
    <3>5. /\ simulated = [ret |-> got[n], next |-> n + 1] =>
               Read(op) = CallResult(Functions[op.member], got[n][1], n + 1)
          /\ "ret" \notin DOMAIN simulated => Read(op) = simulated
      BY <3>1 DEF Then
    <3> QED
      BY <1>1, <2>1, <3>3, <3>4, <3>5 DEF clauses, n, options, Throw
  <2> QED
    BY <2>2, <2>3
<1>5. CASE op.name = "executeMultipleClausesCall"
  <2> DEFINE Decoded(results, j) ==
               LET decoded == [k \in DOMAIN results |->
                                 DecodeOutput(op.clauses[k].fragment, results[k].data, j)]
               IN  IF \A k \in DOMAIN results : "ret" \in DOMAIN decoded[k]
                   THEN Return([k \in DOMAIN results |-> decoded[k].ret], j)
                   ELSE Throw
  <2>1. PerformOnContract(op) = Then(simulated, LAMBDA results, j : Decoded(results, j))
    BY <1>5 DEF PerformOnContract, ExecuteMultipleClausesCall, ClausesOf, OptionsOf
  <2> HIDE DEF simulated, n, options, clauses
  <2>2. Uses(op, got[n], n + 1) = Decoded(got[n], n + 1)
    BY <1>5 DEF Uses
  <2>3. Asking(op) <=> options.revision # Malformed
    BY <1>5 DEF Asking, options
  <2>4. simulated = [ret |-> got[n], next |-> n + 1] => PerformOnContract(op) = Decoded(got[n], n + 1)
    BY <2>1 DEF Then
  <2>5. "ret" \notin DOMAIN simulated => PerformOnContract(op) = simulated
    BY <2>1 DEF Then
  <2> HIDE DEF Decoded
  <2> QED
    BY <1>1, <2>2, <2>3, <2>4, <2>5 DEF clauses, n, options, Throw
<1> QED
  BY <1>2, <1>3, <1>4, <1>5 DEF Simulating

-----------------------------------------------------------------------------
\* What was asked and answered stays so.
LEMMA RequestsForKept ==
  ASSUME NEW clauses, trunk'[1] = trunk[1]
  PROVE  RequestsFor(clauses)' = RequestsFor(clauses) /\ RequestsFor(clauses) \in {1, 2, 3}
BY DEF RequestsFor, RegistryKnown

\* A request to come does not change with the answers that do.
LEMMA RequestForKept ==
  ASSUME NEW clauses, NEW options, trunk'[1] = trunk[1], Len(got) \in Nat,
         \A i \in 1 .. Len(got) : got'[i] = got[i], NEW k \in 1 .. Len(got) + 1
  PROVE  RequestFor(clauses, options, k)' = RequestFor(clauses, options, k)
<1>1. RegistryKnown' = RegistryKnown
  BY DEF RegistryKnown
<1>2. RegistryClause(clauses)' = RegistryClause(clauses)
  BY DEF RegistryClause
<1>3. RequestsFor(clauses)' = RequestsFor(clauses)
  BY RequestsForKept
<1>4. ASSUME k = RequestsFor(clauses) PROVE Resolved(clauses)' = Resolved(clauses)
  <2>1. CASE RegistryKnown /\ UniqueNames(clauses) # <<>>
    <3>1. k = 3
      BY <1>4, <2>1 DEF RequestsFor
    <3>2. 2 \in 1 .. Len(got)
      BY <3>1
    <3> QED
      BY <1>1, <2>1, <3>2 DEF Resolved
  <2>2. CASE ~(RegistryKnown /\ UniqueNames(clauses) # <<>>)
    BY <1>1, <2>2 DEF Resolved
  <2> QED
    BY <2>1, <2>2
<1> QED
  BY <1>2, <1>3, <1>4 DEF RequestFor, GenesisRequest

\* Nor does an answer go bad while the operation runs.
LEMMA AnswersKept ==
  ASSUME NEW clauses, trunk'[1] = trunk[1], bests \subseteq bests', NEW k, NEW a,
         Answers(clauses, k, a)
  PROVE  Answers(clauses, k, a)'
<1>1. RequestsFor(clauses)' = RequestsFor(clauses)
  BY RequestsForKept
<1> QED
  BY <1>1 DEF Answers

Asked(clauses, options) ==
  /\ Len(sent) <= RequestsFor(clauses)
  /\ \A k \in 1 .. Len(sent) : sent[k] = RequestFor(clauses, options, k)
  /\ \A k \in 1 .. Len(got) : Answers(clauses, k, got[k])
  /\ \A r \in Requests : stage[r] = "json" => Answers(clauses, r, answer)

\* A step that adds the next request or its answer keeps what was asked.
LEMMA AskedKept ==
  ASSUME SessionOK, NEW clauses, NEW options, Asked(clauses, options),
         trunk'[1] = trunk[1], bests \subseteq bests',
         \/ sent' = sent
         \/ /\ sent' = Append(sent, RequestFor(clauses, options, Len(got) + 1))
            /\ Len(sent) = Len(got) /\ Len(got) < RequestsFor(clauses),
         \/ got' = got
         \/ got' = Append(got, answer) /\ Answers(clauses, Len(got) + 1, answer),
         \A r \in Requests : stage'[r] = "json" => Answers(clauses, r, answer')
  PROVE  Asked(clauses, options)'
<1>1. RequestsFor(clauses)' = RequestsFor(clauses) /\ RequestsFor(clauses) \in Nat
  BY RequestsForKept
<1>2. Len(sent) \in Nat /\ Len(got) \in Nat /\ Len(sent) <= Len(got) + 1
  BY DEF SessionOK, IsSequence
<1>3. \A i \in 1 .. Len(got) : got'[i] = got[i]
  BY SequenceAppend DEF SessionOK
<1>4. Len(sent') <= RequestsFor(clauses)
  <2>1. CASE sent' = sent
    BY <2>1 DEF Asked
  <2>2. CASE sent' # sent
    BY <1>1, <1>2, <2>2, SequenceAppend DEF SessionOK
  <2> QED
    BY <2>1, <2>2
<1>5. ASSUME NEW k \in 1 .. Len(sent')
      PROVE  k \in 1 .. Len(got) + 1 /\ sent'[k] = RequestFor(clauses, options, k)
  <2>1. CASE sent' = sent
    BY <1>2, <2>1 DEF Asked
  <2>2. CASE sent' # sent
    <3>1. /\ Len(sent') = Len(sent) + 1 /\ \A i \in 1 .. Len(sent) : sent'[i] = sent[i]
          /\ sent'[Len(sent) + 1] = RequestFor(clauses, options, Len(got) + 1)
      BY <2>2, SequenceAppend DEF SessionOK
    <3>2. Len(sent) = Len(got)
      BY <2>2
    <3>3. k \in 1 .. Len(sent) \/ k = Len(sent) + 1
      BY <1>2, <3>1
    <3> QED
      BY <1>2, <3>1, <3>2, <3>3 DEF Asked
  <2> QED
    BY <2>1, <2>2
<1>6. ASSUME NEW k \in 1 .. Len(got') PROVE Answers(clauses, k, got'[k])
  <2>1. CASE got' = got
    BY <2>1 DEF Asked
  <2>2. CASE got' # got
    <3>1. /\ Len(got') = Len(got) + 1 /\ \A i \in 1 .. Len(got) : got'[i] = got[i]
          /\ got'[Len(got) + 1] = answer
      BY <2>2, SequenceAppend DEF SessionOK
    <3>2. k \in 1 .. Len(got) \/ k = Len(got) + 1
      BY <1>2, <3>1
    <3> QED
      BY <2>2, <3>1, <3>2 DEF Asked
  <2> QED
    BY <2>1, <2>2
<1>7. ASSUME NEW k \in 1 .. Len(sent') PROVE sent'[k] = RequestFor(clauses, options, k)'
  <2>1. k \in 1 .. Len(got) + 1
    BY <1>5
  <2>2. RequestFor(clauses, options, k)' = RequestFor(clauses, options, k)
    BY <1>2, <1>3, <2>1, RequestForKept
  <2> QED
    BY <1>5, <2>2
<1>8. ASSUME NEW k \in 1 .. Len(got') PROVE Answers(clauses, k, got[k])'
  <2> DEFINE a == got'[k]
  <2>1. Answers(clauses, k, a)
    BY <1>6
  <2> QED
    BY <2>1, AnswersKept
<1>9. ASSUME NEW r \in Requests, stage'[r] = "json" PROVE Answers(clauses, r, answer)'
  BY <1>9, AnswersKept
<1> QED
  BY <1>1, <1>4, <1>7, <1>8, <1>9 DEF Asked

\* What was asked is what simulating the clauses asks, and what comes out is what the
\* code makes of the answers.
SimInv ==
  /\ op = Null => outcome = Null
  /\ op # Null /\ op.name \in Simulating =>
       /\ Asked(ClausesOf(op), OptionsOf(op))
       /\ sent # <<>> => Asking(op)
       /\ Returns =>
            LET n == RequestsFor(ClausesOf(op))
            IN  /\ Asking(op) /\ Len(got) = n /\ Len(sent) = n
                /\ "ret" \in DOMAIN Uses(op, got[n], n + 1)
                /\ outcome.ret = Uses(op, got[n], n + 1).ret

\* Before the first request.
LEMMA NothingAsked ==
  ASSUME SessionOK, sent = <<>>, NEW clauses, NEW options
  PROVE  Asked(clauses, options)
<1>1. Len(sent) = 0 /\ Len(got) = 0
  BY DEF SessionOK, IsSequence
<1>2. \A r \in Requests : stage[r] # "json"
  BY <1>1, RequestsAreNumbers DEF SessionOK, Pending
<1>3. RequestsFor(clauses) \in {1, 2, 3}
  BY DEF RequestsFor
<1> QED
  BY <1>1, <1>2, <1>3 DEF Asked

\* An operation that has asked nothing.
LEMMA SimStarts ==
  ASSUME SessionOK, sent = <<>>, outcome = Null
  PROVE  SimInv
BY NothingAsked DEF SimInv, Returns

\* At the start.
LEMMA SimInit == ContractInit => SimInv
<1> SUFFICES ASSUME ContractInit PROVE SimInv
  OBVIOUS
<1>1. sent = <<>> /\ outcome = Null
  BY DEF ContractInit, ThorInit
<1> QED
  BY <1>1, SessionInit, SimStarts

\* While the operation stays and nothing comes out of it.
LEMMA SimStays ==
  ASSUME SimInv, NEW clauses, NEW options, UNCHANGED op, op # Null,
         op.name \in Simulating => clauses = ClausesOf(op) /\ options = OptionsOf(op)
                                   /\ Asked(clauses, options)',
         sent' # <<>> => sent # <<>> \/ Asking(op),
         ~Returns'
  PROVE  SimInv'
<1>1. UNCHANGED <<ClausesOf(op), OptionsOf(op), Asking(op)>>
  BY DEF ClausesOf, OptionsOf, Asking, ArgsOf
<1> QED
  BY <1>1 DEF SimInv

\* The step of the operation.
LEMMA SimProceeds ==
  ASSUME SessionOK, OpOK, SimInv, ContractProceeds
  PROVE  SimInv'
<1> DEFINE step == PerformOnContract(op)
<1>1. /\ op # Null /\ outcome = Null /\ ~AwaitsAddress(op) /\ Len(sent) = Len(got)
      /\ UNCHANGED <<op, got, nodeVars>> /\ IsSequence(got)
      /\ Asks(step) \/ Ends(step)
  BY DEF ContractProceeds, Asks, Ends, Running, SessionOK
<1>2. CASE op.name \notin Simulating
  BY <1>1, <1>2 DEF SimInv
<1>3. CASE op.name \in Simulating
  <2>0. PICK clauses, options, n, used :
          /\ clauses = ClausesOf(op) /\ options = OptionsOf(op)
          /\ n = RequestsFor(clauses) /\ used = Uses(op, got[n], n + 1)
    OBVIOUS
  <2>1. /\ Asked(clauses, options) /\ (sent # <<>> => Asking(op))
        /\ Len(got) \in Nat /\ Len(got) <= n /\ n \in {1, 2, 3}
    <3>1. Asked(clauses, options) /\ (sent # <<>> => Asking(op))
      BY <1>1, <1>3, <2>0 DEF SimInv
    <3>2. Len(got) \in Nat
      BY <1>1 DEF IsSequence
    <3>3. n \in {1, 2, 3}
      BY <2>0 DEF RequestsFor
    <3> QED
      BY <1>1, <2>0, <3>1, <3>2, <3>3 DEF Asked
  <2>2. step = IF ~Asking(op) THEN Throw
               ELSE IF Len(got) < n THEN [ask |-> RequestFor(clauses, options, Len(got) + 1)]
               ELSE used
    <3>1. \A k \in 1 .. Len(got) : Answers(clauses, k, got[k])
      BY <2>1 DEF Asked
    <3> QED
      BY <1>1, <1>3, <2>0, <3>1, SimulatingGoes
  <2>3. "ask" \notin DOMAIN used
    BY <1>3, <2>0 DEF Uses, CallResult, DecodeOutput, Return, Throw, Simulating
  <2>4. /\ clauses = ClausesOf(op)' /\ options = OptionsOf(op)' /\ UNCHANGED Asking(op)
        /\ n = RequestsFor(clauses)' /\ used = Uses(op, got[n], n + 1)'
    <3>1. trunk'[1] = trunk[1]
      BY <1>1 DEF nodeVars
    <3>2. n = RequestsFor(clauses)'
      BY <2>0, <3>1, RequestsForKept
    <3>3. used = Uses(op, got[n], n + 1)'
      BY <1>1, <2>0 DEF Uses, CallResult, DecodeOutput, Return
    <3> QED
      BY <1>1, <2>0, <3>2, <3>3 DEF ClausesOf, OptionsOf, Asking, ArgsOf
  <2> HIDE DEF step
  <2>5. CASE Asks(step)
    <3>1. "ask" \in DOMAIN step
      BY <2>5 DEF Asks
    <3>2. Asking(op) /\ Len(got) < n /\ step.ask = RequestFor(clauses, options, Len(got) + 1)
      BY <2>2, <2>3, <3>1 DEF Throw
    <3>3. ~Returns'
      BY <1>1, <2>5 DEF Asks, Returns
    <3>4. UNCHANGED <<trunk, bests>>
      BY <1>1 DEF nodeVars
    <3>5. sent' = sent \/ sent' = Append(sent, RequestFor(clauses, options, Len(got) + 1))
      BY <2>5, <3>2 DEF Asks
    <3>6. \A r \in Requests : stage'[r] = "json" => stage[r] = "json" /\ answer' = answer
      BY <2>5 DEF Asks, Send, InvalidUrl, Goes, SessionOK
    <3>7. Asked(clauses, options)'
      <4>1. \A r \in Requests : stage'[r] = "json" => Answers(clauses, r, answer')
        BY <2>1, <3>6 DEF Asked
      <4> QED
        BY <1>1, <2>0, <2>1, <3>2, <3>4, <3>5, <4>1, AskedKept
    <3> QED
      BY <1>1, <3>2, <3>3, <3>7, SimStays, <2>0
  <2>6. CASE Ends(step)
    <3>1. "ask" \notin DOMAIN step /\ UNCHANGED <<sent, stage, answer>>
          /\ outcome' = IF "ret" \in DOMAIN step THEN [ret |-> step.ret] ELSE Thrown
      BY <2>6 DEF Ends, httpVars
    <3>2. UNCHANGED <<trunk, bests>>
      BY <1>1 DEF nodeVars
    <3>3. Asked(clauses, options)'
      <4>1. \A r \in Requests : stage'[r] = "json" => Answers(clauses, r, answer')
        BY <2>1, <3>1 DEF Asked
      <4> QED
        <5>1. trunk'[1] = trunk[1] /\ bests \subseteq bests' /\ got' = got /\ sent' = sent
          BY <1>1, <3>1, <3>2
        <5>2. Asked(clauses, options)
          BY <2>1
        <5> QED
          BY <4>1, <5>1, <5>2, AskedKept
    <3>4. CASE ~Returns'
      BY <1>1, <3>1, <3>3, <3>4, SimStays, <2>0
    <3>5. CASE Returns'
      <4>1. "ret" \in DOMAIN step
        BY <3>1, <3>5 DEF Returns
      <4>2. Asking(op) /\ Len(got) = n /\ step = used
        BY <2>1, <2>2, <3>1, <4>1 DEF Throw
      <4>3. outcome'.ret = used.ret
        BY <3>1, <4>1, <4>2
      <4> QED
        BY <1>1, <2>1, <2>4, <3>1, <3>3, <4>1, <4>2, <4>3 DEF SimInv
    <3> QED
      BY <3>4, <3>5
  <2> QED
    BY <1>1, <2>5, <2>6
<1> QED
  BY <1>2, <1>3

\* A step of others.
LEMMA SimMeanwhile ==
  ASSUME SessionOK, SimInv, UNCHANGED <<op, stage, sent, got, answer, outcome>>,
         op # Null => trunk'[1] = trunk[1] /\ bests \subseteq bests'
  PROVE  SimInv'
<1>1. CASE op = Null \/ op.name \notin Simulating
  BY <1>1 DEF SimInv
<1>2. CASE op # Null /\ op.name \in Simulating
  <2>1. PICK clauses, options, n, used :
          /\ clauses = ClausesOf(op) /\ options = OptionsOf(op)
          /\ n = RequestsFor(clauses) /\ used = Uses(op, got[n], n + 1)
    OBVIOUS
  <2>2. Asked(clauses, options)
    BY <1>2, <2>1 DEF SimInv
  <2>3. Asked(clauses, options)'
    <3>1. \A r \in Requests : stage'[r] = "json" => Answers(clauses, r, answer')
      BY <2>2 DEF Asked
    <3> QED
      BY <1>2, <2>2, <3>1, AskedKept
  <2>4. n = RequestsFor(clauses)'
    BY <1>2, <2>1, RequestsForKept
  <2>5. used = Uses(op, got[n], n + 1)'
    BY <2>1 DEF Uses, CallResult, DecodeOutput, Return
  <2>6. /\ clauses = ClausesOf(op)' /\ options = OptionsOf(op)' /\ UNCHANGED Asking(op)
    BY <2>1 DEF ClausesOf, OptionsOf, Asking, ArgsOf
  <2>7. UNCHANGED Returns
    BY DEF Returns
  <2>8. /\ sent # <<>> => Asking(op)
        /\ Returns => /\ Asking(op) /\ Len(got) = n /\ Len(sent) = n
                      /\ "ret" \in DOMAIN used /\ outcome.ret = used.ret
    BY <1>2, <2>1 DEF SimInv
  <2> QED
    BY <2>3, <2>4, <2>5, <2>6, <2>7, <2>8 DEF SimInv
<1> QED
  BY <1>1, <1>2

\* The node responds: to what was asked.
LEMMA SimResponds ==
  ASSUME SessionOK, OpOK, SimInv, NEW r \in Requests, Responds(r)
  PROVE  SimInv'
<1>1. /\ r = Len(sent) /\ Len(sent) = Len(got) + 1
      /\ outcome' = IF stage'[r] = "rejected" THEN Thrown ELSE outcome
      /\ UNCHANGED <<op, sent, got, nodeVars>>
      /\ stage'[r] = "json" => answer' = Node(sent[r]) /\ Node(sent[r]) # Refused
  BY RespondsGoes
<1>2. op # Null /\ sent # <<>> /\ r \in 1 .. Len(sent)
  BY <1>1, RequestsAreNumbers DEF SessionOK, IsSequence
<1>3. UNCHANGED <<trunk, bests>>
  BY <1>1 DEF nodeVars
<1>4. op.name \in Simulating => ~Returns'
  BY <1>1, <1>2 DEF SimInv, Returns
<1>5. PICK clauses, options : clauses = ClausesOf(op) /\ options = OptionsOf(op)
  OBVIOUS
<1>6. ASSUME op.name \in Simulating PROVE Asked(clauses, options)'
  <2>1. Asked(clauses, options) /\ Asking(op)
    BY <1>2, <1>5, <1>6 DEF SimInv
  <2>2. sent[r] = RequestFor(clauses, options, r) /\ r \in 1 .. RequestsFor(clauses)
    <3>1. RequestsFor(clauses) \in Nat /\ r \in Nat
      BY <1>2, RequestsAreNumbers DEF RequestsFor
    <3> QED
      BY <1>1, <1>2, <2>1, <3>1 DEF Asked
  <2>3. ASSUME stage'[r] = "json" PROVE Answers(clauses, r, answer')
    <3>1. answer' = Node(RequestFor(clauses, options, r)) /\ Node(RequestFor(clauses, options, r)) # Refused
      BY <1>1, <2>2, <2>3
    <3>2. /\ UniqueNames(clauses) \in Seq(Names)
          /\ \A i \in DOMAIN clauses : clauses[i].data.call \in DOMAIN Simulated
      BY <1>2, <1>5, <1>6, <2>1, ClausesKnown
    <3>3. trunk \in Trunks /\ Last(trunk) \in bests
      BY <1>2 DEF SessionOK
    <3> QED
      BY <2>2, <3>1, <3>2, <3>3, NodeAnswers
  <2>4. \A q \in Requests : stage'[q] = "json" => q = r
    <3>1. \A q \in Requests : q # r => stage'[q] = stage[q]
      BY RespondsGoes DEF SessionOK
    <3> QED
      BY <1>1, <3>1 DEF SessionOK, Pending
  <2>5. \A q \in Requests : stage'[q] = "json" => Answers(clauses, q, answer')
    BY <2>3, <2>4
  <2> QED
    BY <1>1, <1>3, <2>1, <2>5, AskedKept
<1>7. CASE op.name \in Simulating
  BY <1>1, <1>2, <1>4, <1>5, <1>6, <1>7, SimStays
<1>8. CASE op.name \notin Simulating
  BY <1>1, <1>2, <1>8 DEF SimInv
<1> QED
  BY <1>7, <1>8

\* A request settles.
LEMMA SimSettles ==
  ASSUME SessionOK, OpOK, SimInv, NEW r \in Requests, Elapses(r) \/ Fires(r)
  PROVE  SimInv'
<1>1. /\ UNCHANGED <<op, sent, trunk, bests>>
      /\ outcome' = IF stage'[r] = "rejected" THEN Thrown ELSE outcome
  BY SettlesGoes DEF nodeVars
<1>2. CASE UNCHANGED <<stage, got, answer>>
  <2>1. outcome' = outcome
    BY <1>1, <1>2 DEF SessionOK
  <2> QED
    BY <1>1, <1>2, <2>1, SimMeanwhile
<1>3. CASE ~UNCHANGED <<stage, got, answer>>
  <2>1. r = Len(sent) /\ Len(sent) = Len(got) + 1
    BY <1>3, SettlesGoes
  <2>2. op # Null /\ Len(sent) # Len(got) /\ sent # <<>>
    BY <2>1, RequestsAreNumbers DEF SessionOK, IsSequence
  <2>3. op.name \in Simulating => ~Returns
    BY <2>2 DEF SimInv
  <2>4. PICK clauses, options : clauses = ClausesOf(op) /\ options = OptionsOf(op)
    OBVIOUS
  <2>5. ASSUME op.name \in Simulating PROVE Asked(clauses, options)'
    <3>1. Asked(clauses, options)
      BY <2>2, <2>4, <2>5 DEF SimInv
    <3>2. CASE stage' = [stage EXCEPT ![r] = "rejected"] /\ got' = got
      <4>1. \A q \in Requests : stage'[q] = "json" => FALSE
        BY <2>1, <3>2 DEF SessionOK, Pending
      <4> QED
        BY <1>1, <3>1, <3>2, <4>1, AskedKept
    <3>3. CASE /\ stage' = [stage EXCEPT ![r] = "resolved"] /\ got' = Append(got, answer)
               /\ stage[r] = "json"
      <4>1. \A q \in Requests : stage'[q] = "json" => FALSE
        BY <2>1, <3>3 DEF SessionOK, Pending
      <4>2. Answers(clauses, Len(got) + 1, answer)
        BY <2>1, <3>1, <3>3 DEF Asked
      <4> QED
        BY <1>1, <3>1, <3>3, <4>1, <4>2, AskedKept
    <3> QED
      BY <1>3, <3>2, <3>3, SettlesGoes
  <2>6. op.name \in Simulating => ~Returns'
    BY <1>1, <2>3 DEF Returns
  <2>7. CASE op.name \in Simulating
    BY <1>1, <2>2, <2>4, <2>5, <2>6, <2>7, SimStays
  <2>8. CASE op.name \notin Simulating
    BY <1>1, <2>2, <2>8 DEF SimInv
  <2> QED
    BY <2>7, <2>8
<1> QED
  BY <1>2, <1>3

\* An operation begins, or learns of its options, before it asks.
LEMMA SimBegins ==
  ASSUME SessionOK', sent' = <<>>, outcome' = Null
  PROVE  SimInv'
<1>1. Len(sent') = 0 /\ Len(got') = 0
  BY DEF SessionOK, IsSequence
<1>2. \A r \in Requests : stage'[r] # "json"
  BY <1>1, RequestsAreNumbers DEF SessionOK, Pending
<1>3. ASSUME NEW clauses, NEW options PROVE Asked(clauses, options)'
  <2>1. RequestsFor(clauses)' \in {1, 2, 3}
    BY DEF RequestsFor
  <2> QED
    BY <1>1, <1>2, <2>1 DEF Asked
<1>4. ~Returns'
  BY DEF Returns
<1>5. PICK clauses, options : clauses = ClausesOf(op)' /\ options = OptionsOf(op)'
  OBVIOUS
<1>6. Asked(clauses, options)'
  BY <1>3
<1> QED
  BY <1>4, <1>5, <1>6 DEF SimInv

\* Every step keeps it.
LEMMA SimKept == SessionOK /\ OpOK /\ SimInv /\ [ContractNext]_contractVars => SimInv'
<1> SUFFICES ASSUME SessionOK, OpOK, SimInv, [ContractNext]_contractVars PROVE SimInv'
  OBVIOUS
<1>1. ASSUME Begins PROVE SimInv'
  <2>1. sent' = <<>> /\ outcome' = Null
    BY <1>1 DEF Begins, Beside, SessionOK, SimInv
  <2> QED
    BY <2>1, SessionKept, SimBegins
<1>2. ASSUME AddressArrives, Beside PROVE SimInv'
  <2>1. op # Null /\ outcome = Null /\ ~Asking(op) /\ op.name \in Simulating
    BY <1>2 DEF AddressArrives, AwaitsAddress, Running, Asking, Simulating
  <2>2. sent' = <<>> /\ outcome' = Null
    BY <1>2, <2>1 DEF SimInv, Beside
  <2> QED
    BY <2>2, SessionKept, SimBegins
<1>3. ASSUME Meanwhile PROVE SimInv'
  BY <1>3, SimMeanwhile DEF Meanwhile, Beside
<1> QED
  BY <1>1, <1>2, <1>3, StepKinds, SimProceeds, SimResponds, SimSettles

-----------------------------------------------------------------------------
\* Who a read may call as.
CallersInv ==
  op # Null /\ op.name = "read" =>
    /\ contractCallOptions.caller \in callers
    /\ IF op.options = Null THEN CallerOf(op.signer) \in callers
                            ELSE op.options.caller \in callers

\* Every step keeps it.
LEMMA CallersKept == SessionOK /\ OpOK /\ CallersInv /\ [ContractNext]_contractVars => CallersInv'
<1> SUFFICES ASSUME SessionOK, OpOK, CallersInv, [ContractNext]_contractVars PROVE CallersInv'
  OBVIOUS
<1>1. ASSUME NEW c \in Calls, Call(c) PROVE CallersInv'
  <2>1. CASE c.name \notin OnContract
    <3>1. op' = c
      BY <1>1, <2>1 DEF Call, Start
    <3> QED
      BY <2>1, <3>1 DEF CallersInv, OnContract
  <2>2. CASE c.name \in OnContract
    <3> DEFINE options == IF c.name # "read" THEN contractTransactionOptions
                          ELSE IF signer # Null THEN Null ELSE contractCallOptions
    <3>1. /\ op' = [c EXCEPT !.signer = signer, !.options = options]
          /\ callers' = {CallerOf(signer), contractCallOptions.caller}
          /\ contractCallOptions' = contractCallOptions
      BY <1>1, <2>2 DEF Call, CallContract, contractState
    <3>2. c = [name |-> c.name, member |-> c.member, args |-> c.args, signer |-> Null,
               options |-> Null]
      BY <2>2, ContractAssumption
    <3>3. c.name = "read" => options \in {Null, contractCallOptions} /\ (options = Null => signer # Null)
      <4>1. contractCallOptions # Null
        <5>1. contractCallOptions \in Options
          BY DEF OpOK, Options
        <5> QED
          BY <5>1, ContractAssumption
      <4>2. CASE signer = Null
        BY <4>1, <4>2
      <4>3. CASE signer # Null
        BY <4>3
      <4> QED
        BY <4>2, <4>3
    <3> HIDE DEF options
    <3>4. op' = [name |-> c.name, member |-> c.member, args |-> c.args, signer |-> signer,
                 options |-> options]
      <4> DEFINE one == [c EXCEPT !.signer = signer]
      <4>1. one = [name |-> c.name, member |-> c.member, args |-> c.args, signer |-> signer,
                   options |-> Null]
        BY <3>2
      <4>2. op' = [one EXCEPT !.options = options]
        BY <3>1, Zenon
      <4> HIDE DEF one
      <4> QED
        BY <4>1, <4>2
    <3>5. op'.name = c.name /\ op'.signer = signer /\ op'.options = options
      BY <3>4
    <3> QED
      BY <3>1, <3>3, <3>5 DEF CallersInv, CallerOf
  <2> QED
    BY <2>1, <2>2
<1>2. ASSUME AddressArrives PROVE CallersInv'
  <2>1. UNCHANGED <<callers, contractCallOptions>> /\ op # Null
    BY <1>2 DEF AddressArrives, contractState, Running
  <2>2. contractCallOptions.caller \in callers /\ CallerOf(op.signer) \in callers
    BY <1>2, <2>1, AddressFound DEF CallersInv
  <2> QED
    BY <1>2, <2>1, <2>2, AddressFound DEF CallersInv
<1>3. ASSUME UNCHANGED <<op, callers, contractCallOptions>> PROVE CallersInv'
  BY <1>3 DEF CallersInv, CallerOf
<1>4. ASSUME ContractProceeds PROVE UNCHANGED <<op, callers, contractCallOptions>>
  BY <1>4 DEF ContractProceeds, Asks, Ends, contractState
<1>5. ASSUME Outside, UNCHANGED <<contractState, callers>>
      PROVE  UNCHANGED <<op, callers, contractCallOptions>>
  <2>1. ASSUME NEW r \in Requests, Responds(r) \/ Elapses(r) \/ Fires(r) PROVE op' = op
    BY <2>1 DEF Responds, Elapses, Fires, Settles
  <2>2. ASSUME TrunkMoves \/ SecondPasses PROVE op' = op
    BY <2>2 DEF TrunkMoves, SecondPasses, opVars
  <2> QED
    BY <1>5, <2>1, <2>2 DEF Outside, contractState
<1>6. ASSUME NEW s, SetSigner(s) \/ SetContractTransactOptions(s)
      PROVE  UNCHANGED <<op, callers, contractCallOptions>>
  BY <1>6 DEF SetSigner, SetContractTransactOptions, Changes, thorVars, opVars
<1>7. ASSUME NEW options, SetContractReadOptions(options) PROVE CallersInv'
  BY <1>7 DEF SetContractReadOptions, Changes, thorVars, opVars, CallersInv, CallerOf
<1>8. ASSUME UNCHANGED contractVars PROVE UNCHANGED <<op, callers, contractCallOptions>>
  BY <1>8 DEF contractVars, contractState, thorVars, opVars
<1> QED
  BY <1>1, <1>2, <1>3, <1>4, <1>5, <1>6, <1>7, <1>8 DEF ContractNext

-----------------------------------------------------------------------------
\* The invariant of the calls of contracts and of what they ask.
ContractInv == SessionOK /\ OpOK /\ SimInv /\ CallersInv

\* It is one: every part is kept with the help of the others.
LEMMA ContractInvariant == ContractSpec => []ContractInv
<1>1. ContractInit => ContractInv
  <2>1. ContractInit => CallersInv
    BY DEF ContractInit, ThorInit, CallersInv
  <2> QED
    BY <2>1, SessionInit, OpInit, SimInit DEF ContractInv
<1>2. ContractInv /\ [ContractNext]_contractVars => ContractInv'
  BY SessionKept, OpKept, SimKept, CallersKept DEF ContractInv
<1> QED
  BY <1>1, <1>2, PTL DEF ContractSpec

\* A sequence that holds nothing is empty.
LEMMA NoNames ==
  ASSUME NEW s \in Seq(Names), ToSet(s) = {}
  PROVE  s = <<>>
<1>1. Len(s) \in Nat /\ \A i \in 1 .. Len(s) : s[i] \in ToSet(s)
  BY DEF ToSet
<1>2. Len(s) = 0
  BY <1>1
<1> QED
  BY <1>2

\* The caller of a read.
LEMMA ReadCaller == ContractInv => CallerOfTheCall
<1> SUFFICES ASSUME ContractInv, op # Null, op.name = "read", sent # <<>>
             PROVE  Last(sent).caller \in callers
  BY DEF CallerOfTheCall
<1> DEFINE clauses == ClausesOf(op)
<1>1. SessionOK /\ OpOK /\ SimInv /\ CallersInv /\ op.name \in Simulating
  BY DEF ContractInv, Simulating
<1>2. Asked(clauses, OptionsOf(op)) /\ Asking(op)
  BY <1>1 DEF SimInv
<1>3. UniqueNames(clauses) = <<>>
  <2> DEFINE c == [to |-> ContractAddress, data |-> [call |-> op.member, args |-> ArgsOf(op).args]]
  <2>1. clauses = <<c>>
    BY DEF ClausesOf
  <2>2. c.to \notin Names
    BY ContractAssumption
  <2> HIDE DEF c
  <2>3. \A i \in DOMAIN clauses : clauses[i] = c
    BY <2>1
  <2>4. ToSet(UniqueNames(clauses)) = {}
    BY <1>1, <2>2, <2>3, ClausesKnown
  <2> QED
    BY <1>1, <2>4, ClausesKnown, NoNames
<1>4. RequestsFor(clauses) = 1
  BY <1>3 DEF RequestsFor
<1>5. Len(sent) \in Nat /\ Len(sent) > 0
  BY <1>1 DEF SessionOK, IsSequence
<1>6. Last(sent) = SimulationOf(Resolved(clauses), OptionsOf(op))
  <2> HIDE DEF clauses
  <2>1. Len(sent) = 1
    <3>1. Len(sent) <= 1
      BY <1>2, <1>4 DEF Asked
    <3> QED
      BY <1>5, <3>1
  <2>2. sent[1] = RequestFor(clauses, OptionsOf(op), 1)
    BY <1>2, <2>1 DEF Asked
  <2> QED
    BY <1>4, <2>1, <2>2 DEF RequestFor, Last
<1>7. Last(sent).caller = op.options.caller
  BY <1>6 DEF SimulationOf, OptionsOf
<1> QED
  BY <1>1, <1>2, <1>7 DEF CallersInv, Asking

\* A read of a contract, executeCall behind its proxy, is made as the signer that it had when
\* the read was called, or as the caller of its options since, whatever was set meanwhile.
THEOREM ReadsAsCalled == ContractSpec => []CallerOfTheCall
BY ContractInvariant, ReadCaller, PTL

\* SelectInSeq finds.
PlaceIn(s, e) == SelectInSeq(s, LAMBDA x : x = e)

\* What is searched for and is there is found.
LEMMA FirstIsThere ==
  ASSUME NEW s, Len(s) \in Nat, DOMAIN s = 1 .. Len(s), NEW e, e \in ToSet(s)
  PROVE  PlaceIn(s, e) \in DOMAIN s /\ s[PlaceIn(s, e)] = e
<1> DEFINE I == {i \in 1 .. Len(s) : s[i] = e}
<1>1. I # {} /\ I \in SUBSET Nat
  BY DEF ToSet
<1>2. PICK m \in I : \A i \in I : m <= i
  BY <1>1, LeastNumber
<1>3. Min(I) \in I
  <2> HIDE DEF I
  <2> QED
    BY <1>2 DEF Min
<1>4. PlaceIn(s, e) = Min(I)
  BY <1>1 DEF PlaceIn, SelectInSeq
<1> QED
  BY <1>3, <1>4

\* The recipient of a clause once the names have addresses.
LEMMA AddressOfClause ==
  ASSUME NEW clauses, NEW names, NEW addresses, NEW k \in DOMAIN clauses
  PROVE  WithAddresses(clauses, names, addresses)[k].to =
           IF /\ clauses[k].to \in ToSet(names)
              /\ addresses[PlaceIn(names, clauses[k].to)] # Null
           THEN addresses[PlaceIn(names, clauses[k].to)] ELSE clauses[k].to
BY DEF WithAddresses, PlaceIn

\* Every name of the clauses gets the address that it has at one block.
LEMMA NamesResolved == ContractInv => NamesOfOneBlock
<1> SUFFICES ASSUME ContractInv, Returns, op.name = "simulateTransaction"
             PROVE  \E b \in bests : \A k \in DOMAIN op.clauses :
                      Last(sent).clauses[k].to =
                        IF /\ IsName(op.clauses[k].to) /\ trunk[1] \in DOMAIN Registries
                           /\ Registered[b][op.clauses[k].to] # Null
                        THEN Registered[b][op.clauses[k].to] ELSE op.clauses[k].to
  BY DEF NamesOfOneBlock
<1>1. SessionOK /\ OpOK /\ SimInv /\ op.name \in Simulating /\ op # Null
  BY DEF ContractInv, Simulating, SimInv, Returns
<1> DEFINE clauses == op.clauses
           names == UniqueNames(clauses)
           n == RequestsFor(clauses)
<1>2. ClausesOf(op) = clauses
  BY DEF ClausesOf
<1>3. Asked(clauses, OptionsOf(op)) /\ Len(sent) = n /\ Len(got) = n
  BY <1>1, <1>2 DEF SimInv
<1>4. n \in {1, 2, 3}
  BY DEF RequestsFor
<1>5. Last(sent).clauses = Resolved(clauses)
  <2>1. sent[n] = RequestFor(clauses, OptionsOf(op), n)
    BY <1>3, <1>4 DEF Asked
  <2>2. Last(sent) = SimulationOf(Resolved(clauses), OptionsOf(op))
    BY <1>3, <2>1 DEF Last, RequestFor
  <2> QED
    BY <2>2 DEF SimulationOf
<1>6. names \in Seq(Names) /\ ToSet(names) = {clauses[i].to : i \in DOMAIN clauses} \intersect Names
  BY <1>1, <1>2, ClausesKnown
<1>7. Last(trunk) \in bests
  BY <1>1 DEF SessionOK
<1>8. ASSUME NEW k \in DOMAIN clauses PROVE IsName(clauses[k].to) <=> clauses[k].to \in ToSet(names)
  BY <1>6 DEF IsName
<1> HIDE DEF clauses
<1>9. CASE names = <<>>
  <2>1. Resolved(clauses) = clauses
    BY <1>9 DEF Resolved
  <2>2. ToSet(names) = {}
    BY <1>9 DEF ToSet
  <2> QED
    BY <1>5, <1>7, <1>8, <2>1, <2>2 DEF clauses
<1>10. CASE names # <<>> /\ ~RegistryKnown
  <2> DEFINE nulls == [i \in DOMAIN names |-> Null]
  <2>1. Resolved(clauses) = WithAddresses(clauses, names, nulls)
    BY <1>10 DEF Resolved
  <2>2. ASSUME NEW k \in DOMAIN clauses PROVE Resolved(clauses)[k].to = clauses[k].to
    <3>1. CASE clauses[k].to \notin ToSet(names)
      BY <2>1, <3>1, AddressOfClause
    <3>2. CASE clauses[k].to \in ToSet(names)
      <4>1. PlaceIn(names, clauses[k].to) \in DOMAIN names
        BY <1>6, <3>2, FirstIsThere
      <4>2. nulls[PlaceIn(names, clauses[k].to)] = Null
        BY <4>1
      <4> HIDE DEF nulls, names
      <4> QED
        BY <2>1, <3>2, <4>2, AddressOfClause
    <3> QED
      BY <3>1, <3>2
  <2> QED
    BY <1>5, <1>7, <1>10, <2>2 DEF clauses, RegistryKnown
<1>11. CASE names # <<>> /\ RegistryKnown
  <2> DEFINE words == got[2][1].data.words
  <2>1. Resolved(clauses) = WithAddresses(clauses, names, words)
    BY <1>11 DEF Resolved
  <2>2. n = 3
    BY <1>11 DEF RequestsFor
  <2>3. PICK b \in bests : got[2][1] = RegistryResult(clauses, b)
    <3>1. Answers(clauses, 2, got[2])
      BY <1>3, <2>2 DEF Asked
    <3> QED
      BY <2>2, <3>1 DEF Answers
  <2>4. words = [i \in DOMAIN names |-> Registered[b][names[i]]]
    BY <2>3 DEF RegistryResult
  <2> HIDE DEF words
  <2>5. ASSUME NEW k \in DOMAIN clauses
        PROVE  Resolved(clauses)[k].to =
                 IF IsName(clauses[k].to) /\ Registered[b][clauses[k].to] # Null
                 THEN Registered[b][clauses[k].to] ELSE clauses[k].to
    <3>1. CASE clauses[k].to \notin ToSet(names)
      BY <1>8, <2>1, <3>1, AddressOfClause
    <3>2. CASE clauses[k].to \in ToSet(names)
      <4> DEFINE i == PlaceIn(names, clauses[k].to)
      <4>1. i \in DOMAIN names /\ names[i] = clauses[k].to
        BY <1>6, <3>2, FirstIsThere
      <4>2. words[i] = Registered[b][clauses[k].to]
        BY <2>4, <4>1
      <4> HIDE DEF names
      <4>3. Resolved(clauses)[k].to = IF words[i] = Null THEN clauses[k].to ELSE words[i]
        BY <2>1, <3>2, AddressOfClause
      <4> QED
        BY <1>8, <3>2, <4>2, <4>3
    <3> QED
      BY <3>1, <3>2
  <2> QED
    BY <1>5, <1>11, <2>5 DEF clauses, RegistryKnown
<1> QED
  BY <1>9, <1>10, <1>11

\* simulateTransaction resolves all names of its clauses as of one block that was best while it
\* ran, on every network and for every trunk that the node moves to.
THEOREM NamesAsOfOneBlock == ContractSpec => []NamesOfOneBlock
BY ContractInvariant, NamesResolved, PTL

-----------------------------------------------------------------------------
(***************************************************************************)
(* The reason of a revert.                                                 *)
(***************************************************************************)
\* What is made of the output of a clause, and what is asked for the one after k.
ReasonOf(output) ==
  IF output.selector = "Error" THEN [reason |-> output.words]
  ELSE IF output.selector = "Panic" THEN [panic |-> output.words] ELSE [unknown |-> TRUE]

\* What is decoded without an expected error.
LEMMA Decoded ==
  ASSUME NEW output, NEW i
  PROVE  DecodeRevertReason(output, Null, i) = [ret |-> ReasonOf(output), next |-> i]
BY DEF DecodeRevertReason, ReasonOf, Return

TargetOf(t, b, k) ==
  [block |-> b, transaction |-> [index |-> IndexInBlock(b, t.id)], clause |-> k]

TracerRequest(t, b, k) == [path |-> "tracers", target |-> TargetOf(t, b, k)]

AskClause(t, b, s, k) ==
  IF "ret" \notin DOMAIN s \/ s.ret # Null THEN s
  ELSE Then(TraceTransactionClause([block |-> b, transaction |-> [index |-> IndexInBlock(b, t.id)],
                                    clause |-> k], s.next),
            LAMBDA traced, j : IF traced.output = Null THEN Return(Null, j)
                               ELSE DecodeRevertReason(traced.output, Null, j))

\* A clause is asked for, or its output is used.
LEMMA AskClauseGoes ==
  ASSUME NEW t, NEW b, b # Malformed, IndexInBlock(b, t.id) \in Nat, NEW i \in Nat, NEW k \in Nat,
         Len(got) \in Nat
  PROVE  AskClause(t, b, [ret |-> Null, next |-> i], k) =
           IF i > Len(got) THEN [ask |-> TracerRequest(t, b, k)]
           ELSE [ret |-> IF got[i].output = Null THEN Null ELSE ReasonOf(got[i].output),
                 next |-> i + 1]
<1> DEFINE target == TargetOf(t, b, k)
           s == [ret |-> Null, next |-> i]
           Use(traced, j) == IF traced.output = Null THEN Return(Null, j)
                             ELSE DecodeRevertReason(traced.output, Null, j)
           traced == TraceTransactionClause(target, i)
<1>1. traced = Ask(TracerRequest(t, b, k), i)
  <2>1. ValidTarget(target)
    BY DEF ValidTarget, TargetOf
  <2> QED
    BY <2>1 DEF TraceTransactionClause, TracerRequest
<1>2. "ret" \in DOMAIN s /\ s.ret = Null /\ s.next = i
  OBVIOUS
<1>3. AskClause(t, b, s, k) = IF "ret" \in DOMAIN traced THEN Use(traced.ret, traced.next) ELSE traced
  <2> HIDE DEF s
  <2> QED
    BY <1>2 DEF AskClause, Then, TargetOf
<1> HIDE DEF Use, traced
<1>4. CASE i > Len(got)
  BY <1>1, <1>3, <1>4 DEF Ask
<1>5. CASE ~(i > Len(got))
  <2>1. traced = [ret |-> got[i], next |-> i + 1]
    BY <1>1, <1>5 DEF Ask
  <2>2. AskClause(t, b, s, k) = Use(got[i], i + 1)
    BY <1>3, <2>1
  <2>3. Use(got[i], i + 1) =
          [ret |-> IF got[i].output = Null THEN Null ELSE ReasonOf(got[i].output), next |-> i + 1]
    BY Decoded DEF Use, Return
  <2> QED
    BY <1>5, <2>2, <2>3
<1> QED
  BY <1>4, <1>5

AsksClauses(f, t, b, ks) ==
  f = [s \in SUBSET DOMAIN ks |->
         IF s = {} THEN Return(Null, 3) ELSE AskClause(t, b, f[s \ {Max(s)}], ks[Max(s)])]

\* The fold is there.
LEMMA ReasonEquation ==
  ASSUME NEW t, NEW b, b # Malformed, IndexInBlock(b, t.id) \in Nat, Len(got) \in Nat,
         NEW N, N \in Nat, N = Len(Trace[t.block][t.id])
  PROVE  \E f : /\ AsksClauses(f, t, b, [k \in 1 .. N |-> k - 1])
                /\ ReasonOfClauses(t, b, Null, 3) = f[1 .. N]
<1> DEFINE ks == [k \in 1 .. N |-> k - 1]
           Asked1 == {[ask |-> TracerRequest(t, b, k)] : k \in Nat}
           Values == {Null} \union {ReasonOf(got[i].output) : i \in Nat}
           Got == {[ret |-> v, next |-> i] : v \in Values, i \in Nat}
           A == Asked1 \union Got
           step == [k \in 1 .. N |-> [s \in A |-> AskClause(t, b, s, k - 1)]]
<1>1. ASSUME NEW s \in A, NEW k \in 1 .. N PROVE AskClause(t, b, s, k - 1) \in A
  <2>1. CASE "ret" \notin DOMAIN s \/ s.ret # Null
    <3> HIDE DEF A
    <3>1. AskClause(t, b, s, k - 1) = s
      BY <2>1 DEF AskClause, Then
    <3> QED
      BY <3>1
  <2>2. CASE ~("ret" \notin DOMAIN s \/ s.ret # Null)
    <3>1. s \in Got
      BY <2>2
    <3>2. PICK v \in Values, i \in Nat : s = [ret |-> v, next |-> i]
      BY <3>1
    <3>3. s = [ret |-> Null, next |-> i]
      BY <2>2, <3>2
    <3>4. k - 1 \in Nat
      OBVIOUS
    <3> DEFINE v2 == IF got[i].output = Null THEN Null ELSE ReasonOf(got[i].output)
    <3>5. AskClause(t, b, s, k - 1) =
            IF i > Len(got) THEN [ask |-> TracerRequest(t, b, k - 1)]
            ELSE [ret |-> v2, next |-> i + 1]
      BY <3>3, <3>4, AskClauseGoes
    <3>6. v2 \in Values /\ i + 1 \in Nat
      OBVIOUS
    <3> HIDE DEF v2, Values
    <3> QED
      BY <3>4, <3>5, <3>6
  <2> HIDE DEF A
  <2> QED
    BY <2>1, <2>2
<1>2. Return(Null, 3) \in A
  BY DEF Return
<1> HIDE DEF A
<1>3. step \in [1 .. N -> [A -> A]]
  BY <1>1
<1>4. PICK f : Folds(f, A, Return(Null, 3), step, N)
  <2> HIDE DEF step
  <2> QED
    BY <1>2, <1>3, FoldExists
<1>5. ASSUME NEW s \in SUBSET (1 .. N), s # {}
      PROVE  f[s] = AskClause(t, b, f[s \ {Max(s)}], ks[Max(s)])
  <2>1. f[s] = step[Max(s)][f[s \ {Max(s)}]]
    <3> HIDE DEF step
    <3> QED
      BY <1>4, <1>5 DEF Folds
  <2>2. Max(s) \in 1 .. N
    BY <1>5, MaxIsMember
  <2>3. f[s \ {Max(s)}] \in A
    <3> HIDE DEF step
    <3> QED
      BY <1>4 DEF Folds
  <2> QED
    BY <2>1, <2>2, <2>3
<1>6. AsksClauses(f, t, b, ks)
  <2>1. f \in [SUBSET (1 .. N) -> A] /\ f[{}] = Return(Null, 3)
    <3> HIDE DEF step
    <3> QED
      BY <1>4 DEF Folds
  <2>2. DOMAIN ks = 1 .. N
    OBVIOUS
  <2> HIDE DEF step, ks
  <2> QED
    BY <1>5, <2>1, <2>2 DEF AsksClauses
<1>7. AsksClauses(CHOOSE g : AsksClauses(g, t, b, ks), t, b, ks)
  BY <1>6
<1>8. ReasonOfClauses(t, b, Null, 3) = (CHOOSE g : AsksClauses(g, t, b, ks))[DOMAIN ks]
  BY DEF ReasonOfClauses, FoldLeft, MapThenFoldSet, AskClause, AsksClauses
<1> QED
  BY <1>7, <1>8

\* A step that has no value, or one that is not Null, stays.
LEMMA AskClauseStays ==
  ASSUME NEW t, NEW b, NEW s, NEW k, "ret" \notin DOMAIN s \/ s.ret # Null
  PROVE  AskClause(t, b, s, k) = s
BY DEF AskClause, Then

\* The clauses without an output are gone through; the next one is asked for, and the
\* first output there is gives the reason.
Silent(j) == \A i \in 1 .. j : i <= Len(got) - 2 => got[i + 2].output = Null

\* So goes the search for the reason, by induction over the clauses.
LEMMA ReasonGoes ==
  ASSUME NEW t, NEW b, b # Malformed, IndexInBlock(b, t.id) \in Nat,
         Len(got) \in Nat, Len(got) >= 2,
         NEW N, N \in Nat, N = Len(Trace[t.block][t.id]),
         \A i \in 1 .. Len(got) - 2 :
           got[i + 2].output # Null => ReasonOf(got[i + 2].output) # Null
  PROVE  /\ Silent(N) /\ N > Len(got) - 2
            => ReasonOfClauses(t, b, Null, 3) = [ask |-> TracerRequest(t, b, Len(got) - 2)]
         /\ Silent(N) /\ N <= Len(got) - 2
            => ReasonOfClauses(t, b, Null, 3) = [ret |-> Null, next |-> N + 3]
         /\ \A i \in 1 .. N :
              i <= Len(got) - 2 /\ Silent(i - 1) /\ got[i + 2].output # Null
              => ReasonOfClauses(t, b, Null, 3) = [ret |-> ReasonOf(got[i + 2].output), next |-> i + 3]
<1>1. PICK m \in Nat : m = Len(got) - 2
  OBVIOUS
<1> DEFINE ks == [k \in 1 .. N |-> k - 1]
<1>2. PICK f : AsksClauses(f, t, b, ks) /\ ReasonOfClauses(t, b, Null, 3) = f[1 .. N]
  BY ReasonEquation
<1> DEFINE Found(j) ==
             /\ Silent(j) /\ j > m => f[1 .. j] = [ask |-> TracerRequest(t, b, m)]
             /\ Silent(j) /\ j <= m => f[1 .. j] = [ret |-> Null, next |-> j + 3]
             /\ \A i \in 1 .. j :
                  i <= m /\ Silent(i - 1) /\ got[i + 2].output # Null
                  => f[1 .. j] = [ret |-> ReasonOf(got[i + 2].output), next |-> i + 3]
           S == {j \in 0 .. N : Found(j)}
<1>3. 0 \in S
  <2>1. f[1 .. 0] = [ret |-> Null, next |-> 3]
    <3>1. 1 .. 0 = {} /\ {} \in SUBSET DOMAIN ks
      OBVIOUS
    <3> HIDE DEF ks
    <3> QED
      BY <1>2, <3>1 DEF AsksClauses, Return
  <2> QED
    BY <2>1
<1>4. ASSUME NEW j \in 0 .. N - 1, j \in S PROVE j + 1 \in S
  <2>1. Found(j) /\ j \in Nat /\ j + 1 \in 0 .. N
    <3> HIDE DEF Found
    <3> QED
      BY <1>4
  <2>2. f[1 .. j + 1] = AskClause(t, b, f[1 .. j], j)
    <3>1. (1 .. j + 1) \in SUBSET DOMAIN ks /\ j + 1 \in 1 .. j + 1 /\ ks[j + 1] = j
      OBVIOUS
    <3>2. Max(1 .. j + 1) = j + 1 /\ (1 .. j + 1) \ {j + 1} = 1 .. j
      BY <2>1, MaxOfUpTo
    <3> HIDE DEF ks
    <3> QED
      BY <1>2, <3>1, <3>2 DEF AsksClauses
  <2>3. Silent(j + 1) <=> Silent(j) /\ (j + 1 <= m => got[j + 3].output = Null)
    <3>1. \A i \in 1 .. j + 1 : i \in 1 .. j \/ i = j + 1
      OBVIOUS
    <3>2. 1 .. j \subseteq 1 .. j + 1 /\ j + 1 \in 1 .. j + 1 /\ (j + 1) + 2 = j + 3
      OBVIOUS
    <3> QED
      BY <1>1, <3>1, <3>2 DEF Silent
  <2>4. ASSUME Silent(j), j <= m
        PROVE  f[1 .. j + 1] =
                 IF j + 3 > Len(got) THEN [ask |-> TracerRequest(t, b, j)]
                 ELSE [ret |-> IF got[j + 3].output = Null THEN Null ELSE ReasonOf(got[j + 3].output),
                       next |-> (j + 3) + 1]
    <3>1. f[1 .. j] = [ret |-> Null, next |-> j + 3] /\ j + 3 \in Nat
      BY <2>1, <2>4
    <3> QED
      BY <2>1, <2>2, <3>1, AskClauseGoes
  <2>5. ASSUME Silent(j + 1), j + 1 > m PROVE f[1 .. j + 1] = [ask |-> TracerRequest(t, b, m)]
    <3>1. CASE j > m
      <4>1. f[1 .. j] = [ask |-> TracerRequest(t, b, m)]
        BY <2>1, <2>3, <2>5, <3>1
      <4> QED
        BY <2>2, <4>1, AskClauseStays
    <3>2. CASE j <= m
      <4>1. j = m /\ j + 3 > Len(got)
        BY <1>1, <2>1, <2>5, <3>2
      <4> QED
        BY <2>3, <2>4, <2>5, <3>2, <4>1
    <3> QED
      BY <1>1, <2>1, <3>1, <3>2
  <2>6. ASSUME Silent(j + 1), j + 1 <= m PROVE f[1 .. j + 1] = [ret |-> Null, next |-> (j + 1) + 3]
    <3>1. j <= m /\ ~(j + 3 > Len(got)) /\ got[j + 3].output = Null /\ Silent(j)
      BY <1>1, <2>1, <2>3, <2>6
    <3>2. (j + 3) + 1 = (j + 1) + 3
      BY <2>1
    <3> QED
      BY <2>4, <3>1, <3>2
  <2>7. ASSUME NEW i \in 1 .. j + 1, i <= m, Silent(i - 1), got[i + 2].output # Null
        PROVE  f[1 .. j + 1] = [ret |-> ReasonOf(got[i + 2].output), next |-> i + 3]
    <3>1. CASE i = j + 1
      <4>1. i - 1 = j /\ i + 2 = j + 3 /\ (j + 3) + 1 = i + 3 /\ j <= m /\ ~(j + 3 > Len(got))
        BY <1>1, <2>1, <2>7, <3>1
      <4> QED
        BY <2>4, <2>7, <4>1
    <3>2. CASE i # j + 1
      <4>1. i \in 1 .. j
        BY <2>1, <3>2
      <4>2. f[1 .. j] = [ret |-> ReasonOf(got[i + 2].output), next |-> i + 3]
        BY <2>1, <2>7, <4>1
      <4>3. ReasonOf(got[i + 2].output) # Null
        BY <1>1, <2>7
      <4>4. f[1 .. j].ret # Null
        BY <4>2, <4>3
      <4> QED
        BY <2>2, <4>2, <4>4, AskClauseStays
    <3> QED
      BY <3>1, <3>2
  <2> QED
    BY <2>1, <2>5, <2>6, <2>7
<1>5. N \in S
  <2> HIDE DEF S
  <2>1. 0 .. N \subseteq S
    <3>1. \A j \in 0 .. N - 1 : j \in S => j + 1 \in S
      BY <1>4
    <3> QED
      BY <1>3, <3>1, UpToAll
  <2> QED
    BY <2>1
<1>6. Found(N)
  <2> HIDE DEF Found
  <2> QED
    BY <1>5
<1> QED
  BY <1>1, <1>2, <1>6

-----------------------------------------------------------------------------
(***************************************************************************)
(* What getRevertReason asks for, in order, and what the node has to say.  *)
(***************************************************************************)
RevertRequest(id, k) ==
  IF k = 1 THEN TransactionRequest(id, Null, "detail")
  ELSE IF k = 2 THEN BlockRequest([id |-> got[1].block], TRUE)
  ELSE TracerRequest(got[1], got[1].block, k - 3)

Held(id, t) == t.id = id /\ t.block \in KnownBlocks /\ id \in ToSet(Content[t.block])

RevertAnswers(id, k, a) ==
  IF k = 1 THEN a # Null => Held(id, a)
  ELSE IF k = 2 THEN a = got[1].block
  ELSE k - 2 \in DOMAIN Trace[got[1].block][id] /\ a = Trace[got[1].block][id][k - 2]

\* The place of a transaction in a block that holds it.
LEMMA PlaceOfHeld ==
  ASSUME NEW b \in KnownBlocks, NEW id \in ToSet(Content[b])
  PROVE  /\ IndexInBlock(b, id) \in Nat /\ IndexInBlock(b, id) + 1 \in DOMAIN Content[b]
         /\ Content[b][IndexInBlock(b, id) + 1] = id
         /\ b # Null /\ b # Malformed
<1>1. Content[b] \in Seq(ToSet(Content[b])) /\ b # Null /\ b # Malformed
  BY ThorAssumption
<1>2. Len(Content[b]) \in Nat /\ DOMAIN Content[b] = 1 .. Len(Content[b])
  BY <1>1
<1>3. PlaceIn(Content[b], id) \in DOMAIN Content[b] /\ Content[b][PlaceIn(Content[b], id)] = id
  BY <1>2, FirstIsThere
<1>4. IndexInBlock(b, id) = PlaceIn(Content[b], id) - 1
  BY DEF IndexInBlock, PlaceIn
<1> QED
  BY <1>1, <1>2, <1>3, <1>4

\* The node finds a transaction in a block that holds it.
LEMMA TransactionIsHeld ==
  ASSUME NEW id, trunk \in Trunks, NodeTransaction(id, Null) # Null
  PROVE  Held(id, NodeTransaction(id, Null))
<1> DEFINE I == {i \in 1 .. Len(trunk) : id \in ToSet(Content[trunk[i]])}
           place == IF I # {} THEN Max(I) ELSE 0
<1>1. NodeTransaction(id, Null) = IF place = 0 THEN Null ELSE [id |-> id, block |-> trunk[place]]
  BY DEF NodeTransaction, SelectLastInSeq
<1>2. trunk \in Seq(ToSet(trunk)) /\ Len(trunk) \in Nat /\ DOMAIN trunk = 1 .. Len(trunk)
  BY ThorAssumption
<1>3. I # {}
  BY <1>1
<1>4. Max(I) \in I
  <2>1. I \in SUBSET (1 .. Len(trunk))
    OBVIOUS
  <2> HIDE DEF I
  <2> QED
    BY <1>2, <1>3, <2>1, MaxIsMember
<1>5. place \in 1 .. Len(trunk) /\ id \in ToSet(Content[trunk[place]])
  <2>1. place = Max(I)
    BY <1>3
  <2> HIDE DEF place
  <2> QED
    BY <1>4, <2>1
<1> HIDE DEF place
<1>6. NodeTransaction(id, Null) = [id |-> id, block |-> trunk[place]]
  BY <1>1, <1>5
<1>7. trunk[place] \in ToSet(trunk)
  BY <1>2, <1>5 DEF ToSet
<1>8. trunk[place] \in KnownBlocks
  BY <1>7 DEF KnownBlocks
<1> QED
  BY <1>5, <1>6, <1>8 DEF Held

\* It traces the clause that is asked for, if the transaction has it.
LEMMA TraceOfHeld ==
  ASSUME NEW t, NEW id, Held(id, t), NEW k \in Nat,
         NodeTrace(TargetOf(t, t.block, k)) # Refused
  PROVE  k + 1 \in DOMAIN Trace[t.block][id] /\ NodeTrace(TargetOf(t, t.block, k)) = Trace[t.block][id][k + 1]
<1> DEFINE b == t.block
           place == IndexInBlock(b, id) + 1
           target == TargetOf(t, b, k)
           places == {i \in DOMAIN Content[b] :
                        target.transaction \in {[index |-> i - 1], [id |-> Content[b][i]]}}
           ran == {Trace[b][Content[b][i]] : i \in places}
<1>1. place \in DOMAIN Content[b] /\ Content[b][place] = id /\ place \in Nat
  BY PlaceOfHeld DEF Held
<1>2. target = [block |-> b, transaction |-> [index |-> place - 1], clause |-> k]
  <2>1. IndexInBlock(b, t.id) = place - 1
    <3>1. IndexInBlock(b, id) \in Nat /\ t.id = id
      BY PlaceOfHeld DEF Held
    <3> QED
      BY <3>1
  <2> QED
    BY <2>1 DEF TargetOf
<1>3. places = {place}
  <2>1. target.transaction = [index |-> place - 1]
    BY <1>2
  <2>2. ASSUME NEW i \in DOMAIN Content[b], [index |-> place - 1] = [index |-> i - 1] PROVE i = place
    <3>1. i \in Nat
      <4>1. Content[b] \in Seq(ToSet(Content[b]))
        BY ThorAssumption DEF Held
      <4> QED
        BY <4>1
    <3>2. [index |-> place - 1].index = [index |-> i - 1].index
      BY <2>2
    <3> QED
      BY <1>1, <3>1, <3>2
  <2>3. ASSUME NEW x PROVE [index |-> place - 1] # [id |-> x]
    <3>1. DOMAIN [index |-> place - 1] = {"index"} /\ DOMAIN [id |-> x] = {"id"}
      OBVIOUS
    <3> QED
      BY <3>1
  <2> HIDE DEF place, target
  <2> QED
    BY <1>1, <2>1, <2>2, <2>3
<1>4. ran = {Trace[b][id]}
  <2> HIDE DEF places, place
  <2> QED
    BY <1>1, <1>3
<1>5. NodeTrace(target) = IF k + 1 \in DOMAIN Trace[b][id] THEN Trace[b][id][k + 1] ELSE Refused
  <2>1. target.block = b /\ target.clause = k
    BY <1>2
  <2>2. NodeTrace(target) = IF \E r \in ran : target.clause + 1 \in DOMAIN r
                            THEN (CHOOSE r \in ran : TRUE)[target.clause + 1] ELSE Refused
    <3> DEFINE ranIn(c) == {Trace[c][Content[c][i]] :
                              i \in {j \in DOMAIN Content[c] :
                                     target.transaction \in {[index |-> j - 1], [id |-> Content[c][j]]}}}
    <3> HIDE DEF target
    <3>1. NodeTrace(target) = IF \E r \in ranIn(target.block) : target.clause + 1 \in DOMAIN r
                              THEN (CHOOSE r \in ranIn(target.block) : TRUE)[target.clause + 1] ELSE Refused
      BY DEF NodeTrace
    <3>2. ran = ranIn(b)
      OBVIOUS
    <3> HIDE DEF ranIn, ran
    <3> QED
      BY <2>1, <3>1, <3>2
  <2> HIDE DEF ran, target
  <2>3. (CHOOSE r \in ran : TRUE) = Trace[b][id]
    BY <1>4
  <2> QED
    BY <1>4, <2>1, <2>2, <2>3
<1> QED
  BY <1>5

\* The node answers these requests so.
LEMMA NodeTellsOfReverts ==
  ASSUME NEW id, trunk \in Trunks, NEW k \in Nat \ {0},
         k >= 2 => Held(id, got[1]),
         Node(RevertRequest(id, k)) # Refused
  PROVE  RevertAnswers(id, k, Node(RevertRequest(id, k)))
<1>1. CASE k = 1
  <2>1. Node(RevertRequest(id, k)) = NodeTransaction(id, Null)
    BY <1>1 DEF Node, RevertRequest, TransactionRequest
  <2> QED
    BY <1>1, <2>1, TransactionIsHeld DEF RevertAnswers
<1>2. CASE k = 2
  <2> DEFINE b == got[1].block
  <2>1. b \in KnownBlocks
    BY <1>2 DEF Held
  <2>2. [id |-> b] # Null
    BY <2>1, ThorAssumption
  <2>3. NodeBlock([id |-> b]) = b
    BY <2>2 DEF NodeBlock
  <2>4. Node(RevertRequest(id, k)) = NodeBlock([id |-> b])
    BY <1>2 DEF Node, RevertRequest, BlockRequest
  <2> QED
    BY <1>2, <2>3, <2>4 DEF RevertAnswers
<1>3. CASE k # 1 /\ k # 2
  <2>1. k - 3 \in Nat /\ (k - 3) + 1 = k - 2 /\ Held(id, got[1])
    BY <1>3
  <2>2. Node(RevertRequest(id, k)) = NodeTrace(TargetOf(got[1], got[1].block, k - 3))
    BY <1>3 DEF Node, RevertRequest, TracerRequest
  <2> QED
    BY <1>3, <2>1, <2>2, TraceOfHeld DEF RevertAnswers
<1> QED
  BY <1>1, <1>2, <1>3

\* The step of getRevertReason.
LEMMA RevertReasonGoes ==
  ASSUME NEW id, IsSequence(got), \A k \in 1 .. Len(got) : RevertAnswers(id, k, got[k])
  PROVE  GetRevertReason(id, Null, 1) =
           IF id = Malformed THEN Throw
           ELSE IF Len(got) = 0 THEN [ask |-> RevertRequest(id, 1)]
           ELSE IF got[1] = Null THEN [ret |-> Null, next |-> 2]
           ELSE IF Len(got) = 1 THEN [ask |-> RevertRequest(id, 2)]
           ELSE ReasonOfClauses(got[1], got[1].block, Null, 3)
<1> DEFINE asked == GetTransaction(id, Null, 1)
           first == [ret |-> got[1], next |-> 2]
           read == GetBlockExpanded([id |-> got[1].block], 2)
<1>1. Len(got) \in Nat
  BY DEF IsSequence
<1>2. CASE id = Malformed
  <2>1. asked = Throw
    BY <1>2 DEF GetTransaction
  <2> QED
    BY <1>2, <2>1 DEF GetRevertReason, Then, Throw
<1>3. ASSUME id # Malformed PROVE asked = Ask(RevertRequest(id, 1), 1)
  <2>1. Malformed \notin {id, Null}
    BY <1>3, ThorAssumption
  <2> QED
    BY <2>1 DEF GetTransaction, RevertRequest
<1>4. CASE id # Malformed /\ Len(got) = 0
  <2>1. asked = [ask |-> RevertRequest(id, 1)]
    BY <1>3, <1>4 DEF Ask
  <2> QED
    BY <1>4, <2>1 DEF GetRevertReason, Then
<1>5. ASSUME id # Malformed, Len(got) > 0
      PROVE  GetRevertReason(id, Null, 1) =
               IF got[1] = Null THEN Return(Null, 2)
               ELSE Then(read, LAMBDA b, k : IF b = Null THEN Return(Null, k)
                                             ELSE ReasonOfClauses(got[1], b, Null, k))
  <2>1. asked = [ret |-> got[1], next |-> 2]
    BY <1>1, <1>3, <1>5 DEF Ask
  <2> QED
    BY <2>1 DEF GetRevertReason, Then
<1>6. CASE id # Malformed /\ Len(got) > 0 /\ got[1] = Null
  <2> HIDE DEF read
  <2>1. GetRevertReason(id, Null, 1) = Return(Null, 2)
    BY <1>5, <1>6
  <2> QED
    BY <1>1, <1>6, <2>1 DEF Return
<1>7. ASSUME Len(got) > 0, got[1] # Null
      PROVE  /\ got[1].block \in KnownBlocks /\ got[1].block # Null
             /\ read = Ask(RevertRequest(id, 2), 2)
  <2>1. Held(id, got[1])
    BY <1>1, <1>7 DEF RevertAnswers
  <2>2. got[1].block \in KnownBlocks
    BY <2>1 DEF Held
  <2>3. [id |-> got[1].block] # Malformed /\ got[1].block # Null
    BY <2>2, ThorAssumption
  <2>4. read = Ask(RevertRequest(id, 2), 2)
    BY <2>3 DEF GetBlockExpanded, RevertRequest, BlockRequest
  <2> QED
    BY <2>2, <2>3, <2>4
<1>8. CASE id # Malformed /\ Len(got) = 1 /\ got[1] # Null
  <2>1. read = [ask |-> RevertRequest(id, 2)]
    BY <1>7, <1>8 DEF Ask
  <2> HIDE DEF read
  <2> QED
    BY <1>5, <1>8, <2>1 DEF Then
<1>9. CASE id # Malformed /\ Len(got) > 1 /\ got[1] # Null
  <2>1. read = [ret |-> got[2], next |-> 3]
    BY <1>1, <1>7, <1>9 DEF Ask
  <2>2. got[2] = got[1].block /\ got[2] # Null
    BY <1>1, <1>7, <1>9 DEF RevertAnswers
  <2> HIDE DEF read
  <2>3. GetRevertReason(id, Null, 1) = ReasonOfClauses(got[1], got[2], Null, 3)
    BY <1>5, <1>9, <2>1, <2>2 DEF Then
  <2> QED
    BY <1>1, <1>9, <2>2, <2>3
<1>10. Len(got) = 0 \/ Len(got) = 1 \/ Len(got) > 1
  <2>1. \A n \in Nat : n = 0 \/ n = 1 \/ n > 1
    OBVIOUS
  <2> QED
    BY <1>1, <2>1
<1> HIDE DEF asked, read
<1> QED
  BY <1>2, <1>4, <1>6, <1>8, <1>9, <1>10

\* Once the block is there it asks for one more clause, or has what the first output of
\* a clause gives.
LEMMA ReasonTold ==
  ASSUME NEW id, Len(got) \in Nat, Len(got) >= 2, Held(id, got[1]),
         \A k \in 1 .. Len(got) : RevertAnswers(id, k, got[k]),
         NEW ran, ran = Trace[got[1].block][id],
         NEW step, step = ReasonOfClauses(got[1], got[1].block, Null, 3)
  PROVE  \/ step = [ask |-> RevertRequest(id, Len(got) + 1)]
         \/ /\ "ask" \notin DOMAIN step /\ "ret" \in DOMAIN step
            /\ \A k \in DOMAIN ran :
                 (\A j \in 1 .. k - 1 : ran[j].output = Null) /\ ran[k].output # Null
                 => step.ret = ReasonOf(ran[k].output)
<1>0. PICK m \in Nat : m = Len(got) - 2
  OBVIOUS
<1>1. PICK b \in KnownBlocks : b = got[1].block /\ got[1].id = id /\ id \in ToSet(Content[b])
  BY DEF Held
<1>2. b # Malformed /\ IndexInBlock(b, id) \in Nat
  BY <1>1, PlaceOfHeld
<1>3. /\ ran = Trace[b][id] /\ ran \in Seq(ToSet(ran)) /\ Len(ran) \in Nat /\ DOMAIN ran = 1 .. Len(ran)
      /\ \A k \in DOMAIN ran : ran[k].output # Null => ReasonOf(ran[k].output) # Null
  <2>1. ran = Trace[b][id] /\ ran \in Seq(ToSet(ran))
    BY <1>1, ThorAssumption
  <2>2. \A k \in DOMAIN ran :
          LET output == ran[k].output
          IN  output # Null => Null \notin {[reason |-> output.words], [panic |-> output.words],
                                          [unknown |-> TRUE]}
    BY <1>1, <2>1, ThorAssumption
  <2> QED
    BY <2>1, <2>2 DEF ReasonOf
<1>4. ASSUME NEW i \in 1 .. m PROVE i \in DOMAIN ran /\ got[i + 2] = ran[i]
  <2>1. i + 2 \in 1 .. Len(got) /\ i + 2 # 1 /\ i + 2 # 2 /\ (i + 2) - 2 = i
    BY <1>0
  <2>2. RevertAnswers(id, i + 2, got[i + 2])
    BY <2>1
  <2> QED
    BY <1>1, <1>3, <2>1, <2>2 DEF RevertAnswers
<1>5. PICK N \in Nat : N = Len(ran)
  BY <1>3
<1>6. /\ Silent(N) /\ N > m => step = [ask |-> TracerRequest(got[1], b, m)]
      /\ Silent(N) /\ N <= m => step = [ret |-> Null, next |-> N + 3]
      /\ \A i \in 1 .. N :
           i <= m /\ Silent(i - 1) /\ got[i + 2].output # Null
           => step = [ret |-> ReasonOf(got[i + 2].output), next |-> i + 3]
  <2>1. \A i \in 1 .. Len(got) - 2 : got[i + 2].output # Null => ReasonOf(got[i + 2].output) # Null
    BY <1>0, <1>3, <1>4
  <2>2. N = Len(Trace[got[1].block][got[1].id])
    BY <1>1, <1>5
  <2> QED
    BY <1>0, <1>1, <1>2, <2>1, <2>2, ReasonGoes
<1>7. TracerRequest(got[1], b, m) = RevertRequest(id, Len(got) + 1)
  <2>1. Len(got) + 1 # 1 /\ Len(got) + 1 # 2 /\ (Len(got) + 1) - 3 = m
    BY <1>0
  <2> QED
    BY <1>1, <2>1 DEF RevertRequest
<1>8. \A j : Silent(j) <=> \A i \in 1 .. j : i <= m => ran[i].output = Null
  BY <1>0, <1>4 DEF Silent
<1>9. CASE Silent(N)
  <2>1. CASE N > m
    BY <1>6, <1>7, <1>9, <2>1
  <2>2. CASE N <= m
    <3>1. \A k \in DOMAIN ran : ran[k].output = Null
      BY <1>3, <1>5, <1>8, <1>9, <2>2
    <3> QED
      BY <1>6, <1>9, <2>2, <3>1
  <2> QED
    BY <2>1, <2>2
<1>10. CASE ~Silent(N)
  <2> DEFINE T == {i \in 1 .. N : i <= m /\ ran[i].output # Null}
  <2>1. T # {} /\ T \in SUBSET Nat
    BY <1>8, <1>10
  <2>2. PICK i \in T : \A j \in T : i <= j
    <3> HIDE DEF T
    <3> QED
      BY <2>1, LeastNumber
  <2>3. i \in 1 .. N /\ i <= m /\ ran[i].output # Null /\ got[i + 2] = ran[i]
    BY <1>0, <1>4, <2>2
  <2>4. \A j \in 1 .. i - 1 : ran[j].output = Null
    BY <2>2, <2>3
  <2>5. Silent(i - 1)
    BY <1>8, <2>4
  <2>6. step = [ret |-> ReasonOf(ran[i].output), next |-> i + 3]
    BY <1>6, <2>3, <2>5
  <2>7. ASSUME NEW k \in DOMAIN ran, \A j \in 1 .. k - 1 : ran[j].output = Null, ran[k].output # Null
        PROVE  k = i
    <3>1. ~(i < k) /\ ~(k < i)
      BY <1>3, <1>5, <2>3, <2>4, <2>7
    <3> QED
      BY <1>3, <1>5, <2>3, <3>1
  <2> QED
    BY <2>6, <2>7
<1> QED
  BY <1>9, <1>10

\* What getRevertReason has asked and been told so far, and what comes out of it.
RevertAsked(id) ==
  /\ \A k \in 1 .. Len(sent) : sent[k] = RevertRequest(id, k) /\ (k >= 2 => got[1] # Null)
  /\ \A k \in 1 .. Len(got) : RevertAnswers(id, k, got[k])
  /\ \A r \in Requests : stage[r] = "json" => RevertAnswers(id, r, answer)

Reasoning == op # Null /\ op.name = "getRevertReason" /\ op.errorFragment = Null

RevertInv ==
  Reasoning => /\ RevertAsked(op.id)
               /\ Returns => Len(got) = Len(sent)
               /\ ReasonOfTheRevert

\* A step that adds the next request or its answer keeps what was asked.
LEMMA RevertAskedKept ==
  ASSUME SessionOK, NEW id, RevertAsked(id),
         \/ sent' = sent
         \/ /\ sent' = Append(sent, RevertRequest(id, Len(got) + 1)) /\ Len(sent) = Len(got)
            /\ Len(got) >= 1 => got[1] # Null,
         \/ got' = got
         \/ got' = Append(got, answer) /\ RevertAnswers(id, Len(got) + 1, answer),
         \A r \in Requests : stage'[r] = "json" => got' = got /\ RevertAnswers(id, r, answer')
  PROVE  RevertAsked(id)'
<1>1. Len(sent) \in Nat /\ Len(got) \in Nat /\ Len(sent) <= Len(got) + 1
  BY DEF SessionOK, IsSequence
<1>2. \A i \in 1 .. Len(got) : got'[i] = got[i]
  BY SequenceAppend DEF SessionOK
<1>3. ASSUME NEW k \in Nat \ {0}, k <= Len(got) + 1
      PROVE  RevertRequest(id, k)' = RevertRequest(id, k)
  <2>1. k >= 2 => got'[1] = got[1]
    BY <1>1, <1>2, <1>3
  <2> QED
    <3>1. k <= 1 \/ k >= 2
      BY <1>3
    <3>2. CASE k = 1
      BY <3>2 DEF RevertRequest, TransactionRequest
    <3>3. CASE k >= 2
      BY <1>3, <2>1, <3>3 DEF RevertRequest, BlockRequest, TracerRequest, TargetOf
    <3> QED
      BY <1>3, <3>1, <3>2, <3>3
<1>4. ASSUME NEW k \in Nat \ {0}, k <= Len(got) + 1, NEW a, RevertAnswers(id, k, a)
      PROVE  RevertAnswers(id, k, a)'
  <2>1. k >= 2 => got'[1] = got[1]
    BY <1>1, <1>2, <1>4
  <2> QED
    <3>1. k = 1 \/ k >= 2
      BY <1>4
    <3>2. CASE k = 1
      BY <1>4, <3>2 DEF RevertAnswers, Held
    <3>3. CASE k >= 2
      <4>1. k # 1 /\ got'[1] = got[1]
        BY <2>1, <3>3
      <4> QED
        BY <1>4, <4>1 DEF RevertAnswers
    <3> QED
      BY <3>1, <3>2, <3>3
<1>5. ASSUME NEW k \in 1 .. Len(sent')
      PROVE  sent'[k] = RevertRequest(id, k)' /\ (k >= 2 => got'[1] # Null)
  <2>1. CASE k \in 1 .. Len(sent)
    <3>1. sent'[k] = sent[k]
      BY <2>1, SequenceAppend DEF SessionOK
    <3>2. sent[k] = RevertRequest(id, k) /\ (k >= 2 => got[1] # Null)
      BY <2>1 DEF RevertAsked
    <3>3. k \in Nat \ {0} /\ k <= Len(got) + 1 /\ (k >= 2 => got'[1] = got[1])
      BY <1>1, <1>2, <2>1
    <3> QED
      BY <1>3, <3>1, <3>2, <3>3
  <2>2. CASE k \notin 1 .. Len(sent)
    <3>1. sent' # sent
      BY <2>2
    <3>2. /\ k = Len(got) + 1 /\ sent'[k] = RevertRequest(id, k)
          /\ Len(got) >= 1 => got[1] # Null
      BY <1>1, <1>5, <2>2, <3>1, SequenceAppend DEF SessionOK
    <3>3. k \in Nat \ {0} /\ k <= Len(got) + 1 /\ (k >= 2 => got'[1] = got[1] /\ got[1] # Null)
      BY <1>1, <1>2, <3>2
    <3> QED
      BY <1>3, <3>2, <3>3
  <2> QED
    BY <2>1, <2>2
<1>6. ASSUME NEW k \in 1 .. Len(got') PROVE RevertAnswers(id, k, got[k])' 
  <2>1. k \in Nat \ {0} /\ k <= Len(got) + 1 /\ RevertAnswers(id, k, got'[k])
    <3>1. CASE k \in 1 .. Len(got)
      BY <1>1, <1>2, <3>1 DEF RevertAsked
    <3>2. CASE k \notin 1 .. Len(got)
      <4>1. got' = Append(got, answer) /\ RevertAnswers(id, Len(got) + 1, answer)
        BY <3>2
      <4>2. k = Len(got) + 1 /\ got'[k] = answer
        BY <1>1, <1>6, <3>2, <4>1, SequenceAppend DEF SessionOK
      <4> QED
        BY <1>1, <4>1, <4>2
    <3> QED
      BY <3>1, <3>2
  <2> QED
    BY <1>4, <2>1
<1>7. ASSUME NEW r \in Requests, stage'[r] = "json" PROVE RevertAnswers(id, r, answer)'
  BY <1>7 DEF RevertAnswers
<1> QED
  BY <1>5, <1>6, <1>7 DEF RevertAsked

\* While nothing comes out of it.
LEMMA RevertStays ==
  ASSUME UNCHANGED op, ~Returns', Reasoning => RevertAsked(op.id)'
  PROVE  RevertInv'
BY DEF RevertInv, Reasoning, ReasonOfTheRevert, Returns

\* An operation that has asked nothing.
LEMMA RevertStarts ==
  ASSUME SessionOK', sent' = <<>>, outcome' = Null
  PROVE  RevertInv'
<1>1. Len(sent') = 0 /\ Len(got') = 0
  BY DEF SessionOK, IsSequence
<1>2. \A r \in Requests : stage'[r] # "json"
  BY <1>1, RequestsAreNumbers DEF SessionOK, Pending
<1>3. ASSUME NEW id PROVE RevertAsked(id)'
  BY <1>1, <1>2 DEF RevertAsked
<1>4. ~Returns'
  BY DEF Returns
<1>5. PICK id : id = op'.id
  OBVIOUS
<1> QED
  BY <1>3, <1>4, <1>5 DEF RevertInv, ReasonOfTheRevert

\* At the start.
LEMMA RevertInit == ContractInit => RevertInv
BY DEF ContractInit, ThorInit, RevertInv, Reasoning

\* The step of the operation.
LEMMA RevertProceeds ==
  ASSUME SessionOK, RevertInv, ContractProceeds
  PROVE  RevertInv'
<1> DEFINE step == PerformOnContract(op)
<1>1. /\ op # Null /\ outcome = Null /\ Len(sent) = Len(got)
      /\ UNCHANGED <<op, got, nodeVars>> /\ IsSequence(got)
      /\ Asks(step) \/ Ends(step)
  BY DEF ContractProceeds, Asks, Ends, Running, SessionOK
<1>2. CASE ~Reasoning
  BY <1>1, <1>2 DEF RevertInv, Reasoning
<1>3. CASE Reasoning
  <2>0. PICK id : id = op.id
    OBVIOUS
  <2>1. RevertAsked(id) /\ Len(got) \in Nat
    BY <1>1, <1>3, <2>0 DEF RevertInv, IsSequence
  <2>8. (Len(got) = 0 \/ Len(got) = 1 \/ Len(got) >= 2) /\ (Len(got) >= 2 <=> Len(got) # 0 /\ Len(got) # 1)
    <3>1. \A n \in Nat : (n = 0 \/ n = 1 \/ n >= 2) /\ (n >= 2 <=> n # 0 /\ n # 1)
      OBVIOUS
    <3> QED
      BY <2>1, <3>1
  <2>2. step = GetRevertReason(id, Null, 1)
    BY <1>3, <2>0 DEF PerformOnContract, Perform, Reasoning
  <2>3. \A k \in 1 .. Len(got) : RevertAnswers(id, k, got[k])
    BY <2>1 DEF RevertAsked
  <2>4. step = IF id = Malformed THEN Throw
               ELSE IF Len(got) = 0 THEN [ask |-> RevertRequest(id, 1)]
               ELSE IF got[1] = Null THEN [ret |-> Null, next |-> 2]
               ELSE IF Len(got) = 1 THEN [ask |-> RevertRequest(id, 2)]
               ELSE ReasonOfClauses(got[1], got[1].block, Null, 3)
    BY <1>1, <2>2, <2>3, RevertReasonGoes
  <2> HIDE DEF step
  <2>5. ASSUME id # Malformed, Len(got) >= 2, got[1] # Null
        PROVE  \/ step = [ask |-> RevertRequest(id, Len(got) + 1)]
               \/ /\ "ask" \notin DOMAIN step /\ "ret" \in DOMAIN step
                  /\ \A k \in DOMAIN Trace[got[1].block][id] :
                       /\ \A j \in 1 .. k - 1 : Trace[got[1].block][id][j].output = Null
                       /\ Trace[got[1].block][id][k].output # Null
                       => step.ret = ReasonOf(Trace[got[1].block][id][k].output)
    <3>1. Held(id, got[1])
      BY <2>1, <2>3, <2>5 DEF RevertAnswers
    <3>2. step = ReasonOfClauses(got[1], got[1].block, Null, 3)
      <4>1. Len(got) # 0 /\ Len(got) # 1
        BY <2>5, <2>8
      <4> QED
        BY <2>4, <2>5, <4>1
    <3>3. PICK ran : ran = Trace[got[1].block][id]
      OBVIOUS
    <3>4. \/ step = [ask |-> RevertRequest(id, Len(got) + 1)]
          \/ /\ "ask" \notin DOMAIN step /\ "ret" \in DOMAIN step
             /\ \A k \in DOMAIN ran :
                  (\A j \in 1 .. k - 1 : ran[j].output = Null) /\ ran[k].output # Null
                  => step.ret = ReasonOf(ran[k].output)
      BY <2>1, <2>3, <2>5, <3>1, <3>2, <3>3, ReasonTold
    <3> QED
      BY <3>3, <3>4
  <2>6. CASE Asks(step)
    <3>1. "ask" \in DOMAIN step
      BY <2>6 DEF Asks
    <3>2. step.ask = RevertRequest(id, Len(got) + 1) /\ (Len(got) >= 1 => got[1] # Null)
      <4>1. id # Malformed /\ (Len(got) # 0 => got[1] # Null)
        BY <2>4, <3>1 DEF Throw
      <4>2. CASE Len(got) = 0
        BY <2>4, <4>1, <4>2
      <4>3. CASE Len(got) = 1
        BY <2>4, <4>1, <4>3
      <4>4. CASE Len(got) >= 2
        <5>1. step = [ask |-> RevertRequest(id, Len(got) + 1)]
          BY <2>5, <3>1, <4>1, <4>4
        <5> QED
          BY <4>1, <4>4, <5>1
      <4> QED
        <5>1. Len(got) = 0 \/ Len(got) = 1 \/ Len(got) >= 2
          BY <2>8
        <5> QED
          BY <4>2, <4>3, <4>4, <5>1
    <3>3. sent' = sent \/ sent' = Append(sent, RevertRequest(id, Len(got) + 1))
      BY <2>6, <3>2 DEF Asks
    <3>4. \A r \in Requests : stage'[r] = "json" => stage[r] = "json" /\ answer' = answer
      BY <2>6 DEF Asks, Send, InvalidUrl, Goes, SessionOK
    <3>5. \A r \in Requests : stage'[r] = "json" => got' = got /\ RevertAnswers(id, r, answer')
      BY <1>1, <2>1, <3>4 DEF RevertAsked
    <3>6. RevertAsked(id)'
      BY <1>1, <2>1, <3>2, <3>3, <3>5, RevertAskedKept
    <3>7. ~Returns'
      BY <1>1, <2>6 DEF Asks, Returns
    <3> QED
      BY <1>1, <2>0, <3>6, <3>7, RevertStays
  <2>7. CASE Ends(step)
    <3>1. /\ "ask" \notin DOMAIN step /\ UNCHANGED <<sent, stage, answer>>
          /\ outcome' = IF "ret" \in DOMAIN step THEN [ret |-> step.ret] ELSE Thrown
      BY <2>7 DEF Ends, httpVars
    <3>2. RevertAsked(id)'
      <4>1. \A r \in Requests : stage'[r] = "json" => got' = got /\ RevertAnswers(id, r, answer')
        BY <1>1, <2>1, <3>1 DEF RevertAsked
      <4> QED
        BY <1>1, <2>1, <3>1, <4>1, RevertAskedKept
    <3>3. ReasonOfTheRevert'
      <4> SUFFICES ASSUME Returns', got[1] # Null,
                          NEW k \in DOMAIN Trace[got[1].block][id],
                          \A j \in 1 .. k - 1 : Trace[got[1].block][id][j].output = Null,
                          Trace[got[1].block][id][k].output # Null
                   PROVE  outcome' = [ret |-> ReasonOf(Trace[got[1].block][id][k].output)]
        <5>1. ASSUME NEW output PROVE DecodeRevertReason(output, Null, 1)'.ret = ReasonOf(output)
          BY Decoded DEF DecodeRevertReason, Return
        <5> QED
          BY <1>1, <2>0, <5>1 DEF ReasonOfTheRevert
      <4>1. "ret" \in DOMAIN step /\ outcome' = [ret |-> step.ret]
        BY <3>1 DEF Returns
      <4>2. id # Malformed /\ Len(got) >= 2
        <5>1. id # Malformed /\ Len(got) # 0 /\ Len(got) # 1
          BY <2>4, <3>1, <4>1 DEF Throw
        <5> QED
          BY <2>8, <5>1
      <4> QED
        BY <2>5, <3>1, <4>1, <4>2
    <3> QED
      BY <1>1, <2>0, <3>1, <3>2, <3>3 DEF RevertInv
  <2> QED
    BY <1>1, <2>6, <2>7
<1> QED
  BY <1>2, <1>3

\* A step of others.
LEMMA RevertMeanwhile ==
  ASSUME SessionOK, RevertInv, UNCHANGED <<op, stage, sent, got, answer, outcome>>
  PROVE  RevertInv'
<1>1. PICK id : id = op.id
  OBVIOUS
<1>2. Reasoning => RevertAsked(id)'
  <2>1. ASSUME Reasoning PROVE RevertAsked(id)'
    <3>1. RevertAsked(id)
      BY <1>1, <2>1 DEF RevertInv
    <3>2. \A r \in Requests : stage'[r] = "json" => got' = got /\ RevertAnswers(id, r, answer')
      BY <3>1 DEF RevertAsked
    <3> QED
      BY <3>1, <3>2, RevertAskedKept
  <2> QED
    BY <2>1
<1>3. Returns => Returns'
  BY DEF Returns
<1>4. CASE ~Returns
  BY <1>1, <1>2, <1>4, RevertStays DEF Returns
<1>5. CASE Returns /\ Reasoning
  <2>1. Len(got) = Len(sent) /\ ReasonOfTheRevert
    BY <1>5 DEF RevertInv
  <2>2. ReasonOfTheRevert'
    <3>1. ASSUME NEW output PROVE DecodeRevertReason(output, Null, 1)' = DecodeRevertReason(output, Null, 1)
      BY DEF DecodeRevertReason, Return
    <3> QED
      BY <1>5, <2>1, <3>1 DEF ReasonOfTheRevert, Returns, Reasoning
  <2> QED
    BY <1>1, <1>2, <1>5, <2>1, <2>2 DEF RevertInv, Reasoning
<1>6. CASE ~Reasoning
  BY <1>6 DEF RevertInv, Reasoning
<1> QED
  BY <1>4, <1>5, <1>6

\* The node responds.
LEMMA RevertResponds ==
  ASSUME SessionOK, RevertInv, NEW r \in Requests, Responds(r)
  PROVE  RevertInv'
<1>1. /\ r = Len(sent) /\ Len(sent) = Len(got) + 1
      /\ outcome' = IF stage'[r] = "rejected" THEN Thrown ELSE outcome
      /\ UNCHANGED <<op, sent, got, nodeVars>>
      /\ stage'[r] = "json" => answer' = Node(sent[r]) /\ Node(sent[r]) # Refused
  BY RespondsGoes
<1>2. r \in Nat \ {0} /\ Len(got) \in Nat /\ r \in 1 .. Len(sent) /\ trunk \in Trunks
  BY <1>1, RequestsAreNumbers DEF SessionOK, IsSequence
<1>3. CASE ~Reasoning
  BY <1>1, <1>3 DEF RevertInv, Reasoning
<1>4. CASE Reasoning
  <2>1. PICK id : id = op.id
    OBVIOUS
  <2>2. RevertAsked(id) /\ (Returns => Len(got) = Len(sent))
    BY <1>4, <2>1 DEF RevertInv
  <2>3. ~Returns'
    <3>1. Len(got) # Len(got) + 1
      BY <1>2
    <3> QED
      BY <1>1, <2>2, <3>1 DEF Returns
  <2>4. ASSUME stage'[r] = "json" PROVE RevertAnswers(id, r, answer')
    <3>1. sent[r] = RevertRequest(id, r) /\ (r >= 2 => got[1] # Null)
      BY <1>2, <2>2 DEF RevertAsked
    <3>2. r >= 2 => Held(id, got[1])
      <4>1. r >= 2 => 1 \in 1 .. Len(got)
        BY <1>1, <1>2
      <4> QED
        BY <2>2, <3>1, <4>1 DEF RevertAsked, RevertAnswers
    <3>3. answer' = Node(RevertRequest(id, r)) /\ Node(RevertRequest(id, r)) # Refused
      BY <1>1, <2>4, <3>1
    <3> QED
      BY <1>2, <3>2, <3>3, NodeTellsOfReverts
  <2>5. \A q \in Requests : stage'[q] = "json" => q = r
    <3>1. \A q \in Requests : q # r => stage'[q] = stage[q]
      BY RespondsGoes DEF SessionOK
    <3> QED
      BY <1>1, <3>1 DEF SessionOK, Pending
  <2>6. RevertAsked(id)'
    <3>1. \A q \in Requests : stage'[q] = "json" => got' = got /\ RevertAnswers(id, q, answer')
      BY <1>1, <2>4, <2>5
    <3> QED
      BY <1>1, <2>2, <3>1, RevertAskedKept
  <2> QED
    BY <1>1, <2>1, <2>3, <2>6, RevertStays
<1> QED
  BY <1>3, <1>4

\* A request settles.
LEMMA RevertSettles ==
  ASSUME SessionOK, RevertInv, NEW r \in Requests, Elapses(r) \/ Fires(r)
  PROVE  RevertInv'
<1>1. /\ UNCHANGED <<op, sent>>
      /\ outcome' = IF stage'[r] = "rejected" THEN Thrown ELSE outcome
  BY SettlesGoes
<1>2. CASE UNCHANGED <<stage, got, answer>>
  <2>1. outcome' = outcome
    BY <1>1, <1>2 DEF SessionOK
  <2> QED
    BY <1>1, <1>2, <2>1, RevertMeanwhile
<1>3. CASE ~UNCHANGED <<stage, got, answer>> /\ Reasoning
  <2>1. r = Len(sent) /\ Len(sent) = Len(got) + 1
    BY <1>3, SettlesGoes
  <2>2. PICK id : id = op.id
    OBVIOUS
  <2>3. RevertAsked(id) /\ (Returns => Len(got) = Len(sent))
    BY <1>3, <2>2 DEF RevertInv
  <2>4. ~Returns'
    <3>1. Len(got) # Len(got) + 1
      BY DEF SessionOK, IsSequence
    <3> QED
      BY <1>1, <2>1, <2>3, <3>1 DEF Returns
  <2>5. RevertAsked(id)'
    <3>1. CASE stage' = [stage EXCEPT ![r] = "rejected"] /\ got' = got
      <4>1. \A q \in Requests : stage'[q] = "json" => FALSE
        BY <2>1, <3>1 DEF SessionOK, Pending
      <4> QED
        BY <1>1, <2>3, <3>1, <4>1, RevertAskedKept
    <3>2. CASE /\ stage' = [stage EXCEPT ![r] = "resolved"] /\ got' = Append(got, answer)
               /\ stage[r] = "json"
      <4>1. \A q \in Requests : stage'[q] = "json" => FALSE
        BY <2>1, <3>2 DEF SessionOK, Pending
      <4>2. RevertAnswers(id, Len(got) + 1, answer)
        BY <2>1, <2>3, <3>2 DEF RevertAsked
      <4> QED
        BY <1>1, <2>3, <3>2, <4>1, <4>2, RevertAskedKept
    <3> QED
      BY <1>3, <3>1, <3>2, SettlesGoes
  <2> QED
    BY <1>1, <2>2, <2>4, <2>5, RevertStays
<1>4. CASE ~Reasoning
  BY <1>1, <1>4 DEF RevertInv, Reasoning
<1> QED
  BY <1>2, <1>3, <1>4

\* Every step keeps it.
LEMMA RevertKept ==
  SessionOK /\ OpOK /\ SimInv /\ RevertInv /\ [ContractNext]_contractVars => RevertInv'
<1> SUFFICES ASSUME SessionOK, OpOK, SimInv, RevertInv, [ContractNext]_contractVars PROVE RevertInv'
  OBVIOUS
<1>1. ASSUME Begins PROVE RevertInv'
  <2>1. sent' = <<>> /\ outcome' = Null
    BY <1>1 DEF Begins, Beside, SessionOK, SimInv
  <2> QED
    BY <2>1, SessionKept, RevertStarts
<1>2. ASSUME AddressArrives PROVE RevertInv'
  BY <1>2, AddressFound DEF RevertInv, Reasoning
<1>3. ASSUME Meanwhile PROVE RevertInv'
  BY <1>3, RevertMeanwhile DEF Meanwhile, Beside
<1> QED
  BY <1>1, <1>2, <1>3, StepKinds, RevertProceeds, RevertResponds, RevertSettles

-----------------------------------------------------------------------------
\* The invariant with what getRevertReason asks.
RevertsInv == ContractInv /\ RevertInv

\* It is an invariant.
LEMMA RevertsInvariant == ContractSpec => []RevertsInv
<1>1. ContractInv /\ RevertInv /\ [ContractNext]_contractVars => RevertInv'
  BY RevertKept DEF ContractInv
<1> QED
  BY <1>1, RevertInit, ContractInvariant, PTL DEF ContractSpec, RevertsInv

\* A reverted clause.
LEMMA RevertTold == RevertsInv => RevertIsTold
<1> SUFFICES ASSUME RevertsInv, Returns PROVE RevertIsTold
  BY DEF RevertIsTold
<1>1. SessionOK /\ OpOK /\ SimInv /\ RevertInv
  BY DEF RevertsInv, ContractInv
<1>2. op # Null
  BY <1>1 DEF SimInv, Returns
<1>3. ASSUME op.name \in Simulating
      PROVE  LET n == RequestsFor(ClausesOf(op))
             IN  /\ n \in Nat \ {0} /\ Len(got) = n /\ Last(got) = got[n]
                 /\ DOMAIN got[n] = DOMAIN ClausesOf(op)
                 /\ \A i \in DOMAIN ClausesOf(op) : RevertsWithoutOutputs(got[n][i])
                 /\ "ret" \in DOMAIN Uses(op, got[n], n + 1)
                 /\ outcome.ret = Uses(op, got[n], n + 1).ret
  <2>1. PICK clauses, n : clauses = ClausesOf(op) /\ n = RequestsFor(clauses)
    OBVIOUS
  <2>2. /\ Asked(clauses, OptionsOf(op)) /\ Len(got) = n
        /\ "ret" \in DOMAIN Uses(op, got[n], n + 1)
        /\ outcome.ret = Uses(op, got[n], n + 1).ret
    BY <1>1, <1>2, <1>3, <2>1 DEF SimInv
  <2>3. n \in {1, 2, 3}
    BY <2>1 DEF RequestsFor
  <2>4. Answers(clauses, n, got[n])
    BY <2>2, <2>3 DEF Asked
  <2> QED
    BY <2>1, <2>2, <2>3, <2>4 DEF Answers, Last
<1>4. PICK clauses, n : clauses = ClausesOf(op) /\ n = RequestsFor(clauses)
  OBVIOUS
<1>5. ASSUME op.name \in {"read", "executeCall"}, Last(got)[1].reverted
      PROVE  "text" \in DOMAIN outcome.ret
  <2>1. Last(got) = got[n] /\ outcome.ret = Uses(op, got[n], n + 1).ret
    BY <1>3, <1>4, <1>5 DEF Simulating
  <2>2. \E fragment : Uses(op, got[n], n + 1) = CallResult(fragment, got[n][1], n + 1)
    BY <1>5 DEF Uses
  <2> QED
    <3>1. PICK fragment : Uses(op, got[n], n + 1) = CallResult(fragment, got[n][1], n + 1)
      BY <2>2
    <3>2. got[n][1].reverted
      BY <1>5, <2>1
    <3>3. DOMAIN CallResult(fragment, got[n][1], n + 1).ret = {"text"}
      BY <3>2 DEF CallResult, Return
    <3> QED
      BY <2>1, <3>1, <3>3
<1>6. ASSUME op.name = "executeMultipleClausesCall", NEW k \in DOMAIN op.clauses,
             Last(got)[k].reverted
      PROVE  op.clauses[k].fragment.outputs = 0
  <2>1. op \in Calls
    BY <1>1, <1>2, <1>6, OfContractIs DEF OpOK, OnContract
  <2>2. op.clauses[k].fragment.outputs \in Nat
    BY <1>6, <2>1, ContractAssumption
  <2>3. DOMAIN clauses = DOMAIN op.clauses
    BY <1>4, <1>6 DEF ClausesOf
  <2>4. /\ Last(got) = got[n] /\ k \in DOMAIN got[n] /\ RevertsWithoutOutputs(got[n][k])
        /\ "ret" \in DOMAIN Uses(op, got[n], n + 1)
    BY <1>3, <1>4, <1>6, <2>3 DEF Simulating
  <2>5. "ret" \in DOMAIN DecodeOutput(op.clauses[k].fragment, got[n][k].data, n + 1)
    BY <1>6, <2>4 DEF Uses, Throw
  <2>6. /\ got[n][k].data.selector = Null
        /\ Len(got[n][k].data.words) >= op.clauses[k].fragment.outputs
    BY <2>5 DEF DecodeOutput, Throw
  <2>7. got[n][k].data.words = <<>>
    BY <1>6, <2>4, <2>6 DEF RevertsWithoutOutputs
  <2>8. Len(<<>>) = 0
    OBVIOUS
  <2> QED
    BY <2>2, <2>6, <2>7, <2>8
<1>7. ASSUME op.name = "getRevertReason" PROVE ReasonOfTheRevert
  BY <1>1, <1>2, <1>7 DEF RevertInv, Reasoning, ReasonOfTheRevert
<1> QED
  BY <1>5, <1>6, <1>7 DEF RevertIsTold

\* executeCall and the reads of a contract never return outputs of a reverted clause,
\* executeMultipleClausesCall only where there is nothing to decode, and getRevertReason gives
\* the reason of the first clause with an output, in the block that held the transaction.
THEOREM RevertsAreTold == ContractSpec => []RevertIsTold
BY RevertsInvariant, RevertTold, PTL

-----------------------------------------------------------------------------
(***************************************************************************)
(* The filters of logs: what they ask for, what the node has to say, and   *)
(* what they make of it.                                                   *)
(***************************************************************************)
\* One step of TopicHashes, and the function that it folds with.
AddHash(hashes, c) ==
  IF c.fragment.hash \in ToSet(hashes) THEN hashes ELSE Append(hashes, c.fragment.hash)

AddsHashes(f, criteria) ==
  f = [s \in SUBSET DOMAIN criteria |->
         IF s = {} THEN <<>> ELSE AddHash(f[s \ {Max(s)}], criteria[Max(s)])]

\* It is there.
LEMMA TopicHashesEquation ==
  ASSUME NEW options, NEW C, options.criteriaSet \in Seq(C)
  PROVE  \E f : /\ AddsHashes(f, options.criteriaSet)
                /\ TopicHashes(options) = f[DOMAIN options.criteriaSet]
<1> DEFINE criteria == options.criteriaSet
           N == Len(criteria)
           All == Seq({criteria[i].fragment.hash : i \in 1 .. N})
           grow == [i \in 1 .. N |-> [hashes \in All |-> AddHash(hashes, criteria[i])]]
<1>1. N \in Nat /\ DOMAIN criteria = 1 .. N
  OBVIOUS
<1>2. \A hashes \in All, i \in 1 .. N : AddHash(hashes, criteria[i]) \in All
  BY DEF AddHash
<1>3. grow \in [1 .. N -> [All -> All]]
  BY <1>2
<1>4. PICK f : Folds(f, All, <<>>, grow, N)
  <2>1. <<>> \in All
    OBVIOUS
  <2> HIDE DEF grow, N, All
  <2> QED
    BY <1>1, <1>3, <2>1, FoldExists
<1>5. ASSUME NEW s \in SUBSET (1 .. N), s # {}
      PROVE  f[s] = AddHash(f[s \ {Max(s)}], criteria[Max(s)])
  <2>1. f[s] = grow[Max(s)][f[s \ {Max(s)}]]
    <3> HIDE DEF grow, N, All
    <3> QED
      BY <1>4, <1>5 DEF Folds
  <2>2. Max(s) \in 1 .. N
    <3> HIDE DEF N
    <3> QED
      BY <1>1, <1>5, MaxIsMember
  <2>3. f[s \ {Max(s)}] \in All
    <3> HIDE DEF grow, N, All
    <3> QED
      BY <1>4 DEF Folds
  <2> HIDE DEF N, All
  <2> QED
    BY <2>1, <2>2, <2>3
<1>6. AddsHashes(f, criteria)
  <2>1. f \in [SUBSET (1 .. N) -> All] /\ f[{}] = <<>>
    <3> HIDE DEF grow, N, All
    <3> QED
      BY <1>1, <1>4 DEF Folds
  <2> HIDE DEF grow, N, All, criteria
  <2> QED
    BY <1>1, <1>5, <2>1 DEF AddsHashes
<1>7. AddsHashes(CHOOSE g : AddsHashes(g, criteria), criteria)
  <2> HIDE DEF criteria
  <2> QED
    BY <1>6
<1>8. TopicHashes(options) = (CHOOSE g : AddsHashes(g, criteria))[DOMAIN criteria]
  BY DEF TopicHashes, FoldLeft, MapThenFoldSet, AddHash, AddsHashes
<1> QED
  BY <1>7, <1>8

\* The topics of the fragments, and no others.
LEMMA HashesOfFragments ==
  ASSUME NEW options, NEW C, options.criteriaSet \in Seq(C)
  PROVE  LET hashes == {options.criteriaSet[i].fragment.hash : i \in DOMAIN options.criteriaSet}
         IN  TopicHashes(options) \in Seq(hashes) /\ ToSet(TopicHashes(options)) = hashes
<1> DEFINE criteria == options.criteriaSet
           N == Len(criteria)
           H(i) == criteria[i].fragment.hash
           All == {H(i) : i \in 1 .. N}
<1>1. N \in Nat /\ DOMAIN criteria = 1 .. N
  OBVIOUS
<1>2. PICK f : AddsHashes(f, criteria) /\ TopicHashes(options) = f[DOMAIN criteria]
  BY TopicHashesEquation
<1> HIDE DEF N, criteria
<1> DEFINE Found(n) == {H(i) : i \in 1 .. n}
           S == {n \in 0 .. N : f[1 .. n] \in Seq(All) /\ ToSet(f[1 .. n]) = Found(n)}
<1>3. 0 \in S
  <2>1. f[1 .. 0] = <<>>
    <3>1. 1 .. 0 = {}
      OBVIOUS
    <3> QED
      BY <1>1, <1>2, <3>1 DEF AddsHashes
  <2>2. Found(0) = {} /\ ToSet(<<>>) = {}
    BY DEF ToSet
  <2>3. <<>> \in Seq(All) /\ 0 \in 0 .. N
    BY <1>1
  <2> HIDE DEF Found, All
  <2> QED
    BY <2>1, <2>2, <2>3
<1>4. ASSUME NEW n \in 0 .. N - 1, n \in S PROVE n + 1 \in S
  <2> DEFINE hashes == f[1 .. n]
             hash == H(n + 1)
  <2>1. f[1 .. n + 1] = AddHash(hashes, criteria[n + 1])
    <3>1. (1 .. n + 1) \in SUBSET DOMAIN criteria /\ n + 1 \in 1 .. n + 1
      BY <1>1
    <3>2. Max(1 .. n + 1) = n + 1 /\ (1 .. n + 1) \ {n + 1} = 1 .. n
      BY <1>1, <3>1, MaxOfUpTo
    <3> QED
      BY <1>2, <3>1, <3>2 DEF AddsHashes
  <2>2. hashes \in Seq(All) /\ ToSet(hashes) = Found(n) /\ hash \in All /\ n + 1 \in 0 .. N
    <3>1. n + 1 \in 1 .. N
      BY <1>1
    <3> QED
      BY <1>4, <3>1
  <2>3. Found(n + 1) = Found(n) \union {hash}
    <3>1. 1 .. n + 1 = (1 .. n) \union {n + 1}
      BY <1>1
    <3> QED
      BY <3>1
  <2>4. hash = criteria[n + 1].fragment.hash
    OBVIOUS
  <2> HIDE DEF hashes, hash, Found, All
  <2>5. CASE hash \in ToSet(hashes)
    BY <2>1, <2>2, <2>3, <2>4, <2>5 DEF AddHash
  <2>6. CASE hash \notin ToSet(hashes)
    <3>1. f[1 .. n + 1] = Append(hashes, hash)
      BY <2>1, <2>4, <2>6 DEF AddHash
    <3>2. ToSet(Append(hashes, hash)) = ToSet(hashes) \union {hash} /\ Append(hashes, hash) \in Seq(All)
      BY <2>2, ToSetAppend
    <3> QED
      BY <2>2, <2>3, <3>1, <3>2
  <2> QED
    BY <2>5, <2>6
<1>5. 0 .. N \subseteq S
  <2> HIDE DEF S
  <2> QED
    BY <1>1, <1>3, <1>4, UpToAll
<1>6. f[1 .. N] \in Seq(All) /\ ToSet(f[1 .. N]) = Found(N)
  <2>1. N \in S
    <3> HIDE DEF S
    <3> QED
      BY <1>1, <1>5
  <2> HIDE DEF Found, All
  <2> QED
    BY <2>1
<1> QED
  BY <1>1, <1>2, <1>6 DEF criteria

\* A log as the node gives it.
AsLog(b, k) == [log |-> Logs[b][k], block |-> b]

\* The logs of a block.
LEMMA LogsOfBlock ==
  ASSUME NEW A, NEW b \in KnownBlocks, \A k \in DOMAIN Logs[b] : AsLog(b, k) \in A
  PROVE  /\ LogsOf(b) \in Seq(A)
         /\ ToSet(LogsOf(b)) = {AsLog(b, k) : k \in DOMAIN Logs[b]}
<1>1. Logs[b] \in Seq(ToSet(Logs[b]))
  BY ThorAssumption
<1>2. Len(Logs[b]) \in Nat /\ DOMAIN Logs[b] = 1 .. Len(Logs[b])
  BY <1>1
<1>3. LogsOf(b) = [k \in 1 .. Len(Logs[b]) |-> AsLog(b, k)]
  BY <1>2 DEF LogsOf, AsLog
<1>4. LogsOf(b) \in Seq(A)
  BY <1>2, <1>3
<1>5. ToSet(LogsOf(b)) = {AsLog(b, k) : k \in DOMAIN Logs[b]}
  BY <1>2, <1>3 DEF ToSet
<1> QED
  BY <1>4, <1>5

KnownLogs == {AsLog(b, k) : b \in KnownBlocks, k \in UNION {DOMAIN Logs[c] : c \in KnownBlocks}}

\* The places of a range of numbers on the trunk.
InRange(range) ==
  {i \in 1 .. Len(trunk) : range.from < i /\ (range.to # Null => i <= range.to + 1)}

\* Every block has a place on the trunk, and is known.
LEMMA OnTheTrunk ==
  ASSUME trunk \in Trunks
  PROVE  /\ Len(trunk) \in Nat \ {0} /\ DOMAIN trunk = 1 .. Len(trunk)
         /\ \A i \in 1 .. Len(trunk) : trunk[i] \in KnownBlocks
         /\ Last(trunk) = trunk[Len(trunk)]
<1>1. trunk \in Seq(ToSet(trunk)) /\ trunk # <<>>
  BY ThorAssumption
<1>2. Len(trunk) \in Nat \ {0} /\ DOMAIN trunk = 1 .. Len(trunk)
  BY <1>1
<1>3. \A i \in 1 .. Len(trunk) : trunk[i] \in KnownBlocks
  BY <1>2 DEF KnownBlocks, ToSet
<1> QED
  BY <1>2, <1>3 DEF Last

\* The node's logs of a range are those of its blocks.
LEMMA LogsOfRange ==
  ASSUME trunk \in Trunks, NEW range, range.from \in Nat, range.to \in Nat \union {Null}
  PROVE  /\ LogsBetween(range) \in Seq(KnownLogs)
         /\ ToSet(LogsBetween(range)) = UNION {ToSet(LogsOf(trunk[i])) : i \in InRange(range)}
<1> DEFINE from == range.from + 1
           to   == IF range.to = Null \/ range.to >= Len(trunk) THEN Len(trunk) ELSE range.to + 1
           N    == IF to < from THEN 0 ELSE to - from + 1
           seqs == [i \in 1 .. N |-> LogsOf(trunk[from + i - 1])]
<1>1. /\ Len(trunk) \in Nat \ {0}
      /\ \A i \in 1 .. Len(trunk) : trunk[i] \in KnownBlocks
  BY OnTheTrunk
<1>2. to \in Nat /\ to <= Len(trunk) /\ from \in Nat \ {0} /\ N \in Nat
  <2>1. CASE range.to = Null \/ range.to >= Len(trunk)
    BY <1>1, <2>1
  <2>2. CASE ~(range.to = Null \/ range.to >= Len(trunk))
    BY <1>1, <2>2
  <2> QED
    BY <2>1, <2>2
<1>3. InRange(range) = {i \in 1 .. Len(trunk) : from <= i /\ i <= to}
  <2> SUFFICES ASSUME NEW i \in 1 .. Len(trunk)
               PROVE  (range.from < i /\ (range.to # Null => i <= range.to + 1))
                        <=> (from <= i /\ i <= to)
    BY DEF InRange
  <2>1. range.from < i <=> from <= i
    BY <1>1
  <2>2. CASE range.to = Null
    BY <1>1, <2>1, <2>2
  <2>3. CASE range.to # Null
    BY <1>1, <2>1, <2>3
  <2> QED
    BY <2>2, <2>3
<1>4. InRange(range) = {from + i - 1 : i \in 1 .. N}
  <2> HIDE DEF from, to
  <2>1. ASSUME NEW i \in 1 .. N PROVE from + i - 1 \in InRange(range)
    BY <1>1, <1>2, <1>3
  <2>2. ASSUME NEW j \in InRange(range) PROVE \E i \in 1 .. N : j = from + i - 1
    <3>1. j - from + 1 \in 1 .. N /\ j = from + (j - from + 1) - 1
      BY <1>1, <1>2, <1>3
    <3> QED
      BY <3>1
  <2> QED
    BY <2>1, <2>2
<1>5. LogsBetween(range) = FlattenSeq(seqs)
  BY DEF LogsBetween
<1> HIDE DEF from, to, N
<1>6. ASSUME NEW i \in 1 .. N
      PROVE  trunk[from + i - 1] \in KnownBlocks
  BY <1>1, <1>3, <1>4
<1>7. \A b \in KnownBlocks : LogsOf(b) \in Seq(KnownLogs)
  <2> TAKE b \in KnownBlocks
  <2>1. \A k \in DOMAIN Logs[b] : AsLog(b, k) \in KnownLogs
    BY DEF KnownLogs
  <2> QED
    BY <2>1, LogsOfBlock
<1>8. seqs \in [1 .. N -> Seq(KnownLogs)] /\ \A i \in 1 .. N : seqs[i] = LogsOf(trunk[from + i - 1])
  BY <1>6, <1>7
<1> HIDE DEF seqs
<1>9. /\ FlattenSeq(seqs) \in Seq(KnownLogs)
      /\ ToSet(FlattenSeq(seqs)) = UNION {ToSet(seqs[i]) : i \in 1 .. N}
  <2>1. N \in Nat /\ seqs \in [1 .. N -> Seq(KnownLogs)]
    BY <1>2, <1>8
  <2> QED
    BY <2>1, FlattenOnes
<1>10. UNION {ToSet(seqs[i]) : i \in 1 .. N} = UNION {ToSet(LogsOf(trunk[i])) : i \in InRange(range)}
  BY <1>4, <1>8
<1> QED
  BY <1>5, <1>9, <1>10

\* What the node finds for a filter: of the known logs, those that it wants, and all of
\* these in a range.
FindsWanted(found, criteria) ==
  /\ found \in Seq(KnownLogs)
  /\ \A e \in ToSet(found) :
       Wanted(e.log, criteria) /\ \E b \in KnownBlocks : \E k \in DOMAIN Logs[b] : e = AsLog(b, k)

LEMMA NodeFinds ==
  ASSUME trunk \in Trunks, NEW range, range.from \in Nat, range.to \in Nat \union {Null},
         NEW criteria
  PROVE  LET found == NodeLogs(LogsBetween(range), criteria)
         IN  /\ FindsWanted(found, criteria)
             /\ \A i \in InRange(range) : \A k \in DOMAIN Logs[trunk[i]] :
                  Wanted(Logs[trunk[i]][k], criteria) => AsLog(trunk[i], k) \in ToSet(found)
<1> DEFINE all == LogsBetween(range)
           wanted == {e \in ToSet(all) : Wanted(e.log, criteria)}
<1>1. all \in Seq(KnownLogs) /\ ToSet(all) = UNION {ToSet(LogsOf(trunk[i])) : i \in InRange(range)}
  BY LogsOfRange
<1>2. NodeLogs(all, criteria) = Selected(all, wanted)
  BY DEF NodeLogs
<1>3. Selected(all, wanted) \in Seq(KnownLogs) /\ ToSet(Selected(all, wanted)) = ToSet(all) \intersect wanted
  <2> HIDE DEF all, wanted
  <2> QED
    BY <1>1, SelectedOnes
<1>4. \A i \in InRange(range) :
        trunk[i] \in KnownBlocks /\ ToSet(LogsOf(trunk[i])) = {AsLog(trunk[i], k) : k \in DOMAIN Logs[trunk[i]]}
  <2> TAKE i \in InRange(range)
  <2>1. trunk[i] \in KnownBlocks
    BY OnTheTrunk DEF InRange
  <2>2. \A k \in DOMAIN Logs[trunk[i]] : AsLog(trunk[i], k) \in KnownLogs
    BY <2>1 DEF KnownLogs
  <2> QED
    BY <2>1, <2>2, LogsOfBlock
<1> HIDE DEF all
<1>5. \A b, k : AsLog(b, k).log = Logs[b][k]
  BY DEF AsLog
<1>6. ASSUME NEW e \in ToSet(NodeLogs(all, criteria))
      PROVE  Wanted(e.log, criteria) /\ \E b \in KnownBlocks : \E k \in DOMAIN Logs[b] : e = AsLog(b, k)
  <2>1. e \in ToSet(all) /\ Wanted(e.log, criteria)
    BY <1>2, <1>3
  <2>2. PICK i \in InRange(range) : e \in ToSet(LogsOf(trunk[i]))
    BY <1>1, <2>1
  <2> QED
    BY <1>4, <2>1, <2>2
<1>7. ASSUME NEW i \in InRange(range), NEW k \in DOMAIN Logs[trunk[i]], Wanted(Logs[trunk[i]][k], criteria)
      PROVE  AsLog(trunk[i], k) \in ToSet(NodeLogs(all, criteria))
  <2>1. AsLog(trunk[i], k) \in ToSet(all)
    BY <1>1, <1>4
  <2> QED
    BY <1>2, <1>3, <1>5, <1>7, <2>1
<1> QED
  BY <1>2, <1>3, <1>6, <1>7 DEF FindsWanted, all

\* The number of a block is its place on any trunk.
LEMMA NumberIsPlace ==
  ASSUME NEW t \in Trunks, NEW i \in DOMAIN t
  PROVE  NumberOf(t[i]) = i - 1 /\ i \in Nat \ {0}
<1> DEFINE b == t[i]
           s == CHOOSE s \in Trunks : b \in ToSet(s)
           j == SelectInSeq(s, LAMBDA c : c = b)
<1>1. b \in ToSet(t)
  BY DEF ToSet
<1>2. s \in Trunks /\ b \in ToSet(s)
  BY <1>1
<1>3. BranchTo(b) = SubSeq(s, 1, j)
  BY DEF BranchTo
<1> HIDE DEF s
<1>4. s \in Seq(ToSet(s)) /\ t \in Seq(ToSet(t))
  BY <1>2, ThorAssumption
<1>5. Len(s) \in Nat /\ DOMAIN s = 1 .. Len(s) /\ DOMAIN t = 1 .. Len(t)
  BY <1>4
<1>6. j = PlaceIn(s, b)
  BY DEF PlaceIn
<1>7. j \in DOMAIN s /\ s[j] = t[i]
  <2> HIDE DEF j
  <2> QED
    BY <1>2, <1>5, <1>6, FirstIsThere
<1> HIDE DEF j
<1>8. j = i
  BY <1>2, <1>7, ThorAssumption
<1>9. Len(SubSeq(s, 1, j)) = j
  BY <1>4, <1>5, <1>7
<1> HIDE DEF b
<1> QED
  BY <1>3, <1>5, <1>7, <1>8, <1>9 DEF NumberOf, b

\* The first fragment with a topic is one of those with it.
LEMMA FragmentWithHash ==
  ASSUME NEW options, NEW C, options.criteriaSet \in Seq(C),
         NEW c \in ToSet(options.criteriaSet)
  PROVE  \E d \in ToSet(options.criteriaSet) :
           d.fragment.hash = c.fragment.hash /\ FragmentOf(options, c.fragment.hash) = d.fragment
<1> DEFINE criteria == options.criteriaSet
           hash == c.fragment.hash
           I == {i \in 1 .. Len(criteria) : criteria[i].fragment.hash = hash}
           place == SelectInSeq(criteria, LAMBDA d : d.fragment.hash = hash)
<1>1. Len(criteria) \in Nat /\ DOMAIN criteria = 1 .. Len(criteria)
  OBVIOUS
<1>2. I # {} /\ I \in SUBSET Nat
  BY <1>1 DEF ToSet
<1>3. PICK m \in I : \A i \in I : m <= i
  <2> HIDE DEF I
  <2> QED
    BY <1>2, LeastNumber
<1>4. Min(I) \in I
  <2> HIDE DEF I
  <2> QED
    BY <1>3 DEF Min
<1>5. place = Min(I)
  BY <1>2 DEF SelectInSeq
<1>6. FragmentOf(options, hash) = criteria[place].fragment
  BY DEF FragmentOf
<1>7. place \in 1 .. Len(criteria) /\ criteria[place].fragment.hash = hash
  BY <1>4, <1>5
<1> HIDE DEF place, I
<1> QED
  BY <1>1, <1>6, <1>7 DEF ToSet

\* What comes out of the logs found: all of them, or an exception because of one that no
\* fragment decodes, or not the first with its topic.
Tells(told, found) ==
  \A e \in ToSet(found) : \E d \in ToSet(told) : d.log = e.log /\ d.block = e.block

DecodesTo(options, found, step) ==
  \/ /\ step = Throw
     /\ options.criteriaSet # Null /\ (~Decodable(options) \/ MixedFragments(options))
  \/ /\ "ret" \in DOMAIN step /\ "ask" \notin DOMAIN step
     /\ options.criteriaSet # Null =>
          /\ Tells(step.ret, found)
          /\ \E A : step.ret \in Seq(A)
          /\ \A d \in ToSet(step.ret) : d.log.topics[1] \in ToSet(TopicHashes(options))

LEMMA DecodeLogsGoes ==
  ASSUME NEW options,
         options.criteriaSet # Null => options.criteriaSet \in Seq(ToSet(options.criteriaSet)),
         NEW found, FindsWanted(found, CriteriaOf(options)), NEW i
  PROVE  DecodesTo(options, found, DecodeLogs(options, found, i))
<1> DEFINE step == DecodeLogs(options, found, i)
           of(e) == FragmentOf(options, e.log.topics[1])
           told == [k \in DOMAIN found |->
                      [log |-> found[k].log, block |-> found[k].block, by |-> of(found[k])]]
           Fits(k) == /\ found[k].log.topics[1] \in ToSet(TopicHashes(options))
                      /\ Decodes(of(found[k]), found[k].log)
<1> SUFFICES DecodesTo(options, found, step)
  OBVIOUS
<1>1. CASE options.criteriaSet = Null
  <2>1. step = [ret |-> <<>>, next |-> i]
    BY <1>1 DEF DecodeLogs, Return
  <2> HIDE DEF step
  <2> QED
    BY <1>1, <2>1 DEF DecodesTo
<1>2. CASE options.criteriaSet # Null /\ \A k \in DOMAIN found : Fits(k)
  <2>1. step = [ret |-> told, next |-> i]
    BY <1>2 DEF DecodeLogs, Return
  <2>2. found \in Seq(KnownLogs) /\ Len(found) \in Nat /\ DOMAIN found = 1 .. Len(found)
    BY DEF FindsWanted
  <2>3. /\ DOMAIN told = DOMAIN found
        /\ \A k \in DOMAIN found : told[k].log = found[k].log /\ told[k].block = found[k].block
    OBVIOUS
  <2>4. told \in Seq({told[k] : k \in DOMAIN found})
    BY <2>2
  <2> HIDE DEF told
  <2>5. Tells(told, found)
    BY <2>3 DEF Tells, ToSet
  <2>6. \A d \in ToSet(told) : d.log.topics[1] \in ToSet(TopicHashes(options))
    BY <1>2, <2>3 DEF ToSet
  <2> HIDE DEF step
  <2>7. step.ret = told /\ DOMAIN step = {"ret", "next"}
    BY <2>1
  <2> QED
    BY <2>4, <2>5, <2>6, <2>7 DEF DecodesTo
<1>3. ASSUME options.criteriaSet # Null, NEW k \in DOMAIN found, ~Fits(k),
             Decodable(options), ~MixedFragments(options)
      PROVE  FALSE
  <2>1. PICK C : options.criteriaSet \in Seq(C)
    BY <1>3
  <2>2. found[k] \in ToSet(found)
    BY DEF ToSet
  <2>3. PICK b \in KnownBlocks : \E j \in DOMAIN Logs[b] : found[k] = AsLog(b, j)
    BY <2>2 DEF FindsWanted
  <2>4. PICK j \in DOMAIN Logs[b] : found[k] = AsLog(b, j)
    BY <2>3
  <2>5. found[k].log = Logs[b][j] /\ Wanted(Logs[b][j], CriteriaOf(options))
    BY <2>2, <2>4 DEF FindsWanted, AsLog
  <2>6. PICK c \in ToSet(options.criteriaSet) : Decodes(c.fragment, found[k].log)
    BY <1>3, <2>5 DEF Decodable
  <2>7. found[k].log.topics[1] = c.fragment.hash
    BY <2>6 DEF Decodes
  <2>8. PICK d \in ToSet(options.criteriaSet) :
          d.fragment.hash = c.fragment.hash /\ FragmentOf(options, c.fragment.hash) = d.fragment
    BY <2>1, FragmentWithHash
  <2>9. d.fragment = c.fragment
    BY <1>3, <2>8 DEF MixedFragments
  <2>10. c.fragment.hash \in ToSet(TopicHashes(options))
    <3>1. PICK n \in DOMAIN options.criteriaSet : c = options.criteriaSet[n]
      BY DEF ToSet
    <3>2. ToSet(TopicHashes(options)) =
            {options.criteriaSet[m].fragment.hash : m \in DOMAIN options.criteriaSet}
      BY <2>1, HashesOfFragments
    <3> QED
      BY <3>1, <3>2
  <2> QED
    BY <1>3, <2>6, <2>7, <2>8, <2>9, <2>10
<1>4. CASE options.criteriaSet # Null /\ ~ \A k \in DOMAIN found : Fits(k)
  <2>1. step = Throw
    BY <1>4 DEF DecodeLogs
  <2> HIDE DEF step, Fits
  <2>2. ~Decodable(options) \/ MixedFragments(options)
    BY <1>3, <1>4
  <2> QED
    BY <1>4, <2>1, <2>2 DEF DecodesTo
<1> QED
  BY <1>1, <1>2, <1>4

\* Every log told is in a group.
LEMMA GroupsTellAll ==
  ASSUME NEW options, options.criteriaSet \in Seq(ToSet(options.criteriaSet)), options.criteriaSet # Null,
         NEW A, NEW told \in Seq(A),
         \A d \in ToSet(told) : d.log.topics[1] \in ToSet(TopicHashes(options))
  PROVE  ToSet(FlattenSeq(Grouped(options, told))) = ToSet(told)
<1> DEFINE hashes == TopicHashes(options)
           N == Len(hashes)
           Of(n) == {d \in ToSet(told) : d.log.topics[1] = hashes[n]}
           groups == Grouped(options, told)
<1>1. \E H : hashes \in Seq(H)
  BY HashesOfFragments
<1>2. N \in Nat /\ DOMAIN hashes = 1 .. N
  BY <1>1
<1>3. groups = [n \in 1 .. N |-> Selected(told, Of(n))]
  BY <1>2 DEF Grouped
<1>4. \A n \in 1 .. N : /\ Selected(told, Of(n)) \in Seq(A)
                       /\ ToSet(Selected(told, Of(n))) = ToSet(told) \intersect Of(n)
  <2> TAKE n \in 1 .. N
  <2> DEFINE M == Of(n)
  <2> HIDE DEF M
  <2>1. Selected(told, M) \in Seq(A) /\ ToSet(Selected(told, M)) = ToSet(told) \intersect M
    BY SelectedOnes
  <2> QED
    BY <2>1 DEF M
<1>5. groups \in [1 .. N -> Seq(A)] /\ \A n \in 1 .. N : ToSet(groups[n]) = Of(n)
  BY <1>3, <1>4
<1> HIDE DEF groups, N
<1>6. ToSet(FlattenSeq(groups)) = UNION {ToSet(groups[n]) : n \in 1 .. N}
  <2>1. groups \in [1 .. N -> Seq(A)]
    BY <1>5
  <2> QED
    BY <1>2, <2>1, FlattenOnes
<1>7. ASSUME NEW d \in ToSet(told) PROVE \E n \in 1 .. N : d \in Of(n)
  <2>1. PICK n \in DOMAIN hashes : d.log.topics[1] = hashes[n]
    BY DEF ToSet
  <2> QED
    BY <1>2, <2>1
<1>8. UNION {ToSet(groups[n]) : n \in 1 .. N} = ToSet(told)
  <2>1. \A n \in 1 .. N : ToSet(groups[n]) \subseteq ToSet(told)
    BY <1>5
  <2>2. \A d \in ToSet(told) : \E n \in 1 .. N : d \in ToSet(groups[n])
    BY <1>5, <1>7
  <2> HIDE DEF Of
  <2> QED
    BY <2>1, <2>2
<1> QED
  BY <1>6, <1>8 DEF groups

\* What a filter asks for, in order, and what the node may say of it while the trunk moves.
IsFilter(o) == o.name \in {"filterEventLogs", "filterGroupedEventLogs"}

AnswersNeeded(o) == IF o.range = Null THEN 2 ELSE 1

RangeOf(o) == IF o.range = Null THEN [from |-> 0, to |-> NumberOf(got[1])] ELSE o.range

FilterRequest(o, k) ==
  IF k < AnswersNeeded(o) THEN BlockRequest(BestBlock, FALSE)
  ELSE [path |-> "logs", range |-> RangeOf(o), criteria |-> CriteriaOf(o)]

FilterAnswers(o, k, a) ==
  IF k < AnswersNeeded(o) THEN a \in KnownBlocks /\ \A b \in kept : NumberOf(b) <= NumberOf(a)
  ELSE /\ FindsWanted(a, CriteriaOf(o))
       /\ o.range = Null =>
            \A b \in kept : \A j \in DOMAIN Logs[b] :
              Wanted(Logs[b][j], CriteriaOf(o)) => AsLog(b, j) \in ToSet(a)

FilterTyped(o) ==
  /\ IsFilter(o)
  /\ o.range \in {Null} \union [from : Nat, to : Nat \union {Null}]
  /\ o.criteriaSet # Null => o.criteriaSet \in Seq(ToSet(o.criteriaSet))

\* What the node says of it.
LEMMA NodeTellsOfLogs ==
  ASSUME trunk \in Trunks, kept \subseteq ToSet(trunk), NEW o, FilterTyped(o),
         NEW k \in 1 .. AnswersNeeded(o),
         k = 2 => FilterAnswers(o, 1, got[1])
  PROVE  FilterAnswers(o, k, Node(FilterRequest(o, k)))
<1> DEFINE request == FilterRequest(o, k)
<1> SUFFICES FilterAnswers(o, k, Node(request))
  OBVIOUS
<1>1. /\ Len(trunk) \in Nat \ {0} /\ DOMAIN trunk = 1 .. Len(trunk)
      /\ \A i \in 1 .. Len(trunk) : trunk[i] \in KnownBlocks /\ NumberOf(trunk[i]) = i - 1
      /\ Last(trunk) = trunk[Len(trunk)]
  BY OnTheTrunk, NumberIsPlace
<1>2. ASSUME NEW b \in kept PROVE \E i \in 1 .. Len(trunk) : b = trunk[i]
  BY <1>1 DEF ToSet
<1>3. CASE k < AnswersNeeded(o)
  <2>1. request = [path |-> "blocks", revision |-> [tag |-> "best"], expanded |-> FALSE]
    BY <1>3 DEF FilterRequest, BlockRequest, BestBlock
  <2>2. Node(request) = NodeBlock([tag |-> "best"])
    BY <2>1 DEF Node
  <2>3. [tag |-> "best"] # Null
    BY ThorAssumption
  <2>4. NodeBlock([tag |-> "best"]) = trunk[Len(trunk)]
    BY <1>1, <2>3 DEF NodeBlock
  <2>5. ASSUME NEW b \in kept PROVE NumberOf(b) <= NumberOf(trunk[Len(trunk)])
    BY <1>1, <1>2
  <2>6. trunk[Len(trunk)] \in KnownBlocks
    BY <1>1
  <2> QED
    BY <1>3, <2>2, <2>4, <2>5, <2>6 DEF FilterAnswers
<1>4. CASE ~(k < AnswersNeeded(o))
  <2> DEFINE range == RangeOf(o)
             criteria == CriteriaOf(o)
  <2>1. request = [path |-> "logs", range |-> range, criteria |-> criteria]
    BY <1>4 DEF FilterRequest
  <2> HIDE DEF range, criteria
  <2>2. Node(request) = NodeLogs(LogsBetween(range), criteria)
    BY <2>1 DEF Node
  <2>3. /\ range.from \in Nat /\ range.to \in Nat \union {Null}
        /\ o.range = Null =>
             /\ range.from = 0 /\ range.to \in Nat
             /\ \A b \in kept : NumberOf(b) <= range.to
    <3>1. CASE o.range # Null
      BY <3>1 DEF RangeOf, FilterTyped, range
    <3>2. CASE o.range = Null
      <4>1. FilterAnswers(o, 1, got[1]) /\ 1 < AnswersNeeded(o)
        BY <1>4, <3>2 DEF AnswersNeeded
      <4>2. got[1] \in KnownBlocks /\ \A b \in kept : NumberOf(b) <= NumberOf(got[1])
        BY <4>1 DEF FilterAnswers
      <4>3. PICK t \in Trunks : got[1] \in ToSet(t)
        BY <4>2 DEF KnownBlocks
      <4>4. PICK i \in DOMAIN t : got[1] = t[i]
        BY <4>3 DEF ToSet
      <4>5. NumberOf(got[1]) \in Nat
        BY <4>4, NumberIsPlace
      <4>6. range.from = 0 /\ range.to = NumberOf(got[1])
        BY <3>2 DEF RangeOf, range
      <4> QED
        BY <4>2, <4>5, <4>6
    <3> QED
      BY <3>1, <3>2
  <2>4. /\ FindsWanted(Node(request), criteria)
        /\ \A i \in InRange(range) : \A j \in DOMAIN Logs[trunk[i]] :
             Wanted(Logs[trunk[i]][j], criteria) => AsLog(trunk[i], j) \in ToSet(Node(request))
    BY <2>2, <2>3, NodeFinds
  <2>5. ASSUME o.range = Null, NEW b \in kept PROVE \E i \in InRange(range) : b = trunk[i]
    <3>1. PICK i \in 1 .. Len(trunk) : b = trunk[i]
      BY <1>2
    <3>2. i - 1 <= range.to
      BY <1>1, <2>3, <2>5, <3>1
    <3>3. i \in InRange(range)
      BY <1>1, <2>3, <2>5, <3>2 DEF InRange
    <3> QED
      BY <3>1, <3>3
  <2>6. o.range = Null =>
          \A b \in kept : \A j \in DOMAIN Logs[b] :
            Wanted(Logs[b][j], criteria) => AsLog(b, j) \in ToSet(Node(request))
    BY <2>4, <2>5
  <2> HIDE DEF request
  <2> QED
    BY <1>4, <2>4, <2>6 DEF FilterAnswers, criteria
<1> QED
  BY <1>3, <1>4

\* The step of a filter: it asks for what it has not been told, and decodes the logs.
FilterEnds(o, found, step) ==
  \/ /\ step = Throw
     /\ o.criteriaSet # Null /\ (~Decodable(o) \/ MixedFragments(o))
  \/ /\ "ret" \in DOMAIN step /\ "ask" \notin DOMAIN step
     /\ o.criteriaSet # Null =>
          Tells(IF o.name = "filterEventLogs" THEN step.ret ELSE FlattenSeq(step.ret), found)

LEMMA FilterGoes ==
  ASSUME IsSequence(got), NEW o, FilterTyped(o), \A k \in 1 .. Len(got) : FilterAnswers(o, k, got[k])
  PROVE  IF Len(got) < AnswersNeeded(o) THEN PerformOnContract(o) = [ask |-> FilterRequest(o, Len(got) + 1)]
         ELSE FilterEnds(o, got[AnswersNeeded(o)], PerformOnContract(o))
<1> DEFINE raw == GetRawEventLogs(o, 1)
           n == AnswersNeeded(o)
           request == [path |-> "logs", range |-> RangeOf(o), criteria |-> CriteriaOf(o)]
<1>1. Len(got) \in Nat /\ n \in {1, 2}
  BY DEF IsSequence, AnswersNeeded
<1>2. raw = IF Len(got) < n THEN [ask |-> FilterRequest(o, Len(got) + 1)]
            ELSE [ret |-> got[n], next |-> n + 1]
  <2>1. CASE o.range # Null
    <3>1. n = 1 /\ RangeOf(o) = o.range
      BY <2>1 DEF AnswersNeeded, RangeOf
    <3>2. raw = Ask(request, 1)
      BY <2>1, <3>1 DEF GetRawEventLogs, FilterRawEventLogs
    <3>3. CASE Len(got) = 0
      <4>1. ~(Len(got) + 1 < n) /\ Len(got) < n
        BY <3>1, <3>3
      <4> QED
        BY <3>2, <3>3, <4>1 DEF Ask, FilterRequest
    <3>4. CASE Len(got) # 0
      BY <1>1, <3>1, <3>2, <3>4 DEF Ask
    <3> QED
      BY <3>3, <3>4
  <2>2. CASE o.range = Null
    <3>1. n = 2 /\ RangeOf(o) = [from |-> 0, to |-> NumberOf(got[1])]
      BY <2>2 DEF AnswersNeeded, RangeOf
    <3>2. BestBlock # Malformed
      BY ThorAssumption DEF BestBlock
    <3> DEFINE asked == GetBlockCompressed(BestBlock, 1)
    <3>3. asked = Ask(BlockRequest(BestBlock, FALSE), 1)
      BY <3>2 DEF GetBlockCompressed
    <3>4. CASE Len(got) = 0
      <4>1. asked = [ask |-> BlockRequest(BestBlock, FALSE)]
        <5> HIDE DEF asked, raw, request
        <5> QED
          BY <3>3, <3>4 DEF Ask
      <4>2. raw = asked
        <5> HIDE DEF asked
        <5>1. raw = Then(asked, LAMBDA b, j :
                           FilterRawEventLogs([from |-> 0, to |-> IF b = Null THEN Null ELSE NumberOf(b)],
                                              CriteriaOf(o), j))
          BY <2>2 DEF GetRawEventLogs, asked
        <5> QED
          BY <4>1, <5>1 DEF Then
      <4>3. Len(got) + 1 < n /\ Len(got) < n
        BY <3>1, <3>4
      <4> HIDE DEF asked
      <4> QED
        BY <4>1, <4>2, <4>3 DEF FilterRequest
    <3>5. ASSUME Len(got) >= 1 PROVE raw = Ask(request, 2)
      <4>1. asked = [ret |-> got[1], next |-> 2]
        <5> HIDE DEF asked, raw, request
        <5>1. ~(1 > Len(got))
          BY <1>1, <3>5
        <5> QED
          BY <3>3, <5>1 DEF Ask
      <4>2. got[1] # Null
        <5>1. FilterAnswers(o, 1, got[1]) /\ 1 < AnswersNeeded(o)
          BY <1>1, <3>1, <3>5
        <5>2. got[1] \in KnownBlocks
          BY <5>1 DEF FilterAnswers
        <5> QED
          BY <5>2, ThorAssumption
      <4>3. raw = FilterRawEventLogs([from |-> 0, to |-> NumberOf(got[1])], CriteriaOf(o), 2)
        <5> HIDE DEF asked
        <5>1. raw = Then(asked, LAMBDA b, j :
                           FilterRawEventLogs([from |-> 0, to |-> IF b = Null THEN Null ELSE NumberOf(b)],
                                              CriteriaOf(o), j))
          BY <2>2 DEF GetRawEventLogs, asked
        <5> QED
          BY <4>1, <4>2, <5>1 DEF Then
      <4> HIDE DEF raw
      <4> QED
        BY <3>1, <4>3 DEF FilterRawEventLogs
    <3>6. CASE Len(got) = 1
      <4>1. raw = [ask |-> request]
        BY <3>5, <3>6 DEF Ask
      <4>2. ~(Len(got) + 1 < n) /\ Len(got) < n
        BY <3>1, <3>6
      <4> HIDE DEF raw
      <4> QED
        BY <4>1, <4>2 DEF FilterRequest
    <3>7. CASE Len(got) > 1
      <4>1. raw = [ret |-> got[2], next |-> 3]
        BY <1>1, <3>5, <3>7 DEF Ask
      <4> HIDE DEF raw
      <4> QED
        BY <3>1, <3>7, <4>1
    <3> QED
      <4>1. \A m \in Nat : m = 0 \/ m = 1 \/ m > 1
        OBVIOUS
      <4>2. Len(got) = 0 \/ Len(got) = 1 \/ Len(got) > 1
        BY <1>1, <4>1
      <4> QED
        BY <3>4, <3>6, <3>7, <4>2
  <2> QED
    BY <2>1, <2>2
<1> DEFINE filter == FilterEventLogs(o, 1)
           decoded == DecodeLogs(o, got[n], n + 1)
<1> HIDE DEF n
<1>3. filter = Then(raw, LAMBDA found, j : DecodeLogs(o, found, j))
  BY DEF FilterEventLogs
<1>4. \/ o.name = "filterEventLogs" /\ PerformOnContract(o) = filter
      \/ /\ o.name = "filterGroupedEventLogs"
         /\ PerformOnContract(o) = Then(filter, LAMBDA d, j : Return(Grouped(o, d), j))
  BY DEF FilterTyped, IsFilter, PerformOnContract, Perform, FilterGroupedEventLogs
<1> HIDE DEF raw, filter
<1>5. CASE Len(got) < n
  <2>1. raw = [ask |-> FilterRequest(o, Len(got) + 1)]
    BY <1>2, <1>5
  <2>2. filter = raw
    BY <1>3, <2>1 DEF Then
  <2>3. PerformOnContract(o) = raw
    BY <1>4, <2>1, <2>2 DEF Then
  <2> QED
    BY <1>5, <2>1, <2>3 DEF n
<1>6. CASE ~(Len(got) < n)
  <2>1. raw = [ret |-> got[n], next |-> n + 1]
    BY <1>2, <1>6
  <2>2. filter = decoded
    BY <1>3, <2>1 DEF Then
  <2>3. FilterAnswers(o, n, got[n]) /\ ~(n < n)
    BY <1>1, <1>6
  <2>4. FindsWanted(got[n], CriteriaOf(o))
    BY <2>3 DEF FilterAnswers, n
  <2>5. DecodesTo(o, got[n], decoded)
    BY <2>4, DecodeLogsGoes DEF FilterTyped
  <2> HIDE DEF decoded
  <2>6. CASE o.name = "filterEventLogs"
    BY <1>4, <1>6, <2>2, <2>5, <2>6 DEF FilterEnds, DecodesTo, n
  <2>7. CASE o.name # "filterEventLogs"
    <3> DEFINE step == PerformOnContract(o)
    <3>1. step = Then(decoded, LAMBDA d, j : Return(Grouped(o, d), j))
      BY <1>4, <2>2, <2>7
    <3>2. CASE decoded = Throw /\ o.criteriaSet # Null /\ (~Decodable(o) \/ MixedFragments(o))
      <4>1. step = Throw
        BY <3>1, <3>2 DEF Then, Throw
      <4> HIDE DEF step
      <4>2. FilterEnds(o, got[n], step)
        BY <3>2, <4>1 DEF FilterEnds
      <4> QED
        BY <1>6, <4>2 DEF n, step
    <3>3. CASE /\ "ret" \in DOMAIN decoded /\ "ask" \notin DOMAIN decoded
               /\ o.criteriaSet # Null =>
                    /\ Tells(decoded.ret, got[n])
                    /\ \E A : decoded.ret \in Seq(A)
                    /\ \A d \in ToSet(decoded.ret) : d.log.topics[1] \in ToSet(TopicHashes(o))
      <4>1. step = [ret |-> Grouped(o, decoded.ret), next |-> decoded.next]
        BY <3>1, <3>3 DEF Then, Return
      <4>2. o.criteriaSet # Null => ToSet(FlattenSeq(Grouped(o, decoded.ret))) = ToSet(decoded.ret)
        BY <3>3, GroupsTellAll DEF FilterTyped
      <4>3. o.criteriaSet # Null => Tells(FlattenSeq(Grouped(o, decoded.ret)), got[n])
        BY <3>3, <4>2 DEF Tells
      <4> HIDE DEF step
      <4>4. FilterEnds(o, got[n], step)
        BY <2>7, <4>1, <4>3 DEF FilterEnds
      <4> QED
        BY <1>6, <4>4 DEF n, step
    <3> QED
      BY <2>5, <3>2, <3>3 DEF DecodesTo
  <2> QED
    BY <2>6, <2>7
<1> QED
  BY <1>5, <1>6

\* What a filter has asked and been told so far.
FilterAsked(o) ==
  /\ \A k \in 1 .. Len(sent) : k <= AnswersNeeded(o) /\ sent[k] = FilterRequest(o, k)
  /\ \A k \in 1 .. Len(got) : FilterAnswers(o, k, got[k])
  /\ \A r \in Requests : stage[r] = "json" => FilterAnswers(o, r, answer)

Filtering == op # Null /\ IsFilter(op)

FilterInv ==
  /\ op # Null => kept \subseteq ToSet(trunk)
  /\ Filtering =>
       /\ FilterAsked(op)
       /\ outcome = Thrown =>
            (\E r \in Requests : stage[r] = "rejected") \/ ~Decodable(op) \/ MixedFragments(op)
       /\ Returns => /\ Len(got) = AnswersNeeded(op) /\ Len(sent) = Len(got)
                     /\ op.criteriaSet # Null => Tells(LogsReturned, got[AnswersNeeded(op)])

\* A step that adds the next request or its answer keeps what was asked.
LEMMA FilterAskedKept ==
  ASSUME SessionOK, NEW o, FilterAsked(o), kept' \subseteq kept,
         \/ sent' = sent
         \/ /\ sent' = Append(sent, FilterRequest(o, Len(got) + 1)) /\ Len(sent) = Len(got)
            /\ Len(got) < AnswersNeeded(o),
         \/ got' = got
         \/ got' = Append(got, answer) /\ FilterAnswers(o, Len(got) + 1, answer),
         \A r \in Requests : stage'[r] = "json" => got' = got /\ FilterAnswers(o, r, answer')
  PROVE  FilterAsked(o)'
<1>1. Len(sent) \in Nat /\ Len(got) \in Nat /\ Len(sent) <= Len(got) + 1
  BY DEF SessionOK, IsSequence
<1>2. \A i \in 1 .. Len(got) : got'[i] = got[i]
  BY SequenceAppend DEF SessionOK
<1>3. AnswersNeeded(o)' = AnswersNeeded(o) /\ CriteriaOf(o)' = CriteriaOf(o) /\ AnswersNeeded(o) \in {1, 2}
  BY DEF AnswersNeeded, CriteriaOf
<1>4. ASSUME NEW k \in Nat \ {0}, k <= Len(got) + 1, k <= AnswersNeeded(o)
      PROVE  FilterRequest(o, k)' = FilterRequest(o, k)
  <2>1. CASE k < AnswersNeeded(o)
    BY <1>3, <2>1 DEF FilterRequest, BlockRequest, BestBlock
  <2>2. CASE ~(k < AnswersNeeded(o))
    <3>1. RangeOf(o)' = RangeOf(o)
      <4>1. CASE o.range # Null
        BY <4>1 DEF RangeOf
      <4>2. CASE o.range = Null
        <5>1. k = 2
          BY <1>3, <1>4, <2>2, <4>2 DEF AnswersNeeded
        <5>2. got'[1] = got[1]
          BY <1>1, <1>2, <1>4, <5>1
        <5> QED
          BY <5>2 DEF RangeOf
      <4> QED
        BY <4>1, <4>2
    <3> QED
      BY <1>3, <2>2, <3>1 DEF FilterRequest
  <2> QED
    BY <2>1, <2>2
<1>6. ASSUME NEW k \in 1 .. Len(sent')
      PROVE  k <= AnswersNeeded(o) /\ sent'[k] = FilterRequest(o, k)'
  <2>1. CASE k \in 1 .. Len(sent)
    <3>1. sent'[k] = sent[k]
      BY <2>1, SequenceAppend DEF SessionOK
    <3>2. k <= AnswersNeeded(o) /\ sent[k] = FilterRequest(o, k)
      BY <2>1 DEF FilterAsked
    <3>3. k \in Nat \ {0} /\ k <= Len(got) + 1
      BY <1>1, <2>1
    <3> QED
      BY <1>4, <3>1, <3>2, <3>3
  <2>2. CASE k \notin 1 .. Len(sent)
    <3>1. sent' # sent
      BY <2>2
    <3>2. k = Len(got) + 1 /\ sent'[k] = FilterRequest(o, k) /\ Len(got) < AnswersNeeded(o)
      BY <1>1, <1>6, <2>2, <3>1, SequenceAppend DEF SessionOK
    <3>3. k \in Nat \ {0} /\ k <= Len(got) + 1 /\ k <= AnswersNeeded(o)
      BY <1>1, <1>3, <3>2
    <3> QED
      BY <1>4, <3>2, <3>3
  <2> QED
    BY <2>1, <2>2
<1>7. ASSUME NEW k \in 1 .. Len(got') PROVE FilterAnswers(o, k, got'[k])
  <2>1. CASE k \in 1 .. Len(got)
    BY <1>1, <1>2, <2>1 DEF FilterAsked
  <2>2. CASE k \notin 1 .. Len(got)
    <3>1. got' = Append(got, answer) /\ FilterAnswers(o, Len(got) + 1, answer)
      BY <2>2
    <3>2. k = Len(got) + 1 /\ got'[k] = answer
      BY <1>1, <1>7, <2>2, <3>1, SequenceAppend DEF SessionOK
    <3> QED
      BY <1>1, <3>1, <3>2
  <2> QED
    BY <2>1, <2>2
<1>8. ASSUME NEW k, NEW a, FilterAnswers(o, k, a')
      PROVE  FilterAnswers(o, k, a)'
  <2>1. CASE k < AnswersNeeded(o)
    BY <1>3, <1>8, <2>1 DEF FilterAnswers
  <2>2. CASE ~(k < AnswersNeeded(o))
    BY <1>3, <1>8, <2>2 DEF FilterAnswers, FindsWanted, Wanted, Meets, AsLog, ToSet
  <2> QED
    BY <2>1, <2>2
<1>9. \A k \in 1 .. Len(got') : FilterAnswers(o, k, got[k])'
  BY <1>7, <1>8
<1> QED
  BY <1>3, <1>6, <1>8, <1>9 DEF FilterAsked

\* The blocks that stayed on the trunk are on it.
LEMMA KeptStays ==
  ASSUME SessionOK, OpOK, [ContractNext]_contractVars, op # Null, kept \subseteq ToSet(trunk)
  PROVE  kept' \subseteq kept /\ kept' \subseteq ToSet(trunk')
<1>1. CASE TrunkMoves
  <2>1. kept' = kept \intersect ToSet(trunk')
    BY <1>1 DEF TrunkMoves
  <2> HIDE DEF ToSet
  <2> QED
    BY <2>1
<1>2. CASE UNCHANGED <<kept, trunk>>
  BY <1>2 DEF ToSet
<1>3. ASSUME NEW c \in Calls, Call(c) PROVE FALSE
  BY <1>3 DEF Call, CallContract, Start
<1>4. ASSUME NEW step, Asks(step) \/ Ends(step) PROVE UNCHANGED <<kept, trunk>>
  BY <1>4 DEF Asks, Ends, nodeVars
<1>5. ASSUME NEW r \in Requests, Responds(r) \/ Elapses(r) \/ Fires(r) PROVE UNCHANGED <<kept, trunk>>
  BY <1>5, RespondsGoes, SettlesGoes DEF nodeVars
<1>6. ASSUME NEW s, SetSigner(s) \/ SetContractReadOptions(s) \/ SetContractTransactOptions(s)
      PROVE  UNCHANGED <<kept, trunk>>
  BY <1>6 DEF SetSigner, SetContractReadOptions, SetContractTransactOptions, Changes, thorVars, nodeVars
<1>7. CASE AddressArrives \/ SecondPasses \/ UNCHANGED contractVars
  BY <1>7 DEF AddressArrives, SecondPasses, contractVars, thorVars, nodeVars
<1> QED
  BY <1>1, <1>2, <1>3, <1>4, <1>5, <1>6, <1>7 DEF ContractNext, ContractProceeds, Outside

\* At the start, and when an operation begins.
LEMMA FilterInit == ContractInit => FilterInv
BY DEF ContractInit, ThorInit, FilterInv, Filtering

LEMMA FilterStarts ==
  ASSUME SessionOK', sent' = <<>>, outcome' = Null, kept' \subseteq ToSet(trunk')
  PROVE  FilterInv'
<1>1. Len(sent') = 0 /\ Len(got') = 0
  BY DEF SessionOK, IsSequence
<1>2. \A r \in Requests : stage'[r] # "json"
  BY <1>1, RequestsAreNumbers DEF SessionOK, Pending
<1>3. FilterAsked(op)'
  BY <1>1, <1>2 DEF FilterAsked
<1>4. ~Returns' /\ outcome' # Thrown
  BY ThorAssumption DEF Returns, Thrown
<1> QED
  BY <1>3, <1>4 DEF FilterInv, Filtering, Thrown

\* Whatever is called, its options are of their types.
LEMMA FilterIsTyped ==
  ASSUME OpOK, Filtering
  PROVE  FilterTyped(op)
<1>1. op.name \notin OnContract
  BY DEF Filtering, IsFilter, OnContract
<1>2. op \in Calls
  BY <1>1, OfContractIs DEF OpOK, Filtering
<1> QED
  BY <1>2, ThorAssumption DEF Filtering, FilterTyped, IsFilter

\* While nothing comes out of it.
LEMMA FilterStays ==
  ASSUME UNCHANGED op, outcome' = Null, op # Null => kept' \subseteq ToSet(trunk'),
         Filtering => FilterAsked(op)'
  PROVE  FilterInv'
<1>1. ~Returns' /\ outcome' # Thrown
  BY ThorAssumption DEF Returns, Thrown
<1> QED
  BY <1>1 DEF FilterInv, Filtering, IsFilter, Thrown

\* The step of the operation.
LEMMA FilterProceeds ==
  ASSUME SessionOK, OpOK, FilterInv, ContractProceeds
  PROVE  FilterInv'
<1> DEFINE step == PerformOnContract(op)
<1>1. /\ op # Null /\ outcome = Null /\ Len(sent) = Len(got)
      /\ UNCHANGED <<op, got, nodeVars>> /\ IsSequence(got)
      /\ Asks(step) \/ Ends(step)
  BY DEF ContractProceeds, Asks, Ends, Running, SessionOK
<1>2. kept' \subseteq kept /\ kept' \subseteq ToSet(trunk')
  <2>1. UNCHANGED <<kept, trunk>>
    BY <1>1 DEF nodeVars
  <2> QED
    BY <1>1, <2>1 DEF FilterInv, ToSet
<1>3. CASE ~Filtering
  BY <1>1, <1>2, <1>3 DEF FilterInv, Filtering, IsFilter
<1>4. CASE Filtering
  <2>0. PICK o, n : o = op /\ n = AnswersNeeded(op)
    OBVIOUS
  <2>1. FilterAsked(o) /\ FilterTyped(o) /\ Len(got) \in Nat /\ n \in {1, 2} /\ n = AnswersNeeded(o)
    BY <1>1, <1>4, <2>0, FilterIsTyped DEF FilterInv, IsSequence, AnswersNeeded
  <2>2. \A k \in 1 .. Len(got) : FilterAnswers(o, k, got[k])
    BY <2>1 DEF FilterAsked
  <2>3. IF Len(got) < n THEN step = [ask |-> FilterRequest(o, Len(got) + 1)]
        ELSE FilterEnds(o, got[n], step)
    BY <1>1, <2>0, <2>1, <2>2, FilterGoes
  <2> HIDE DEF step
  <2>4. CASE Asks(step)
    <3>1. "ask" \in DOMAIN step
      BY <2>4 DEF Asks
    <3>2. Len(got) < n /\ step.ask = FilterRequest(o, Len(got) + 1)
      BY <2>3, <3>1 DEF FilterEnds, Throw
    <3>3. sent' = sent \/ sent' = Append(sent, FilterRequest(o, Len(got) + 1))
      BY <2>4, <3>2 DEF Asks
    <3>4. \A r \in Requests : stage'[r] = "json" => stage[r] = "json" /\ answer' = answer
      BY <2>4 DEF Asks, Send, InvalidUrl, Goes, SessionOK
    <3>5. \A r \in Requests : stage'[r] = "json" => got' = got /\ FilterAnswers(o, r, answer')
      BY <1>1, <2>1, <3>4 DEF FilterAsked
    <3>6. FilterAsked(o)'
      BY <1>1, <1>2, <2>1, <3>2, <3>3, <3>5, FilterAskedKept
    <3>7. CASE outcome' = Null
      BY <1>1, <1>2, <2>0, <3>6, <3>7, FilterStays
    <3>8. CASE outcome' # Null
      <4>1. PICK r : InvalidUrl(r) /\ r \in Requests /\ outcome' = Thrown
        BY <1>1, <2>4, <3>8 DEF Asks
      <4>2. stage'[r] = "rejected"
        BY <4>1 DEF InvalidUrl, Goes, SessionOK
      <4>3. ~Returns'
        BY <4>1 DEF Returns, Thrown
      <4> QED
        BY <1>1, <1>2, <2>0, <3>6, <4>1, <4>2, <4>3 DEF FilterInv, Filtering, IsFilter
    <3> QED
      BY <3>7, <3>8
  <2>5. CASE Ends(step)
    <3>1. /\ "ask" \notin DOMAIN step /\ UNCHANGED <<sent, stage, answer>>
          /\ outcome' = IF "ret" \in DOMAIN step THEN [ret |-> step.ret] ELSE Thrown
      BY <2>5 DEF Ends, httpVars
    <3>2. FilterAsked(o)'
      <4>1. \A r \in Requests : stage'[r] = "json" => got' = got /\ FilterAnswers(o, r, answer')
        BY <1>1, <2>1, <3>1 DEF FilterAsked
      <4> QED
        BY <1>1, <1>2, <2>1, <3>1, <4>1, FilterAskedKept
    <3>3. FilterEnds(o, got[n], step) /\ Len(got) >= n
      BY <2>1, <2>3, <3>1
    <3>4. Len(got) = n
      <4>1. CASE Len(got) = 0
        BY <2>1, <3>3, <4>1
      <4>2. CASE Len(got) # 0
        <5>1. Len(sent) \in 1 .. Len(sent)
          BY <1>1, <2>1, <4>2
        <5>2. Len(sent) <= AnswersNeeded(o)
          BY <2>1, <5>1 DEF FilterAsked
        <5> QED
          BY <1>1, <2>1, <3>3, <5>2
      <4> QED
        BY <4>1, <4>2
    <3>5. CASE step = Throw
      <4>1. outcome' = Thrown
        BY <3>1, <3>5 DEF Throw
      <4>2. ~Decodable(o) \/ MixedFragments(o)
        BY <3>3, <3>5 DEF FilterEnds, Throw
      <4>3. ~Returns'
        BY <4>1 DEF Returns, Thrown
      <4>4. (~Decodable(o) \/ MixedFragments(o))'
        BY <4>2 DEF Decodable, MixedFragments, CriteriaOf, Wanted, Meets, Decodes, KnownBlocks, ToSet
      <4> QED
        BY <1>1, <1>2, <2>0, <3>2, <4>3, <4>4 DEF FilterInv, Filtering, IsFilter
    <3>6. CASE step # Throw
      <4>1. /\ "ret" \in DOMAIN step
            /\ o.criteriaSet # Null =>
                 Tells(IF o.name = "filterEventLogs" THEN step.ret ELSE FlattenSeq(step.ret), got[n])
        BY <3>3, <3>6 DEF FilterEnds
      <4>2. outcome' = [ret |-> step.ret] /\ outcome' # Thrown
        BY <3>1, <4>1 DEF Thrown
      <4>3. Returns' => LogsReturned' = IF o.name = "filterEventLogs" THEN step.ret ELSE FlattenSeq(step.ret)
        BY <1>1, <1>4, <2>0, <4>2 DEF LogsReturned, Filtering, IsFilter
      <4>4. /\ FilterAsked(op)' /\ outcome' # Thrown'
            /\ Returns' => /\ Len(got') = AnswersNeeded(op)' /\ Len(sent') = Len(got')
                           /\ op.criteriaSet # Null => Tells(LogsReturned', got'[AnswersNeeded(op)'])
        BY <1>1, <2>0, <2>1, <3>1, <3>2, <3>4, <4>1, <4>2, <4>3 DEF AnswersNeeded, Thrown
      <4> QED
        BY <1>1, <1>2, <4>4 DEF FilterInv, Filtering, IsFilter, Tells, ToSet
    <3> QED
      BY <3>5, <3>6
  <2> QED
    BY <1>1, <2>4, <2>5
<1> QED
  BY <1>3, <1>4

\* At the call, the blocks that stayed are those of the trunk.
LEMMA CallKeepsTrunk ==
  ASSUME OpOK, [ContractNext]_contractVars, op = Null, op' # Null
  PROVE  kept' \subseteq ToSet(trunk')
<1>1. ASSUME NEW c \in Calls, Call(c) PROVE kept' = ToSet(trunk')
  BY <1>1 DEF Call, CallContract, Start, ToSet
<1>2. ASSUME NEW step, Asks(step) \/ Ends(step) PROVE FALSE
  BY <1>2 DEF Asks, Ends, Running
<1>3. ASSUME NEW r \in Requests, Responds(r) \/ Elapses(r) \/ Fires(r) PROVE UNCHANGED op
  BY <1>3 DEF Responds, Elapses, Fires, Settles
<1>4. ASSUME NEW s, SetSigner(s) \/ SetContractReadOptions(s) \/ SetContractTransactOptions(s)
      PROVE  UNCHANGED op
  BY <1>4 DEF SetSigner, SetContractReadOptions, SetContractTransactOptions, Changes, thorVars, opVars
<1>5. ~AddressArrives /\ ~TrunkMoves /\ ~SecondPasses
  BY DEF AddressArrives, AwaitsAddress, TrunkMoves, SecondPasses, Running
<1>6. ASSUME UNCHANGED contractVars PROVE UNCHANGED op
  BY <1>6 DEF contractVars, thorVars, opVars
<1> QED
  BY <1>1, <1>2, <1>3, <1>4, <1>5, <1>6 DEF ContractNext, ContractProceeds, Outside

\* A step of others.
LEMMA FilterMeanwhile ==
  ASSUME SessionOK, FilterInv, UNCHANGED <<op, stage, sent, got, answer, outcome>>,
         op # Null => kept' \subseteq kept /\ kept' \subseteq ToSet(trunk')
  PROVE  FilterInv'
<1>1. CASE ~Filtering
  BY <1>1 DEF FilterInv, Filtering, IsFilter
<1>2. CASE Filtering
  <2>1. PICK o : o = op
    OBVIOUS
  <2>2. FilterAsked(o) /\ op # Null
    BY <1>2, <2>1 DEF FilterInv, Filtering
  <2>3. \A r \in Requests : stage'[r] = "json" => got' = got /\ FilterAnswers(o, r, answer')
    BY <2>2 DEF FilterAsked
  <2>4. FilterAsked(o)'
    BY <2>2, <2>3, FilterAskedKept
  <2>5. outcome' = Thrown =>
          (\E r \in Requests : stage'[r] = "rejected") \/ ~Decodable(o) \/ MixedFragments(o)
    BY <1>2, <2>1 DEF FilterInv, Thrown
  <2>6. Returns' => /\ Len(got') = AnswersNeeded(o) /\ Len(sent') = Len(got')
                    /\ o.criteriaSet # Null => Tells(LogsReturned', got'[AnswersNeeded(o)])
    BY <1>2, <2>1 DEF FilterInv, Returns, Thrown, LogsReturned
  <2>7. AnswersNeeded(o)' = AnswersNeeded(o)
    BY DEF AnswersNeeded
  <2>8. Decodable(o)' = Decodable(o) /\ MixedFragments(o)' = MixedFragments(o)
    BY DEF Decodable, MixedFragments, CriteriaOf, Wanted, Meets, Decodes, KnownBlocks, ToSet
  <2> QED
    BY <2>1, <2>2, <2>4, <2>5, <2>6, <2>7, <2>8 DEF FilterInv, Filtering, IsFilter, Tells, ToSet, Thrown
<1> QED
  BY <1>1, <1>2

\* The node responds.
LEMMA FilterResponds ==
  ASSUME SessionOK, OpOK, FilterInv, NEW r \in Requests, Responds(r)
  PROVE  FilterInv'
<1>1. /\ r = Len(sent) /\ Len(sent) = Len(got) + 1
      /\ outcome' = IF stage'[r] = "rejected" THEN Thrown ELSE outcome
      /\ UNCHANGED <<op, sent, got, nodeVars>>
      /\ stage'[r] = "json" => answer' = Node(sent[r]) /\ Node(sent[r]) # Refused
  BY RespondsGoes
<1>2. r \in Nat \ {0} /\ Len(got) \in Nat /\ r \in 1 .. Len(sent) /\ trunk \in Trunks
  BY <1>1, RequestsAreNumbers DEF SessionOK, IsSequence
<1>3. op # Null => kept' \subseteq kept /\ kept' \subseteq ToSet(trunk') /\ kept \subseteq ToSet(trunk)
  <2>1. UNCHANGED <<kept, trunk>>
    BY <1>1 DEF nodeVars
  <2> QED
    BY <2>1 DEF FilterInv, ToSet
<1>4. CASE ~Filtering
  BY <1>1, <1>3, <1>4 DEF FilterInv, Filtering, IsFilter
<1>5. CASE Filtering
  <2>1. PICK o : o = op
    OBVIOUS
  <2>2. FilterAsked(o) /\ FilterTyped(o) /\ op # Null
    BY <1>5, <2>1, FilterIsTyped DEF FilterInv, Filtering
  <2>3. ~Returns'
    <3>1. Len(got) # Len(got) + 1
      BY <1>2
    <3>2. Returns => Len(sent) = Len(got)
      BY <1>5 DEF FilterInv
    <3> QED
      BY <1>1, <3>1, <3>2 DEF Returns, Thrown
  <2>4. ASSUME stage'[r] = "json" PROVE FilterAnswers(o, r, answer')
    <3>1. sent[r] = FilterRequest(o, r) /\ r \in 1 .. AnswersNeeded(o)
      BY <1>2, <2>2 DEF FilterAsked, AnswersNeeded
    <3>2. r = 2 => FilterAnswers(o, 1, got[1])
      <4>1. r = 2 => 1 \in 1 .. Len(got)
        BY <1>1, <1>2
      <4> QED
        BY <2>2, <4>1 DEF FilterAsked
    <3>3. answer' = Node(FilterRequest(o, r))
      BY <1>1, <2>4, <3>1
    <3> QED
      BY <1>2, <1>3, <2>2, <3>1, <3>2, <3>3, NodeTellsOfLogs
  <2>5. \A q \in Requests : stage'[q] = "json" => q = r
    <3>1. \A q \in Requests : q # r => stage'[q] = stage[q]
      BY RespondsGoes DEF SessionOK
    <3> QED
      BY <1>1, <3>1 DEF SessionOK, Pending
  <2>6. FilterAsked(o)'
    <3>1. \A q \in Requests : stage'[q] = "json" => got' = got /\ FilterAnswers(o, q, answer')
      BY <1>1, <2>4, <2>5
    <3> QED
      BY <1>1, <1>3, <2>2, <3>1, FilterAskedKept
  <2>7. CASE stage'[r] = "rejected"
    BY <1>1, <1>3, <2>1, <2>2, <2>3, <2>6, <2>7 DEF FilterInv, Filtering, IsFilter
  <2>8. CASE stage'[r] # "rejected"
    <3>1. outcome' = outcome /\ \A q \in Requests : stage[q] # "rejected" \/ stage'[q] = stage[q]
      BY <1>1, <2>8, RespondsGoes DEF SessionOK
    <3>2. outcome' = Thrown =>
            (\E q \in Requests : stage'[q] = "rejected") \/ ~Decodable(o) \/ MixedFragments(o)
      BY <1>5, <2>1, <3>1 DEF FilterInv, Thrown
    <3>3. Decodable(o)' = Decodable(o) /\ MixedFragments(o)' = MixedFragments(o)
      BY DEF Decodable, MixedFragments, CriteriaOf, Wanted, Meets, Decodes, KnownBlocks, ToSet
    <3> QED
      BY <1>1, <1>3, <2>1, <2>2, <2>3, <2>6, <3>2, <3>3 DEF FilterInv, Filtering, IsFilter, Thrown
  <2> QED
    BY <2>7, <2>8
<1> QED
  BY <1>4, <1>5

\* A request settles.
LEMMA FilterSettles ==
  ASSUME SessionOK, FilterInv, NEW r \in Requests, Elapses(r) \/ Fires(r)
  PROVE  FilterInv'
<1>1. /\ UNCHANGED <<op, sent, nodeVars>>
      /\ outcome' = IF stage'[r] = "rejected" THEN Thrown ELSE outcome
  BY SettlesGoes
<1>2. op # Null => kept' \subseteq kept /\ kept' \subseteq ToSet(trunk')
  <2>1. UNCHANGED <<kept, trunk>>
    BY <1>1 DEF nodeVars
  <2> QED
    BY <2>1 DEF FilterInv, ToSet
<1>3. CASE UNCHANGED <<stage, got, answer>>
  <2>1. outcome' = outcome
    BY <1>1, <1>3 DEF SessionOK
  <2> QED
    BY <1>1, <1>2, <1>3, <2>1, FilterMeanwhile
<1>4. CASE ~UNCHANGED <<stage, got, answer>> /\ Filtering
  <2>1. r = Len(sent) /\ Len(sent) = Len(got) + 1
    BY <1>4, SettlesGoes
  <2>2. PICK o : o = op
    OBVIOUS
  <2>3. FilterAsked(o) /\ (Returns => Len(sent) = Len(got)) /\ op # Null
    BY <1>4, <2>2 DEF FilterInv, Filtering
  <2>4. ~Returns'
    <3>1. Len(got) # Len(got) + 1
      BY DEF SessionOK, IsSequence
    <3> QED
      BY <1>1, <2>1, <2>3, <3>1 DEF Returns, Thrown
  <2>5. CASE stage' = [stage EXCEPT ![r] = "rejected"] /\ got' = got
    <3>1. \A q \in Requests : stage'[q] = "json" => FALSE
      BY <2>1, <2>5 DEF SessionOK, Pending
    <3>2. FilterAsked(o)'
      BY <1>1, <1>2, <2>3, <2>5, <3>1, FilterAskedKept
    <3>3. stage'[r] = "rejected"
      BY <2>5 DEF SessionOK
    <3> QED
      BY <1>1, <1>2, <2>2, <2>3, <2>4, <3>2, <3>3 DEF FilterInv, Filtering, IsFilter
  <2>6. CASE /\ stage' = [stage EXCEPT ![r] = "resolved"] /\ got' = Append(got, answer)
             /\ stage[r] = "json"
    <3>1. \A q \in Requests : stage'[q] = "json" => FALSE
      BY <2>1, <2>6 DEF SessionOK, Pending
    <3>2. FilterAnswers(o, Len(got) + 1, answer)
      BY <2>1, <2>3, <2>6 DEF FilterAsked
    <3>3. FilterAsked(o)'
      BY <1>1, <1>2, <2>3, <2>6, <3>1, <3>2, FilterAskedKept
    <3>4. /\ outcome' = outcome
          /\ \A q \in Requests : stage[q] = "rejected" => stage'[q] = "rejected"
      BY <1>1, <2>6 DEF SessionOK
    <3>5. outcome' = Thrown =>
            (\E q \in Requests : stage'[q] = "rejected") \/ ~Decodable(o) \/ MixedFragments(o)
      BY <1>4, <2>2, <3>4 DEF FilterInv, Thrown
    <3>6. Decodable(o)' = Decodable(o) /\ MixedFragments(o)' = MixedFragments(o)
      BY DEF Decodable, MixedFragments, CriteriaOf, Wanted, Meets, Decodes, KnownBlocks, ToSet
    <3> QED
      BY <1>1, <1>2, <2>2, <2>3, <2>4, <3>3, <3>5, <3>6 DEF FilterInv, Filtering, IsFilter, Thrown
  <2> QED
    BY <1>4, <2>5, <2>6, SettlesGoes
<1>5. CASE ~Filtering
  BY <1>1, <1>2, <1>5 DEF FilterInv, Filtering, IsFilter
<1> QED
  BY <1>3, <1>4, <1>5

\* Every step keeps it.
LEMMA FilterKept ==
  SessionOK /\ OpOK /\ SimInv /\ FilterInv /\ [ContractNext]_contractVars => FilterInv'
<1> SUFFICES ASSUME SessionOK, OpOK, SimInv, FilterInv, [ContractNext]_contractVars PROVE FilterInv'
  OBVIOUS
<1>1. op # Null => kept' \subseteq kept /\ kept' \subseteq ToSet(trunk')
  BY KeptStays DEF FilterInv
<1>2. ASSUME Begins PROVE FilterInv'
  <2>1. sent' = <<>> /\ outcome' = Null
    BY <1>2 DEF Begins, Beside, SessionOK, SimInv
  <2>2. CASE op' = Null
    BY <2>2 DEF FilterInv, Filtering
  <2>3. CASE op' # Null
    BY <1>2, <2>1, <2>3, CallKeepsTrunk, SessionKept, FilterStarts DEF Begins
  <2> QED
    BY <2>2, <2>3
<1>3. ASSUME AddressArrives PROVE FilterInv'
  <2>1. op # Null /\ op'.name = "read"
    BY <1>3, AddressFound DEF AddressArrives, AwaitsAddress, Running
  <2> QED
    BY <1>1, <2>1 DEF FilterInv, Filtering, IsFilter
<1>4. ASSUME Meanwhile PROVE FilterInv'
  BY <1>1, <1>4, FilterMeanwhile DEF Meanwhile, Beside
<1> QED
  BY <1>2, <1>3, <1>4, StepKinds, FilterProceeds, FilterResponds, FilterSettles

-----------------------------------------------------------------------------
\* The invariant with what the filters of logs ask and are told.
FiltersInv == ContractInv /\ FilterInv

\* It is an invariant.
LEMMA FiltersInvariant == ContractSpec => []FiltersInv
<1>1. ContractInv /\ FilterInv /\ [ContractNext]_contractVars => FilterInv'
  BY FilterKept DEF ContractInv
<1> QED
  BY <1>1, FilterInit, ContractInvariant, PTL DEF ContractSpec, FiltersInv

\* The logs of a filter.
LEMMA FilterTellsAll == FiltersInv => KeptLogsAreFound
<1> SUFFICES ASSUME FiltersInv, op # Null, op.name \in {"filterEventLogs", "filterGroupedEventLogs"}
             PROVE  KeptLogsAreFound
  BY DEF KeptLogsAreFound
<1>1. FilterInv /\ Filtering
  BY DEF FiltersInv, Filtering, IsFilter
<1>2. ASSUME Returns, op.range = Null, op.criteriaSet # Null, NEW b \in kept, NEW k \in DOMAIN Logs[b],
             Wanted(Logs[b][k], CriteriaOf(op))
      PROVE  \E e \in ToSet(LogsReturned) : e.log = Logs[b][k] /\ e.block = b
  <2>1. AnswersNeeded(op) = 2 /\ Len(got) = 2 /\ FilterAsked(op) /\ Tells(LogsReturned, got[2])
    BY <1>1, <1>2 DEF FilterInv, AnswersNeeded
  <2>2. FilterAnswers(op, 2, got[2])
    BY <2>1 DEF FilterAsked
  <2>3. AsLog(b, k) \in ToSet(got[2])
    BY <1>2, <2>1, <2>2 DEF FilterAnswers
  <2>4. AsLog(b, k).log = Logs[b][k] /\ AsLog(b, k).block = b
    BY DEF AsLog
  <2> QED
    BY <2>1, <2>3, <2>4 DEF Tells
<1> QED
  BY <1>1, <1>2 DEF KeptLogsAreFound, FilterInv

\* A filter of events fails only with a request, with a log that is no event of its
\* fragments or with two fragments of one topic; without a range, it returns every log
\* wanted of every block that stayed on the trunk.
THEOREM LogsKeptAreFound == ContractSpec => []KeptLogsAreFound
BY FiltersInvariant, FilterTellsAll, PTL

-----------------------------------------------------------------------------
(***************************************************************************)
(* The timers of the requests.                                             *)
(***************************************************************************)
\* A timer is still to fire only before the response begins or after the request failed.
TimersInv ==
  /\ DOMAIN stage = Requests
  /\ armed \subseteq Requests
  /\ \A r \in armed : stage[r] \in {"connecting", "rejected"}

\* It is an invariant of the requests alone.
LEMMA TimersInvariant == HttpSpec => []TimersInv
<1>1. HttpInit => TimersInv
  BY DEF HttpInit, TimersInv
<1>2. TimersInv /\ [HttpNext]_httpVars => TimersInv'
  <2> SUFFICES ASSUME TimersInv, [HttpNext]_httpVars PROVE TimersInv'
    OBVIOUS
  <2>1. ASSUME NEW r \in Requests, InvalidUrl(r) \/ Send(r) PROVE TimersInv'
    BY <2>1 DEF InvalidUrl, Send, Goes, TimersInv
  <2>2. ASSUME NEW r \in Requests, Respond(r) \/ FetchFails(r) PROVE TimersInv'
    BY <2>2 DEF Respond, FetchFails, Goes, TimersInv
  <2>3. ASSUME NEW r \in Requests, TimerFires(r) PROVE TimersInv'
    BY <2>3 DEF TimerFires, TimersInv
  <2>4. ASSUME NEW r \in Requests, BodyEnds(r) \/ BodyFails(r) PROVE TimersInv'
    BY <2>4 DEF BodyEnds, BodyFails, Goes, TimersInv
  <2>5. CASE UNCHANGED httpVars
    BY <2>5 DEF httpVars, TimersInv
  <2> QED
    BY <2>1, <2>2, <2>3, <2>4, <2>5 DEF HttpNext
<1> QED
  BY <1>1, <1>2, PTL DEF HttpSpec

\* The timer of a request of HttpClient does not fire once the response has begun: Respond
\* has cleared it.
THEOREM BegunGoesOn == HttpSpec => BegunIsNotAborted
<1>1. TimersInv => \A r \in Requests : stage[r] \in {"json", "text"} => ~TimerFires(r)
  BY DEF TimersInv, TimerFires
<1> QED
  BY <1>1, TimersInvariant, PTL DEF BegunIsNotAborted

\* The operations of the client and the calls of a contract make their requests as
\* HttpClient does.
THEOREM RequestsAreHttp == ContractSpec => HttpSpec
<1>1. ContractInit => HttpInit
  BY DEF ContractInit, ThorInit
<1>2. [ContractNext]_contractVars => [HttpNext]_httpVars
  <2> SUFFICES ASSUME [ContractNext]_contractVars PROVE [HttpNext]_httpVars
    OBVIOUS
  <2>1. ASSUME NEW c \in Calls, Call(c) PROVE UNCHANGED httpVars
    BY <2>1 DEF Call, CallContract, Start
  <2>2. ASSUME NEW step, Asks(step) \/ Ends(step) PROVE [HttpNext]_httpVars
    BY <2>2 DEF Asks, Ends, HttpNext
  <2>3. ASSUME NEW r \in Requests, Responds(r) \/ Elapses(r) \/ Fires(r) PROVE HttpNext
    BY <2>3 DEF Responds, Elapses, Fires, HttpNext
  <2>4. ASSUME TrunkMoves \/ SecondPasses \/ AddressArrives PROVE UNCHANGED httpVars
    BY <2>4 DEF TrunkMoves, SecondPasses, AddressArrives
  <2>5. ASSUME NEW s, SetSigner(s) \/ SetContractReadOptions(s) \/ SetContractTransactOptions(s)
        PROVE  UNCHANGED httpVars
    BY <2>5 DEF SetSigner, SetContractReadOptions, SetContractTransactOptions, Changes, thorVars
  <2>6. ASSUME UNCHANGED contractVars PROVE UNCHANGED httpVars
    BY <2>6 DEF contractVars, thorVars
  <2> QED
    BY <2>1, <2>2, <2>3, <2>4, <2>5, <2>6 DEF ContractNext, ContractProceeds, Outside
<1> QED
  BY <1>1, <1>2, PTL DEF ContractSpec, HttpSpec

\* So no response that an operation of the client waits for is aborted.
THEOREM BegunGoesOnForAll == ContractSpec => BegunIsNotAborted
BY BegunGoesOn, RequestsAreHttp, PTL
===============================================================================
