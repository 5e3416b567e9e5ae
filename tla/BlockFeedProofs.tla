--------------------------- MODULE BlockFeedProofs ---------------------------
(***************************************************************************)
(* A feed keeps its promise, for any chain and any subscribers.            *)
(*                                                                         *)
(* Told says nothing of who is still to be told.  What makes it inductive: *)
(* those who subscribe, or for whom the feed looks into a block, have been *)
(* told of all their blocks up to the next one, since their first; those   *)
(* who never joined, or only while the feed looked into a block, were told *)
(* nothing.                                                                *)
(***************************************************************************)
EXTENDS BlockFeed, TLAPS

Active == subscribed \union asked

UpToNext(s) ==
  /\ \A k \in DOMAIN told[s] : told[s][k] < next
  /\ told[s] # <<>> => \A b \in told[s][Len(told[s])] + 1 .. next - 1 : b \notin Holds[s]

FeedInv ==
  /\ FeedTypeOK
  /\ Active \subseteq joined
  /\ \A s \in Subscribers \ joined : told[s] = <<>>
  /\ asked # {} => \A s \in subscribed \ asked : told[s] = <<>>
  /\ \A s \in Active : UpToNext(s)
  /\ InOrder

-----------------------------------------------------------------------------
\* One more block keeps messages in order, if it holds something, is on the chain,
\* and comes after the others with none between.
LEMMA ToldOneMore ==
  ASSUME NEW t \in Seq(Nat), NEW n \in Nat, NEW h \in Nat, NEW H,
         n \in H, n <= h,
         \A k \in DOMAIN t : t[k] \in H /\ t[k] <= h,
         \A k \in DOMAIN t : k + 1 \in DOMAIN t =>
           t[k] < t[k + 1] /\ \A b \in t[k] + 1 .. t[k + 1] - 1 : b \notin H,
         \A k \in DOMAIN t : t[k] < n,
         t # <<>> => \A b \in t[Len(t)] + 1 .. n - 1 : b \notin H,
         NEW u, u = Append(t, n)
  PROVE  /\ u \in Seq(Nat) /\ u # <<>> /\ u[Len(u)] = n
         /\ \A k \in DOMAIN u : u[k] \in H /\ u[k] <= h /\ u[k] < n + 1
         /\ \A k \in DOMAIN u : k + 1 \in DOMAIN u =>
              u[k] < u[k + 1] /\ \A b \in u[k] + 1 .. u[k + 1] - 1 : b \notin H
<1>1. /\ u \in Seq(Nat) /\ Len(u) = Len(t) + 1 /\ DOMAIN u = 1 .. Len(t) + 1
      /\ DOMAIN t = 1 .. Len(t) /\ Len(t) \in Nat
      /\ u[Len(t) + 1] = n /\ \A k \in 1 .. Len(t) : u[k] = t[k]
  OBVIOUS
<1>2. u # <<>> /\ u[Len(u)] = n
  BY <1>1
<1>3. ASSUME NEW k \in DOMAIN u PROVE u[k] \in H /\ u[k] <= h /\ u[k] < n + 1
  <2>1. CASE k = Len(t) + 1
    BY <1>1, <2>1
  <2>2. CASE k \in DOMAIN t
    <3>1. u[k] = t[k] /\ t[k] \in H /\ t[k] <= h /\ t[k] < n /\ t[k] \in Nat
      BY <1>1, <2>2
    <3> QED
      BY <3>1
  <2> QED
    BY <1>1, <2>1, <2>2
<1>4. ASSUME NEW k \in DOMAIN u, k + 1 \in DOMAIN u
      PROVE  u[k] < u[k + 1] /\ \A b \in u[k] + 1 .. u[k + 1] - 1 : b \notin H
  <2>1. CASE k = Len(t)
    BY <1>1, <2>1
  <2>2. CASE k + 1 \in DOMAIN t
    <3>1. k \in DOMAIN t /\ u[k] = t[k] /\ u[k + 1] = t[k + 1]
      BY <1>1, <2>2
    <3> QED
      BY <2>2, <3>1
  <2> QED
    BY <1>1, <1>4, <2>1, <2>2
<1> QED
  BY <1>1, <1>2, <1>3, <1>4

\* Telling the active ones, all of them or some, keeps the invariant's parts about told.
LEMMA TellKeeps ==
  ASSUME FeedInv, NEW S \in SUBSET Active, Tell(S)
  PROVE  /\ told' \in [Subscribers -> Seq(Nat)]
         /\ next' = next + 1 /\ next' \in Nat /\ head' = head
         /\ joined' = joined /\ subscribed' = subscribed
         /\ \A s \in Subscribers \ S : told'[s] = told[s]
         /\ \A s \in Subscribers \ joined : told'[s] = <<>>
         /\ \A s \in S : UpToNext(s)'
         /\ InOrder'
<1> USE DEF FeedInv, FeedTypeOK
<1>1. ASSUME NEW s \in Subscribers, s \in S, next \in Holds[s]
      PROVE  told'[s] \in Seq(Nat) /\ Told(s)' /\ UpToNext(s)'
  <2>1. told'[s] = Append(told[s], next) /\ next' = next + 1 /\ head' = head /\ next <= head
    BY <1>1 DEF Tell
  <2>2. UpToNext(s) /\ Told(s) /\ told[s] \in Seq(Nat) /\ next \in Nat /\ head \in Nat
    BY <1>1 DEF InOrder
  <2>3. /\ \A k \in DOMAIN told[s] : told[s][k] \in Holds[s] /\ told[s][k] <= head
        /\ \A k \in DOMAIN told[s] : k + 1 \in DOMAIN told[s] =>
             /\ told[s][k] < told[s][k + 1]
             /\ \A b \in told[s][k] + 1 .. told[s][k + 1] - 1 : b \notin Holds[s]
        /\ \A k \in DOMAIN told[s] : told[s][k] < next
        /\ told[s] # <<>> => \A b \in told[s][Len(told[s])] + 1 .. next - 1 : b \notin Holds[s]
    BY <2>2 DEF UpToNext, Told
  <2> DEFINE u == told'[s]
  <2>4. /\ u \in Seq(Nat) /\ u # <<>> /\ u[Len(u)] = next
        /\ \A k \in DOMAIN u : u[k] \in Holds[s] /\ u[k] <= head /\ u[k] < next + 1
        /\ \A k \in DOMAIN u : k + 1 \in DOMAIN u =>
             u[k] < u[k + 1] /\ \A b \in u[k] + 1 .. u[k + 1] - 1 : b \notin Holds[s]
    <3>1. u = Append(told[s], next)
      BY <2>1
    <3> HIDE DEF u, FeedInv, FeedTypeOK
    <3> QED
      BY ONLY <1>1, <2>1, <2>2, <2>3, <3>1, ToldOneMore, SMTT(30)
  <2>5. Told(s)'
    BY <2>1, <2>4 DEF Told
  <2>6. UpToNext(s)'
    <3>1. \A b \in next + 1 .. (next + 1) - 1 : FALSE
      BY <2>2
    <3> QED
      BY <2>1, <2>4, <3>1 DEF UpToNext
  <2> QED
    BY <2>4, <2>5, <2>6
<1>2. ASSUME NEW s \in Subscribers, ~ (s \in S /\ next \in Holds[s])
      PROVE  told'[s] = told[s] /\ told'[s] \in Seq(Nat) /\ Told(s)'
  <2>1. told'[s] = told[s] /\ head' = head
    BY <1>2 DEF Tell
  <2> QED
    BY <2>1 DEF InOrder, Told
<1>3. ASSUME NEW s \in S, next \notin Holds[s] PROVE UpToNext(s)'
  <2>1. /\ told'[s] = told[s] /\ next' = next + 1 /\ UpToNext(s)
        /\ told[s] \in Seq(Nat) /\ next \in Nat /\ s \in Subscribers
    BY <1>3, <1>2 DEF Tell, Active
  <2>2. ASSUME NEW k \in DOMAIN told[s] PROVE told[s][k] < next + 1
    <3>1. told[s][k] \in Nat /\ told[s][k] < next
      BY <2>1, <2>2 DEF UpToNext
    <3> QED
      BY <2>1, <3>1
  <2>3. ASSUME told[s] # <<>>, NEW b \in told[s][Len(told[s])] + 1 .. (next + 1) - 1
        PROVE  b \notin Holds[s]
    <3>1. told[s][Len(told[s])] \in Nat
      BY <2>1, <2>3
    <3>2. CASE b = next
      BY <1>3, <3>2
    <3>3. CASE b # next
      <4>1. b \in told[s][Len(told[s])] + 1 .. next - 1
        BY <2>1, <2>3, <3>1, <3>3
      <4> QED
        BY <2>1, <2>3, <4>1 DEF UpToNext
    <3> QED
      BY <3>2, <3>3
  <2> QED
    BY <2>1, <2>2, <2>3 DEF UpToNext
<1>4. \A s \in Subscribers : told'[s] \in Seq(Nat) /\ Told(s)'
  BY <1>1, <1>2
<1>5. \A s \in Subscribers \ joined : told'[s] = <<>>
  BY <1>2 DEF Active
<1>6. told' \in [Subscribers -> Seq(Nat)]
  BY <1>4 DEF Tell
<1> QED
  BY <1>1, <1>2, <1>3, <1>4, <1>5, <1>6 DEF Tell, InOrder, Active

-----------------------------------------------------------------------------
LEMMA FeedInvInit == FeedInit => FeedInv
  BY DEF FeedInit, FeedInv, FeedTypeOK, Active, UpToNext, InOrder, Told

LEMMA FeedInvNext == FeedInv /\ [FeedNext]_feedVars => FeedInv'
<1> SUFFICES ASSUME FeedInv, [FeedNext]_feedVars PROVE FeedInv'
  OBVIOUS
<1> USE DEF FeedInv, FeedTypeOK
<1>1. CASE Grow
  <2>1. ASSUME NEW s \in Subscribers PROVE Told(s)'
    <3>1. Told(s) /\ told' = told /\ head' = head + 1 /\ told[s] \in Seq(Nat) /\ head \in Nat
      BY <1>1 DEF Grow, InOrder
    <3>2. ASSUME NEW k \in DOMAIN told[s] PROVE told[s][k] <= head + 1
      <4>1. told[s][k] \in Nat /\ told[s][k] <= head
        BY <3>1, <3>2 DEF Told
      <4> QED
        BY <3>1, <4>1
    <3> QED
      BY <3>1, <3>2 DEF Told
  <2> QED
    BY <1>1, <2>1 DEF Grow, InOrder, Active, UpToNext
<1>2. ASSUME NEW s \in Subscribers, Join(s) PROVE FeedInv'
  <2>1. /\ s \notin joined /\ joined' = joined \union {s}
        /\ head' = head /\ asked' = asked /\ told' = told
    BY <1>2 DEF Join
  <2>2. PICK replaced \in SUBSET subscribed : subscribed' = (subscribed \ replaced) \union {s}
    BY <1>2 DEF Join
  <2>3. told[s] = <<>>
    BY <2>1
  <2>4. InOrder'
    BY <2>1 DEF InOrder, Told
  <2>5. CASE subscribed # {} /\ next' = next
    BY <2>1, <2>2, <2>3, <2>4, <2>5 DEF Active, UpToNext
  <2>6. CASE subscribed = {} /\ asked = {} /\ next' \in 0 .. head
    BY <2>1, <2>2, <2>3, <2>4, <2>6 DEF Active, UpToNext
  <2> QED
    BY <1>2, <2>5, <2>6 DEF Join
<1>3. ASSUME NEW s \in Subscribers, Refuse(s) PROVE FeedInv'
  BY <1>3 DEF Refuse, Active, UpToNext, InOrder, Told
<1>4. ASSUME NEW s \in Subscribers, Leave(s) PROVE FeedInv'
  BY <1>4 DEF Leave, Active, UpToNext, InOrder, Told
<1>5. CASE TellAtOnce
  <2>1. Tell(subscribed) /\ asked = {} /\ asked' = asked /\ subscribed \in SUBSET Active
    BY <1>5 DEF TellAtOnce, Active
  <2> QED
    BY <2>1, TellKeeps DEF Active
<1>6. CASE LookInto
  BY <1>6 DEF LookInto, Active, UpToNext, InOrder, Told
<1>7. CASE TellAsked
  <2>1. Tell(asked) /\ asked' = {} /\ asked \in SUBSET Active
    BY <1>7 DEF TellAsked, Active
  <2>2. /\ subscribed' = subscribed /\ asked # {}
        /\ \A s \in Subscribers \ asked : told'[s] = told[s]
        /\ \A s \in asked : UpToNext(s)'
    BY <1>7, <2>1, TellKeeps DEF TellAsked
  <2>3. ASSUME NEW s \in subscribed' PROVE UpToNext(s)'
    <3>1. CASE s \in asked
      BY <2>2, <3>1
    <3>2. CASE s \notin asked
      <4>1. told'[s] = <<>>
        BY <2>2, <2>3, <3>2
      <4> QED
        BY <4>1 DEF UpToNext
    <3> QED
      BY <3>1, <3>2
  <2> QED
    BY <2>1, <2>3, TellKeeps DEF Active
<1>8. CASE GiveUp
  BY <1>8 DEF GiveUp, Active, UpToNext, InOrder, Told
<1>9. CASE UNCHANGED feedVars
  BY <1>9 DEF feedVars, Active, UpToNext, InOrder, Told
<1> QED
  BY <1>1, <1>2, <1>3, <1>4, <1>5, <1>6, <1>7, <1>8, <1>9 DEF FeedNext

\* A feed tells every subscriber of the blocks of the chain that concern it, in order,
\* once, and with none left out between two of them.
THEOREM FeedKeepsOrder == FeedSpec => []InOrder
<1>1. FeedInv => InOrder
  BY DEF FeedInv
<1> QED
  BY FeedInvInit, FeedInvNext, <1>1, PTL DEF FeedSpec
=============================================================================
