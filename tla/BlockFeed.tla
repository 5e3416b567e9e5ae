------------------------------ MODULE BlockFeed ------------------------------
(***************************************************************************)
(* What eth_subscribe promises: a feed goes through the blocks of a chain  *)
(* that grows, one after the other, and tells each subscriber of those     *)
(* that hold something for it.  Subscriptions implements it.               *)
(***************************************************************************)
EXTENDS Integers, Sequences

CONSTANTS
  Subscribers,  \* those who may ever subscribe
  Holds         \* the blocks that hold something for each of them

VARIABLES
  head,        \* the number of the chain's last block
  next,        \* the number of the block that the feed looks at next
  joined,      \* those who subscribed, or were refused, once
  subscribed,  \* those who are told of the blocks
  asked,       \* those for whom the feed looks into the block at `next'
  told         \* what each was told, in order

feedVars == <<head, next, joined, subscribed, asked, told>>

FeedInit ==
  /\ head \in Nat
  /\ next = 0
  /\ joined = {}
  /\ subscribed = {}
  /\ asked = {}
  /\ told = [s \in Subscribers |-> <<>>]

Grow == head' = head + 1 /\ UNCHANGED <<next, joined, subscribed, asked, told>>

\* Who joins may take the place of another.  For the first the feed begins anew,
\* at a block of the chain.
Join(s) ==
  /\ s \notin joined
  /\ joined' = joined \union {s}
  /\ \E replaced \in SUBSET subscribed : subscribed' = (subscribed \ replaced) \union {s}
  /\ \/ subscribed # {} /\ next' = next
     \/ subscribed = {} /\ asked = {} /\ next' \in 0 .. head
  /\ UNCHANGED <<head, asked, told>>

Refuse(s) ==
  /\ s \notin joined
  /\ joined' = joined \union {s}
  /\ UNCHANGED <<head, next, subscribed, asked, told>>

Leave(s) ==
  /\ subscribed' = subscribed \ {s}
  /\ UNCHANGED <<head, next, joined, asked, told>>

\* Those of S for whom the block holds something are told, and it is done with.
Tell(S) ==
  /\ next <= head
  /\ told' = [s \in Subscribers |-> IF s \in S /\ next \in Holds[s]
                                    THEN Append(told[s], next) ELSE told[s]]
  /\ next' = next + 1
  /\ UNCHANGED <<head, joined, subscribed>>

TellAtOnce == asked = {} /\ Tell(subscribed) /\ UNCHANGED asked

\* Or it takes a while, at the end of which those are told who were subscribed at
\* its beginning; it may come to nothing.
LookInto ==
  /\ asked = {} /\ next <= head
  /\ asked' = subscribed
  /\ UNCHANGED <<head, next, joined, subscribed, told>>

TellAsked == asked # {} /\ Tell(asked) /\ asked' = {}

GiveUp == asked' = {} /\ UNCHANGED <<head, next, joined, subscribed, told>>

FeedNext ==
  \/ Grow
  \/ \E s \in Subscribers : Join(s) \/ Refuse(s) \/ Leave(s)
  \/ TellAtOnce \/ LookInto \/ TellAsked \/ GiveUp

FeedSpec == FeedInit /\ [][FeedNext]_feedVars

-----------------------------------------------------------------------------
FeedTypeOK ==
  /\ head \in Nat
  /\ next \in Nat
  /\ joined \in SUBSET Subscribers
  /\ subscribed \in SUBSET Subscribers
  /\ asked \in SUBSET Subscribers
  /\ told \in [Subscribers -> Seq(Nat)]

\* What a subscriber is told, whoever else comes and goes and whatever comes to
\* nothing: of blocks on the chain that hold something for it, in order, none of
\* them twice and none of those in between left out.
Told(s) ==
  /\ \A k \in DOMAIN told[s] : told[s][k] \in Holds[s] /\ told[s][k] <= head
  /\ \A k \in DOMAIN told[s] : k + 1 \in DOMAIN told[s] =>
       /\ told[s][k] < told[s][k + 1]
       /\ \A b \in told[s][k] + 1 .. told[s][k + 1] - 1 : b \notin Holds[s]

InOrder == \A s \in Subscribers : Told(s)
=============================================================================
