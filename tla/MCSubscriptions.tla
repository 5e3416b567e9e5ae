-------------------------- MODULE MCSubscriptions --------------------------
(***************************************************************************)
(* Subscriptions for TLC: two subscriptions to heads and one to logs that  *)
(* every block, or every other block, holds.                               *)
(***************************************************************************)
EXTENDS Subscriptions, TLC

CONSTANTS p1, p2, p3, l1, l2, t1, t2, t3, h1, h2, g1

ThreePolls  == {p1, p2, p3}
ThreeTimers == {t1, t2, t3}
TwoPolls    == {p1, p2}
TwoTimers   == {t1, t2}
OneLoop     == {l1}
TwoLoops    == {l1, l2}
Heads       == {h1, h2}
OneHead     == {h1}
Logs        == {g1}
NoLogs      == {}
NoPolls     == {}
EveryBlock  == [i \in Logs |-> 0 .. MaxBlock]
EvenBlocks  == [i \in Logs |-> {b \in 0 .. MaxBlock : b % 2 = 0}]
NoBlocks    == [i \in NoLogs |-> {}]

Symmetry == Permutations(Polls) \union Permutations(Timers) \union Permutations(HeadIds)
=============================================================================
