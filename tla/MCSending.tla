------------------------------ MODULE MCSending ------------------------------
(***************************************************************************)
(* Sending for TLC: two calls of any kind, on one shared object or not, of *)
(* two signers, one of which is the wallet's; one wait for a deployment.   *)
(***************************************************************************)
EXTENDS Sending

CONSTANTS c1, c2, w1, r1, a1, a2

MCCalls    == {c1, c2}
MCWaiters  == {w1}
MCRequests == {r1}
MCAccounts == {a1, a2}
MCWallet   == {a1}
MCGas      == {1}

Asked(f, g, n, b) == [from |-> f, gas |-> g, nonce |-> n, ref |-> b]

\* With and without a sender, gas, and what makes a transaction unique.
MCShapes ==
  {Asked(a1, Absent, Absent, Absent), Asked(Absent, Absent, Given, 0),
   Asked(Absent, 1, Given, 0)}

MCOptions == {Asked(Absent, Absent, Given, Absent)}
==============================================================================
