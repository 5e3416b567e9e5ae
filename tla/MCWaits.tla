------------------------------ MODULE MCWaits ------------------------------
(***************************************************************************)
(* Waits for TLC: every kind of wait, with and without each limit; two     *)
(* calls for different blocks, that share the object if the second begins. *)
(***************************************************************************)
EXTENDS Waits

CONSTANTS c1, c2

MCCalls    == {c1, c2}
MCNumber   == [c \in Calls |-> IF c = c1 THEN 2 ELSE 3]
AllKinds   == {"compressed", "expanded", "receipt"}
Iterations == {3, NoLimit}
Times      == {4, NoLimit}
=============================================================================
