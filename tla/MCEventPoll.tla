---------------------------- MODULE MCEventPoll ----------------------------
(***************************************************************************)
(* EventPoll for TLC: a poll p1 as the provider builds it (it stops on     *)
(* error and has no error listener) and a poll p2 that a caller built to   *)
(* go on after errors.                                                     *)
(***************************************************************************)
EXTENDS EventPoll

CONSTANTS p1, p2, l1, l2, l3, t1, t2

MCPolls         == {p1, p2}
MCStopOnError   == {p1}
MCErrorListened == {p2}
MCLoops         == {l1, l2, l3}
MCTimers        == {t1, t2}
=============================================================================
