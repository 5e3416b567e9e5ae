--------------------------- MODULE MCHeadTracker ---------------------------
(***************************************************************************)
(* HeadTracker for TLC, with up to two requests that overlap.              *)
(***************************************************************************)
EXTENDS HeadTracker

CONSTANTS l1, l2, t1, t2

MCPolls  == {HeadPoll}
MCLoops  == {l1, l2}
MCTimers == {t1, t2}
=============================================================================
