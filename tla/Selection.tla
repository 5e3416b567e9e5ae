------------------------------ MODULE Selection ------------------------------
(***************************************************************************)
(* A filter of a sequence, in a form that can be reasoned about.           *)
(***************************************************************************)
EXTENDS Integers, Sequences

\* The ones of a sequence that are in a set, in order.
Selected(s, members) ==
  LET first[n \in 0 .. Len(s)] ==
        IF n = 0 THEN <<>>
        ELSE IF s[n] \in members THEN Append(first[n - 1], s[n]) ELSE first[n - 1]
  IN  first[Len(s)]
=============================================================================
