-------------------------------- MODULE Sublists --------------------------------
(***************************************************************************)
(* The elements of a sequence at chosen positions, in their order: what a  *)
(* loop leaves that appends some of the rows it reads.  A recursive        *)
(* function, since the provers have no definition of SelectSeq.            *)
(***************************************************************************)
EXTENDS Integers, Sequences

Picked(s, at) ==
  LET upto[n \in 0..Len(s)] == IF n = 0 THEN <<>>
                               ELSE IF n \in at THEN Append(upto[n - 1], s[n]) ELSE upto[n - 1]
  IN  upto[Len(s)]
=============================================================================
