------------------------------- MODULE MCStreaming -------------------------------
(* Bounded inputs: three samples, of which one may be held out or lie     *)
(* beyond the events file; model scores with a tie of two events.         *)
EXTENDS Streaming

Sample(id, seq, split, label) == [id |-> id, seq |-> seq, split |-> split, label |-> label]

MCCohorts ==
  {<<Sample("a", 1, "test", 0), Sample("b", 2, "test", 1), Sample("c", 3, "test", 0)>>,
   <<Sample("a", 1, "test", 1), Sample("b", 2, "test", 0), Sample("c", 4, "test", 1)>>,
   <<Sample("a", 1, "test", 1), Sample("b", 2, "test", 0), Sample("c", 3, "ood", NoLabel)>>,
   <<Sample("a", 1, "test", 0), Sample("b", 3, "ood", 1)>>}

MCRawScore == <<20, 20, 25, 40>>
MCEvalSplits == {{"test"}, {"test", "ood"}}
=============================================================================
