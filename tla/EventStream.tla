------------------------------ MODULE EventStream ------------------------------
(***************************************************************************)
(* What one engine run promises its caller: the rows written so far are    *)
(* the scores of the first events of the source, each once and in source   *)
(* order; the run returns only when every event has its row; it may give   *)
(* up with an exception at any time.                                       *)
(***************************************************************************)
EXTENDS Naturals, Sequences

CONSTANT Events    (* the number of events the source will deliver         *)

VARIABLES rows,    (* the sequence numbers of the rows written, in order   *)
          verdict  (* "running", "returned" or "threw"                     *)

streamVars == <<rows, verdict>>

Init == rows = <<>> /\ verdict = "running"

Write == /\ verdict = "running" /\ Len(rows) < Events
         /\ rows' = Append(rows, Len(rows) + 1)
         /\ UNCHANGED verdict

Return == /\ verdict = "running" /\ Len(rows) = Events
          /\ verdict' = "returned"
          /\ UNCHANGED rows

Throw == /\ verdict = "running"
         /\ verdict' = "threw"
         /\ UNCHANGED rows

Next == Write \/ Return \/ Throw

Spec == Init /\ [][Next]_streamVars
=============================================================================
