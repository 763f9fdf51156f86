------------------------------ MODULE BoundedFIFO ------------------------------
(***************************************************************************)
(* What a bounded single-producer single-consumer queue promises its two   *)
(* users, with every operation atomic: at most Capacity values in flight,  *)
(* values leave in the order they entered, nothing enters after the close, *)
(* and the end of the stream is announced only when the queue is shut and  *)
(* empty.  An operation that is refused (queue full, empty or closed) does *)
(* not change the state and so is a stuttering step here.                  *)
(***************************************************************************)
EXTENDS Naturals, Sequences

CONSTANTS Values,    (* the values a producer may push              *)
          Blank,     (* the content of a value-initialised object   *)
          Capacity   (* how many values may be in flight            *)

VARIABLES queue,     (* the values in flight, oldest first          *)
          taken,     (* the value the last delivery returned        *)
          shut,      (* the producer has closed the queue           *)
          ended      (* the consumer has been told that it is over  *)

fifoVars == <<queue, taken, shut, ended>>

Init == /\ queue = <<>>
        /\ taken = Blank
        /\ shut = FALSE
        /\ ended = FALSE

Accept(v) == /\ ~shut
             /\ Len(queue) < Capacity
             /\ queue' = Append(queue, v)
             /\ UNCHANGED <<taken, shut, ended>>

Deliver == /\ queue # <<>>
           /\ taken' = Head(queue)
           /\ queue' = Tail(queue)
           /\ UNCHANGED <<shut, ended>>

Shut == /\ ~shut
        /\ shut' = TRUE
        /\ UNCHANGED <<queue, taken, ended>>

End == /\ shut /\ queue = <<>> /\ ~ended
       /\ ended' = TRUE
       /\ UNCHANGED <<queue, taken, shut>>

Next == (\E v \in Values : Accept(v)) \/ Deliver \/ Shut \/ End

SafeSpec == Init /\ [][Next]_fifoVars

(* A polling consumer takes every value and learns of the end.            *)
Spec == SafeSpec /\ WF_fifoVars(Deliver) /\ WF_fifoVars(End)
=============================================================================
