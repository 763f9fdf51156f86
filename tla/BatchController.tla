---------------------------- MODULE BatchController ----------------------------
(***************************************************************************)
(* The update law of MultiplicativeBatchController (source/include/bpfeat/ *)
(* controllers.hpp).  The factors shrink and grow are rational constants,  *)
(* so floor(current * factor) is an integer division.  The pressure enters *)
(* through its position relative to the two thresholds.                    *)
(***************************************************************************)
EXTENDS Integers

CONSTANTS BatchMin, BatchMax, BatchInitial,
          ShrinkNum, ShrinkDen,   (* shrink = ShrinkNum / ShrinkDen in (0,1) *)
          GrowNum, GrowDen        (* grow = GrowNum / GrowDen > 1            *)

(* The constructor's checks.                                              *)
ASSUME BatchBoundsAssumption ==
  /\ BatchMin \in Nat \ {0} /\ BatchMax \in Nat /\ BatchInitial \in Nat
  /\ BatchMin <= BatchInitial /\ BatchInitial <= BatchMax
ASSUME BatchFactorsAssumption ==
  /\ ShrinkNum \in Nat \ {0} /\ ShrinkDen \in Nat /\ ShrinkNum < ShrinkDen
  /\ GrowDen \in Nat \ {0} /\ GrowNum \in Nat /\ GrowDen < GrowNum

BatchSize == BatchMin..BatchMax

(* Below low, between the thresholds (inclusive), above high.             *)
Zone == {"low", "hold", "high"}

Larger(a, b) == IF a >= b THEN a ELSE b
Smaller(a, b) == IF a <= b THEN a ELSE b

ShrunkUnclamped(size) == (size * ShrinkNum) \div ShrinkDen

Shrunk(size) == Larger(BatchMin, (size * ShrinkNum) \div ShrinkDen)

GrownWithoutFloor(size) == Smaller(BatchMax, (size * GrowNum) \div GrowDen)

(* At least one more, or a small batch could never grow again.            *)
Grown(size) == Smaller(BatchMax, Larger(size + 1, (size * GrowNum) \div GrowDen))

(* update(pressure)                                                       *)
NextBatchSize(size, zone) ==
  IF zone = "high" /\ size > BatchMin THEN Shrunk(size)
  ELSE IF zone = "low" /\ size < BatchMax THEN Grown(size)
  ELSE size
=============================================================================
