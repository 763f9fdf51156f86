------------------------------- MODULE Controllers -------------------------------
(***************************************************************************)
(* The other controllers of source/include/bpfeat/controllers.hpp: the     *)
(* occupancy EMA, the slew-limited alpha and the counters of the batch     *)
(* controller, over exact fractions.  A pressure p stands for p / Unit, an *)
(* alpha a for a / Unit of the unit AlphaMin and AlphaMax are given in.    *)
(***************************************************************************)
EXTENDS BatchController

CONSTANTS QueueCap,     (* occupied slots of a full batch queue            *)
          GainDen,      (* occupancy_gain = 1 / GainDen                    *)
          MaxSamples,   (* bound: samples of a run                         *)
          LowTenths, HighTenths,
          AlphaMin, AlphaMax, AlphaDelta, AlphaInitial

(* The constructors' checks.                                              *)
ASSUME ControllersAssumption ==
  /\ QueueCap \in Nat \ {0} /\ GainDen \in Nat \ {0} /\ MaxSamples \in Nat
  /\ LowTenths \in 0..10 /\ HighTenths \in 0..10 /\ LowTenths < HighTenths
  /\ {AlphaMin, AlphaMax, AlphaDelta, AlphaInitial} \subseteq Nat \ {0}
  /\ AlphaMin <= AlphaInitial /\ AlphaInitial <= AlphaMax

(* After n samples the EMA is a multiple of GainDen ^ (MaxSamples - n).   *)
Unit == LET power[n \in 0..MaxSamples] == IF n = 0 THEN QueueCap ELSE GainDen * power[n - 1]
        IN  power[MaxSamples]

Fraction(occupied) == occupied * (Unit \div QueueCap)

(* OccupancyEMA::update                                                   *)
Smoothed(value, occupied) == value + (Fraction(occupied) - value) \div GainDen

ZoneOf(pressure) == IF 10 * pressure > HighTenths * Unit THEN "high"
                    ELSE IF 10 * pressure < LowTenths * Unit THEN "low" ELSE "hold"

Clamped(a, low, high) == Larger(low, Smaller(a, high))

(* AlphaController::update                                                *)
NextAlpha(alpha, pressure) ==
  LET target == AlphaMin * Unit + (AlphaMax - AlphaMin) * pressure
      delta == AlphaDelta * Unit
  IN  Clamped(alpha + Clamped(target - alpha, -delta, delta), AlphaMin * Unit, AlphaMax * Unit)

NewController == [size |-> BatchInitial, direction |-> 0, actions |-> 0, changes |-> 0]

(* Bug variant: the first action counts as a change of direction.         *)
TurnsAlsoAtFirst(last, direction) == direction # last

Turns(last, direction) == last # 0 /\ direction # last

(* MultiplicativeBatchController::update with its counters.               *)
Controlled(c, pressure) ==
  LET size == NextBatchSize(c.size, ZoneOf(pressure))
      direction == IF size > c.size THEN 1 ELSE IF size < c.size THEN -1 ELSE 0
  IN  IF direction = 0 THEN c
      ELSE [size |-> size, direction |-> direction, actions |-> c.actions + 1,
            changes |-> c.changes + IF Turns(c.direction, direction) THEN 1 ELSE 0]

(* PressureSignal: store numbers the observations; before the first one   *)
(* nothing is available.                                                  *)
NoObservation == [value |-> 0, gen |-> 0, available |-> FALSE]

Stored(observation, value) == [value |-> value, gen |-> observation.gen + 1, available |-> TRUE]
=============================================================================
