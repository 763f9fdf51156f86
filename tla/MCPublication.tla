----------------------------- MODULE MCPublication -----------------------------
(* Bounded instances of Publication for TLC.                              *)
EXTENDS Publication

CONSTANTS u1, u2, u3

MCKeys == {u1, u2, u3}

Config(type, cadence, elapsed, cadenceMax) ==
  [type |-> type, cadence |-> cadence, elapsed |-> elapsed, cadenceMax |-> cadenceMax]

(* One configuration of every type; thresholds stay within the word.      *)
MCPolicies == {Config("ExactFresh", 1, 0, 4), Config("FixedCadence", 3, 0, 4),
               Config("ElapsedThreshold", 1, 2, 4), Config("AdaptivePressure", 1, 0, 3)}

(* The largest thresholds --delta-t-ns accepts.                           *)
MCWidestThresholds == {Config("ElapsedThreshold", 1, e, 4) : e \in (Word - 2)..(Word - 1)}
=============================================================================
