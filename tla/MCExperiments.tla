------------------------------- MODULE MCExperiments -------------------------------
(* A bounded instance: four short phases in the shape of PHASE_SPECS; in  *)
(* the third, the stress, the queries outlast the events.                 *)
EXTENDS Experiments

Phase(e, q, edt, qdt, s) == [events |-> e, queries |-> q, evDt |-> edt, qDt |-> qdt, stress |-> s]

MCPhases == <<Phase(1, 0, 5, 0, FALSE), Phase(1, 0, 5, 0, FALSE),
              Phase(1, 2, 5, 7, TRUE), Phase(1, 0, 5, 5, FALSE)>>

MCGridU == <<ExactFresh, FixedCadence(2), FixedCadence(4),
             [type |-> "AdaptivePressure", cadenceMax |-> 4]>>
MCGridB == <<8, 32>>
MCCandidates == <<2, 3>>
MCAdaptive == [type |-> "AdaptivePressure", cadenceMax |-> 4]
=============================================================================
