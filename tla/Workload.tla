-------------------------------- MODULE Workload --------------------------------
(***************************************************************************)
(* tools/workload_generator.py: the validation events are loaded from a    *)
(* canonical or a raw file, repeated if there are too few, and scheduled   *)
(* with queries in an open loop over the phases.                           *)
(*                                                                         *)
(* A source row is [ts, key]; the cohort lists the validation rows of the  *)
(* keys in CohortKeys.  A cold query asks for a key no event ever has.     *)
(***************************************************************************)
EXTENDS Integers, Sequences, FiniteSets, SequencesExt

CONSTANTS EventKeys, CohortKeys, ColdKey,
          SourceTimes, ValStart, ValEnd, TestStart,
          PhaseSpecs  (* PHASE_SPECS: [events, queries, evDt, qDt, stress] *)

ASSUME WorkloadAssumption ==
  /\ CohortKeys \subseteq EventKeys /\ ColdKey \notin EventKeys
  /\ SourceTimes \subseteq Nat /\ ValStart <= ValEnd /\ ValEnd < TestStart
  /\ PhaseSpecs = [i \in 1..Len(PhaseSpecs) |-> PhaseSpecs[i]] /\ Len(PhaseSpecs) \in Nat \ {0}
  /\ \A i \in DOMAIN PhaseSpecs :
       /\ PhaseSpecs[i].events \in Nat \ {0} /\ PhaseSpecs[i].evDt \in Nat \ {0}
       /\ PhaseSpecs[i].queries \in Nat /\ PhaseSpecs[i].qDt \in Nat

VARIABLES stage, format,  (* of the source: raw, canonical, or filtered by *)
                          (* the cohort file                               *)
          loaded,         (* valid_events                                  *)
          phase, start,   (* phase_idx, current_t_sched_ns                 *)
          events, queries (* scheduled_events, scheduled_queries           *)

workVars == <<format, loaded, phase, start, events, queries>>

Phases == DOMAIN PhaseSpecs

Total(field) == SumFunction([i \in Phases |-> PhaseSpecs[i][field]])
TotalEvents == Total("events")

WorkInit ==
  /\ stage = "loading" /\ format \in {"raw", "canonical", "cohort"}
  /\ loaded = <<>> /\ phase = 1 /\ start = 0 /\ events = <<>> /\ queries = <<>>

(* The cohort filter exists in the branch for canonical files only.       *)
InWindow(row) == row.ts < TestStart /\ ValStart <= row.ts /\ row.ts <= ValEnd

Selected(row) == InWindow(row) /\ (format = "cohort" => row.key \in CohortKeys)

(* Rows that are not selected are passed over.                            *)
ReadSource(row) ==
  /\ stage = "loading" /\ Len(loaded) < TotalEvents /\ Selected(row)
  /\ loaded' = Append(loaded, row)
  /\ UNCHANGED <<stage, format, phase, start, events, queries>>

(* The end of the file, or enough rows.  Fewer rows than needed are       *)
(* repeated from the first one; none at all is an error.                  *)
Repeated == [i \in 1..TotalEvents |-> loaded[((i - 1) % Len(loaded)) + 1]]

SourceRead ==
  /\ stage = "loading"
  /\ IF loaded = <<>> THEN stage' = "failed" /\ UNCHANGED loaded
     ELSE stage' = "scheduling" /\ loaded' = Repeated
  /\ UNCHANGED <<format, phase, start, events, queries>>

Current == PhaseSpecs[phase]

PhaseEvents ==
  [i \in 1..Current.events |->
     [op |-> "event", phase |-> phase, at |-> start + (i - 1) * Current.evDt,
      key |-> loaded[Len(events) + i].key, ts |-> loaded[Len(events) + i].ts]]

Offset(n, dt) == IF n = 0 THEN 0 ELSE (n - 1) * dt

(* Bug variant: the next phase starts when the events are over.           *)
PhaseLengthOfEvents == Offset(Current.events, Current.evDt) + Current.evDt

PhaseLength ==
  LET e == Offset(Current.events, Current.evDt)
      q == Offset(Current.queries, Current.qDt)
  IN  (IF e >= q THEN e ELSE q) + Current.evDt

(* active_keys: every key scheduled so far, this phase included.          *)
ActiveKeys(evs) == {evs[i].key : i \in DOMAIN evs}

SchedulePhase ==
  /\ stage = "scheduling" /\ phase \in Phases
  /\ events' = events \o PhaseEvents
  /\ \E keys \in [1..Current.queries -> ActiveKeys(events') \cup {ColdKey}] :
       queries' = queries \o
         [i \in 1..Current.queries |->
            [op |-> "query", phase |-> phase, at |-> start + (i - 1) * Current.qDt,
             key |-> keys[i], id |-> Len(queries) + i]]
  /\ start' = start + PhaseLength /\ phase' = phase + 1
  /\ UNCHANGED <<stage, format, loaded>>

Scheduled ==
  /\ stage = "scheduling" /\ phase \notin Phases
  /\ stage' = "scheduled" /\ loaded' = <<>> /\ format' = "raw"
  /\ UNCHANGED <<phase, start, events, queries>>

WorkNext == \/ \E t \in SourceTimes, k \in EventKeys : ReadSource([ts |-> t, key |-> k])
            \/ SourceRead \/ SchedulePhase \/ Scheduled
=============================================================================
