------------------------------- MODULE Experiments -------------------------------
(***************************************************************************)
(* The two studies over one scheduled trace: the actuator grid of          *)
(* run_mechanism_pilot.py and the comparative suite of baseline_suite.py,  *)
(* which first tunes a cadence and then matches a publication budget.      *)
(***************************************************************************)
EXTENDS PolicyTrial

CONSTANTS GridU,       (* grid_u: the policies of the pilot                *)
          GridB,       (* grid_b: its batch sizes                          *)
          Candidates,  (* STATIC_TUNING_CANDIDATES                         *)
          Adaptive     (* AdaptivePressurePolicy(k_min = 1, k_max)         *)

ASSUME ExperimentsAssumption ==
  /\ Candidates \in Seq(Nat \ {0}) \ {<<>>} /\ GridB \in Seq(Nat \ {0}) \ {<<>>}
  /\ Adaptive \in [type : {"AdaptivePressure"}, cadenceMax : Nat \ {0}]
  /\ GridU \in Seq([type : {"ExactFresh"}]
                   \cup [type : {"FixedCadence"}, cadence : Nat \ {0}]
                   \cup [type : {"AdaptivePressure"}, cadenceMax : Nat \ {0}]) \ {<<>>}
  /\ StressPressure \in 0..PressureUnit /\ NormalPressure \in 0..PressureUnit

VARIABLES tool, uStar, output

vars == <<stage, workVars, trialVars, tool, uStar, output>>

ExactFresh == [type |-> "ExactFresh"]
FixedCadence(u) == [type |-> "FixedCadence", cadence |-> u]
Quota(n) == [type |-> "QuotaMatched", target |-> n]

Named(name, pol) == [name |-> name, policy |-> pol, order |-> "phases"]

(* main of the pilot: every policy with every batch size; the batch       *)
(* counter of the trial is not read by anything.                          *)
PilotPlan == FlattenSeq([u \in DOMAIN GridU |->
                           [b \in DOMAIN GridB |-> Named(ToString(GridB[b]), GridU[u])]])

Tuning == <<[name |-> "fresh_sim", policy |-> ExactFresh, order |-> "tuning"]>> \o
          [i \in DOMAIN Candidates |->
             [name |-> "candidate", policy |-> FixedCadence(Candidates[i]), order |-> "tuning"]]

(* joint_adaptive runs second: its publications are the quota of          *)
(* budget_matched.  alpha_only differs from tuned_static, and pub_only    *)
(* from joint_adaptive, in the features' gain only.                       *)
Published(name) == results[CHOOSE i \in DOMAIN results : results[i].config.name = name].published

SuiteTrial(n) ==
  CASE n = 1 -> Named("exact_fresh", ExactFresh)
    [] n = 2 -> Named("joint_adaptive", Adaptive)
    [] n = 3 -> Named("tuned_static", FixedCadence(uStar))
    [] n = 4 -> Named("budget_matched", Quota(Published("joint_adaptive")))
    [] n = 5 -> Named("alpha_only", FixedCadence(uStar))
    [] n = 6 -> Named("pub_only", Adaptive)

Trials == IF tool = "pilot" THEN Len(PilotPlan) ELSE Len(Tuning) + 6

NextTrial ==
  LET n == Len(results) + 1
  IN  IF tool = "pilot" THEN PilotPlan[n]
      ELSE IF n <= Len(Tuning) THEN Tuning[n] ELSE SuiteTrial(n - Len(Tuning))

Idle == stage = "running" /\ config = <<>> /\ Len(results) < Trials

Start ==
  /\ stage = "scheduled" /\ stage' = "running"
  /\ tool' \in {"pilot", "suite"}
  /\ UNCHANGED <<workVars, trialVars, uStar, output>>

(* The candidate with the least loss and cost; the loss is not modelled.  *)
Tuned == tool = "pilot" \/ Len(results) < Len(Tuning) \/ uStar # 0

ChooseCadence ==
  /\ Idle /\ ~Tuned
  /\ \E i \in DOMAIN Candidates : uStar' = Candidates[i]
  /\ UNCHANGED <<stage, workVars, trialVars, tool, output>>

(* "Target publications and total events must be positive"                *)
Constructible(c) == c.policy.type = "QuotaMatched" => c.policy.target > 0

NewTrial ==
  /\ Idle /\ Tuned /\ Constructible(NextTrial)
  /\ BeginTrial(NextTrial)
  /\ UNCHANGED <<stage, workVars, tool, uStar, output>>

(* An exception ends the tool before it writes anything.                  *)
ToolFails ==
  /\ stage = "running"
  /\ (Idle /\ Tuned /\ ~Constructible(NextTrial)) \/ TrialRaises
  /\ stage' = "failed"
  /\ UNCHANGED <<workVars, trialVars, tool, uStar, output>>

Within1Percent ==
  LET joint == Published("joint_adaptive")
      off == Published("budget_matched") - joint
  IN  100 * (IF off < 0 THEN -off ELSE off) <= joint

(* verify_actuator_sign, without the feature errors, at b_ref = 32.       *)
MeanGrows(i, j) ==
  FoldLeft(+, 0, results[i].staleness) < FoldLeft(+, 0, results[j].staleness)

ActuatorSignVerified ==
  \A i, j \in DOMAIN results :
    LET p == results[i].config.policy
        q == results[j].config.policy
    IN  /\ results[i].config.name = "32" /\ results[j].config.name = "32"
        /\ q.type = "FixedCadence"
        /\ p.type = "ExactFresh" \/ (p.type = "FixedCadence" /\ p.cadence < q.cadence)
        => results[i].published > results[j].published /\ MeanGrows(i, j)

WriteOutput ==
  /\ stage = "running" /\ config = <<>> /\ Len(results) = Trials
  /\ stage' = "written"
  /\ output' = IF tool = "pilot"
               THEN [conserved |-> \A i \in DOMAIN results : results[i].verified,
                     actuator |-> ActuatorSignVerified, matched |-> FALSE]
               ELSE [conserved |-> \A i \in DOMAIN results : results[i].verified,
                     actuator |-> FALSE, matched |-> Within1Percent]
  /\ UNCHANGED <<workVars, trialVars, tool, uStar>>

Init == /\ WorkInit /\ TrialInit
        /\ tool = "none" /\ uStar = 0 /\ output = <<>>

Next == \/ WorkNext /\ UNCHANGED <<trialVars, tool, uStar, output>>
        \/ stage = "running" /\ TrialNext /\ UNCHANGED <<stage, workVars, tool, uStar, output>>
        \/ Start \/ ChooseCadence \/ NewTrial \/ ToolFails \/ WriteOutput

Spec == Init /\ [][Next]_vars
-----------------------------------------------------------------------------
(* QuotaMatchedPolicy spreads the budget: at every point of the trace the *)
(* publications are the rounded-down share of the target, so the trial    *)
(* ends with exactly the target.                                          *)
QuotaIsSpread ==
  (config # <<>> /\ policy.type = "QuotaMatched") =>
     /\ acct.published * TotalEvents <= acct.processed * policy.target
     /\ acct.processed * policy.target < (acct.published + 1) * TotalEvents

TimesOfKeyGrow == \A i, j \in DOMAIN events :
                    i < j /\ events[i].key = events[j].key => events[i].ts <= events[j].ts

(* A trial plays a phase's events before its queries, but never anything  *)
(* before what was scheduled in an earlier phase.                         *)
PlayedByPhases == \A i, j \in DOMAIN ByPhase :
                    ByPhase[i].phase < ByPhase[j].phase => i < j /\ ByPhase[i].at < ByPhase[j].at

(* A study writes output only if every trial played the whole open-loop   *)
(* trace conserving it, the budgets match, and every two trials of one    *)
(* policy agree on everything; in particular the trace was in order, so   *)
(* one that repeats its events with two times of a key gives no output.   *)
OutputComparable ==
  stage = "written" =>
    /\ output.conserved /\ (tool = "suite" => output.matched)
    /\ TimesOfKeyGrow /\ PlayedByPhases
    /\ \A i, j \in DOMAIN results :
         LET c == results[i].config
             d == results[j].config
         IN  c.policy = d.policy /\ c.order = d.order =>
               /\ results[i].published = results[j].published
               /\ results[i].staleness = results[j].staleness

(* The sign of the actuator: of two cadences, one a multiple of the       *)
(* other, the larger never publishes more and never answers any single    *)
(* query with a smaller staleness; exact freshness has none at all.       *)
CadenceOf(pol) == IF pol.type = "ExactFresh" THEN 1
                  ELSE IF pol.type = "FixedCadence" THEN pol.cadence ELSE 0

ActuatorSign ==
  config = <<>> => \A i, j \in DOMAIN results :
    LET u == CadenceOf(results[i].config.policy)
        v == CadenceOf(results[j].config.policy)
    IN  u > 0 /\ v > 0 /\ v % u = 0 /\ results[i].config.order = results[j].config.order =>
          /\ results[i].published >= results[j].published
          /\ \A q \in DOMAIN queries :
               results[i].staleness[q] <= results[j].staleness[q]
               /\ (u = 1 => results[i].staleness[q] = 0)
=============================================================================
