------------------------------- MODULE PolicyTrial -------------------------------
(***************************************************************************)
(* One trial of run_mechanism_pilot.py (run_configuration_trial) or of     *)
(* baseline_suite.py (run_single_baseline, and the loops of                *)
(* tune_static_cadence): the scheduled trace is played to a fresh          *)
(* PublicationSimulator, phase by phase, in every phase first all events   *)
(* and then all queries.  Features, losses and latencies are left out.     *)
(***************************************************************************)
EXTENDS Workload, Sublists

CONSTANTS PressureUnit, StressPressure, NormalPressure

SimKeys == EventKeys \cup {ColdKey}

VARIABLES policy, users, fresh, cache, total, acct,   (* the simulator     *)
          accumulator,  (* QuotaMatchedPolicy.accumulator                  *)
          config,       (* the configuration of the trial                  *)
          at,           (* operations of the trace done so far             *)
          phaseAcct,    (* phase_accounts                                  *)
          answers,      (* query_results_map: staleness by query_id        *)
          results       (* the finished trials                             *)

simVars == <<policy, users, fresh, cache, total, acct>>
trialVars == <<simVars, accumulator, config, at, phaseAcct, answers, results>>

Sim == INSTANCE PublicationReference WITH
         Keys <- SimKeys, MaxKeys <- Cardinality(EventKeys),
         MaxTime <- TestStart, MaxEvents <- TotalEvents,
         MaxQueries <- Total("queries"), Policies <- {}

NoAccounts == [p \in Phases |-> [admitted |-> 0, published |-> 0, coalesced |-> 0, completed |-> 0]]

(* Bug variant: the simulator of the last trial is used again.            *)
OldSimulator ==
  /\ users' = IF users = <<>> THEN [k \in SimKeys |-> Sim!NewUser] ELSE users
  /\ fresh' = [k \in SimKeys |-> 0]
  /\ cache' = [k \in SimKeys |-> [version |-> 0, seq |-> 0, ts |-> 0, features |-> 0]]
  /\ total' = 0
  /\ acct' = [processed |-> 0, published |-> 0, coalesced |-> 0,
              served |-> 0, cold |-> 0, warm |-> 0]

NewSimulator ==
  /\ users' = [k \in SimKeys |-> Sim!NewUser]
  /\ fresh' = [k \in SimKeys |-> 0]
  /\ cache' = [k \in SimKeys |-> [version |-> 0, seq |-> 0, ts |-> 0, features |-> 0]]
  /\ total' = 0
  /\ acct' = [processed |-> 0, published |-> 0, coalesced |-> 0,
              served |-> 0, cold |-> 0, warm |-> 0]

TrialInit ==
  /\ policy = <<>> /\ users = <<>> /\ fresh = <<>> /\ cache = <<>> /\ total = 0 /\ acct = <<>>
  /\ accumulator = 0 /\ config = <<>> /\ at = 0 /\ phaseAcct = NoAccounts
  /\ answers = <<>> /\ results = <<>>

(* c = [name, policy, order].                                             *)
BeginTrial(c) ==
  /\ policy' = c.policy /\ config' = c
  /\ NewSimulator
  /\ accumulator' = 0 /\ at' = 0 /\ phaseAcct' = NoAccounts /\ answers' = <<>>
  /\ UNCHANGED results

InPhase(ops, p) == Picked(ops, {i \in DOMAIN ops : ops[i].phase = p})

ByPhase == FlattenSeq([p \in Phases |-> InPhase(events, p) \o InPhase(queries, p)])

(* tune_static_cadence asks all queries after all events.                 *)
TraceOf(c) == IF c.order = "phases" THEN ByPhase ELSE events \o queries

Running == config # <<>> /\ at < Len(TraceOf(config))
NextOp == TraceOf(config)[at + 1]

Pressure(c, p) == IF c.order = "phases" /\ PhaseSpecs[p].stress THEN StressPressure
                  ELSE IF c.order = "phases" THEN NormalPressure ELSE 0

(* Bug variant: one publication is lost when the quota divides the trace. *)
QuotaReachedLate == accumulator + policy.target > TotalEvents

(* QuotaMatchedPolicy.should_publish, where a publication takes the whole *)
(* period out of the accumulator.                                         *)
QuotaReached == accumulator + policy.target >= TotalEvents

ProcessByQuota(o) ==
  /\ Sim!Admissible(o.key, o.ts)
  /\ fresh' = [fresh EXCEPT ![o.key] = users[o.key].count + 1]
  /\ accumulator' = accumulator + policy.target - (IF QuotaReached THEN TotalEvents ELSE 0)
  /\ \/ QuotaReached /\ Sim!PublishUpdate(o.key, o.ts)
     \/ ~QuotaReached /\ Sim!CoalesceUpdate(o.key, o.ts)
  /\ UNCHANGED policy

(* The account of a phase takes over what the simulator has counted.      *)
WithEvent(account) ==
  [account EXCEPT !.admitted = @ + 1, !.published = @ + acct'.published - acct.published,
                  !.coalesced = @ + acct'.coalesced - acct.coalesced]

TrialEvent ==
  /\ Running /\ NextOp.op = "event"
  /\ \/ /\ policy.type = "QuotaMatched" /\ ProcessByQuota(NextOp)
     \/ /\ policy.type # "QuotaMatched" /\ UNCHANGED accumulator
        /\ Sim!ProcessEvent(NextOp.key, NextOp.ts, Pressure(config, NextOp.phase))
  /\ phaseAcct' = [phaseAcct EXCEPT ![NextOp.phase] = WithEvent(@)]
  /\ at' = at + 1
  /\ UNCHANGED <<config, answers, results>>

(* process_event raises "Event timestamp decreased": the tool dies.       *)
TrialRaises ==
  /\ Running /\ NextOp.op = "event" /\ ~Sim!Admissible(NextOp.key, NextOp.ts)

TrialQuery ==
  /\ Running /\ NextOp.op = "query"
  /\ Sim!Query(NextOp.key)
  /\ answers' = Append(answers, users[NextOp.key].pending)
  /\ phaseAcct' = [phaseAcct EXCEPT ![NextOp.phase].completed = @ + 1]
  /\ at' = at + 1
  /\ UNCHANGED <<accumulator, config, results>>

Sum(field) == SumFunction([p \in Phases |-> phaseAcct[p][field]])

(* overall_conservation_verified and every verify_conservation; dropped,  *)
(* expired and rejected operations stay at 0.                             *)
Verified ==
  /\ \A p \in Phases : /\ phaseAcct[p].admitted = PhaseSpecs[p].events
                       /\ phaseAcct[p].admitted = phaseAcct[p].published + phaseAcct[p].coalesced
                       /\ phaseAcct[p].completed = PhaseSpecs[p].queries
  /\ Len(answers) = Total("queries")

EndTrial ==
  /\ config # <<>> /\ ~Running
  /\ results' = Append(results, [config |-> config, published |-> Sum("published"),
                                 staleness |-> answers, verified |-> Verified])
  /\ config' = <<>> /\ at' = 0 /\ phaseAcct' = NoAccounts /\ answers' = <<>> /\ accumulator' = 0
  /\ UNCHANGED simVars

TrialNext == TrialEvent \/ TrialQuery \/ EndTrial
=============================================================================
