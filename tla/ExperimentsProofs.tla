---------------------------- MODULE ExperimentsProofs ----------------------------
(***************************************************************************)
(* What the two studies show, for every trace, grid and tuning.            *)
(*   BudgetIsMatched: the division of the accumulator inside a trial, and  *)
(*     across trials that the quota was taken from a finished one.         *)
(*   StudiesAreComparable: the trace of a trial merges events and queries, *)
(*     and what a trial publishes and answers is a function (CoreOf) of    *)
(*     that trace and its policy.                                          *)
(*   LargerCadenceIsStaler: the cores of two cadences, side by side.       *)
(***************************************************************************)
EXTENDS Experiments, RecursionLemmas

SimCounters == {"processed", "published", "coalesced", "served", "cold", "warm"}
PhaseCounters == {"admitted", "published", "coalesced", "completed"}

IsQuota(pol) == pol.type = "QuotaMatched"

(* In the suite only the trial after the tuning is joint_adaptive, and it *)
(* has no quota.                                                          *)
Suited(c, i) ==
  /\ IsQuota(c.policy) => c.name # "joint_adaptive"
  /\ i = Len(Tuning) + 2 => c.name = "joint_adaptive"

NoTrialYet == stage \in {"loading", "scheduling", "scheduled"} => config = <<>> /\ results = <<>>

PilotHasNoQuota == tool = "pilot" /\ config # <<>> => ~IsQuota(config.policy)

SuiteInOrder ==
  tool # "pilot" => /\ config # <<>> => Suited(config, Len(results) + 1)
                    /\ \A i \in DOMAIN results : Suited(results[i].config, i)

IsList(s) == Len(s) \in Nat /\ s = [i \in 1..Len(s) |-> s[i]]

Bounded(r) == ~IsQuota(r.config.policy) => r.published \in Int /\ r.published <= TotalEvents

ResultsBounded == IsList(results) /\ \A i \in DOMAIN results : Bounded(results[i])

TrialAccounted ==
  config # <<>> =>
    /\ policy = config.policy
    /\ acct \in [SimCounters -> Nat] /\ acct["published"] <= acct["processed"]
    /\ phaseAcct \in [Phases -> [PhaseCounters -> Int]]
    /\ Sum("published") <= acct["published"]
    /\ ~IsQuota(policy) => acct["processed"] <= TotalEvents

BudgetSpread ==
  config # <<>> /\ IsQuota(policy) =>
    /\ policy.target \in 1..TotalEvents /\ accumulator \in 0..(TotalEvents - 1)
    /\ acct["processed"] * policy.target = acct["published"] * TotalEvents + accumulator

ExperimentInv == /\ NoTrialYet /\ PilotHasNoQuota /\ SuiteInOrder /\ ResultsBounded
                 /\ TrialAccounted /\ BudgetSpread
-----------------------------------------------------------------------------
(* What Append does to a list of anything.                                *)
Grown(t, s, e) ==
  /\ IsList(t) /\ Len(t) = Len(s) + 1
  /\ \A i \in DOMAIN t : \/ i \in DOMAIN s /\ t[i] = s[i]
                         \/ i = Len(s) + 1 /\ t[i] = e

LEMMA AppendGrows ==
  ASSUME NEW s, IsList(s), NEW e
  PROVE  Grown(Append(s, e), s, e)
<1> DEFINE S == {s[i] : i \in 1..Len(s)} \cup {e}
           t == Append(s, e)
<1>1. s \in Seq(S) /\ e \in S
  BY DEF IsList
<1> HIDE DEF S
<1>2. /\ t \in Seq(S) /\ Len(t) = Len(s) + 1
      /\ \A i \in 1..Len(s) : t[i] = s[i]
      /\ t[Len(s) + 1] = e
  BY <1>1, AppendProperties
<1> HIDE DEF t
<1>3. Len(t) \in Nat /\ t = [i \in 1..Len(t) |-> t[i]]
  BY <1>2
<1>4. DOMAIN t = 1..Len(s) + 1 /\ DOMAIN s = 1..Len(s) /\ Len(s) \in Nat
  BY <1>1, <1>2
<1>5. \A i \in 1..Len(s) + 1 : i \in 1..Len(s) \/ i = Len(s) + 1
  BY <1>4
<1> QED BY <1>2, <1>3, <1>4, <1>5 DEF Grown, IsList, t

(* The number of scheduled events is a natural.                           *)
LEMMA EventsCounted == TotalEvents \in Nat /\ Phases = 1..Len(PhaseSpecs) /\ Len(PhaseSpecs) \in Nat
<1> DEFINE n == Len(PhaseSpecs)
           f == [i \in Phases |-> PhaseSpecs[i]["events"]]
<1>1. n \in Nat /\ Phases = 1..n /\ \A i \in Phases : PhaseSpecs[i]["events"] \in Nat
  BY WorkloadAssumption DEF Phases
<1>2. f \in [1..n -> Nat]
  BY <1>1
<1>3. TotalEvents = SumFunction(f)
  BY DEF TotalEvents, Total
<1> HIDE DEF f, n
<1>4. SumFunction(f) \in Nat
  BY <1>1, <1>2, SumOfNaturals
<1> QED BY <1>1, <1>3, <1>4 DEF n

(* One event of the trace adds one quota to what is spread; a publication *)
(* takes the number of events out of the accumulator.                     *)
NextShare(T, t, a, pr, pu) ==
  /\ a + t >= T => a + t - T \in 0..(T - 1) /\ (pr + 1) * t = (pu + 1) * T + (a + t - T)
  /\ ~(a + t >= T) => a + t \in 0..(T - 1) /\ (pr + 1) * t = pu * T + (a + t)

LEMMA OneMoreShare ==
  ASSUME NEW T \in Int, NEW t \in 1..T, NEW a \in 0..(T - 1), NEW pr \in Nat, NEW pu \in Nat,
         pr * t = pu * T + a
  PROVE  NextShare(T, t, a, pr, pu)
<1>1. (pr + 1) * t = pr * t + t /\ (pu + 1) * T = pu * T + T
  OBVIOUS
<1>2. pr * t \in Int /\ pu * T \in Int
  OBVIOUS
<1> QED BY <1>1, <1>2 DEF NextShare
-----------------------------------------------------------------------------
(* No configuration of the pilot has a quota.                             *)
LEMMA PilotPolicies ==
  Len(PilotPlan) \in Int /\ \A n \in 1..Len(PilotPlan) : ~IsQuota(PilotPlan[n].policy)
<1> DEFINE b == Len(GridB)
           m == Len(GridU)
           S == {Named(ToString(GridB[j]), GridU[k]) : k \in 1..m, j \in 1..b}
           rows == [k \in DOMAIN GridU |->
                      [j \in DOMAIN GridB |-> Named(ToString(GridB[j]), GridU[k])]]
           ends == [k \in 0..m |-> k * b]
<1>1. /\ b \in Nat /\ m \in Nat /\ m > 0 /\ DOMAIN GridU = 1..m /\ DOMAIN GridB = 1..b
      /\ \A k \in 1..m : ~IsQuota(GridU[k])
  <2> DEFINE P == [type : {"ExactFresh"}] \cup [type : {"FixedCadence"}, cadence : Nat \ {0}]
                    \cup [type : {"AdaptivePressure"}, cadenceMax : Nat \ {0}]
  <2>1. \A pol \in P : ~IsQuota(pol)
    BY DEF IsQuota
  <2>2. GridU \in Seq(P) /\ GridU # <<>> /\ GridB \in Seq(Nat \ {0})
    BY ExperimentsAssumption
  <2> HIDE DEF P
  <2>3. \A k \in 1..m : GridU[k] \in P
    BY <2>2
  <2> QED BY <2>1, <2>2, <2>3
<1>2. /\ rows \in Seq(Seq(S)) /\ Len(rows) = m
      /\ \A k \in 1..m : Len(rows[k]) = b
      /\ \A k \in 1..m : \A j \in 1..b : rows[k][j] = Named(ToString(GridB[j]), GridU[k])
  BY <1>1
<1>3. EndsOf(rows, ends)
  <2>1. ends[0] = 0 /\ \A k \in 0..m : ends[k] \in Int /\ ends[k] = k * b
    BY <1>1
  <2>2. \A k \in 1..m : k \in 0..m /\ k - 1 \in 0..m /\ k * b = (k - 1) * b + b
    BY <1>1
  <2> HIDE DEF ends, rows, m, b
  <2>3. \A k \in 1..m : ends[k] = ends[k - 1] + Len(rows[k])
    BY <1>2, <2>1, <2>2
  <2> QED BY <1>2, <2>1, <2>3 DEF EndsOf
<1>4. PilotPlan = FlattenSeq(rows)
  BY DEF PilotPlan
<1> HIDE DEF S, rows, ends, m, b
<1>5. LaidOut(PilotPlan, rows, ends)
  BY <1>1, <1>2, <1>3, <1>4, FlattenLayout
<1>6. Len(PilotPlan) \in Int
  BY <1>1, <1>2, <1>3, <1>5 DEF EndsOf, LaidOut
<1>7. ASSUME NEW n \in 1..Len(PilotPlan) PROVE ~IsQuota(PilotPlan[n].policy)
  <2>1. PICK k \in 1..m : \E j \in 1..b : PilotPlan[n] = rows[k][j]
    BY <1>2, <1>5, SMTT(30) DEF LaidOut
  <2>2. \A name, pol : Named(name, pol).policy = pol
    BY DEF Named
  <2>3. \E name : PilotPlan[n] = Named(name, GridU[k])
    BY <1>2, <2>1
  <2>4. PilotPlan[n].policy = GridU[k]
    BY <2>2, <2>3
  <2> QED BY <1>1, <2>4
<1> QED BY <1>6, <1>7

(* The tuning has no quota either.                                        *)
LEMMA TuningPolicies ==
  Len(Tuning) \in Nat /\ \A k \in 1..Len(Tuning) : ~IsQuota(Tuning[k].policy)
<1> DEFINE m == Len(Candidates)
           head == <<[name |-> "fresh_sim", policy |-> ExactFresh, order |-> "tuning"]>>
           tail == [k \in DOMAIN Candidates |->
                      [name |-> "candidate", policy |-> FixedCadence(Candidates[k]),
                       order |-> "tuning"]]
           C == {head[1]} \cup {tail[k] : k \in 1..m}
<1>1. m \in Nat /\ DOMAIN Candidates = 1..m
  BY ExperimentsAssumption
<1>2. \A c \in C : ~IsQuota(c.policy)
  <2>1. ~IsQuota(head[1].policy)
    BY DEF IsQuota, ExactFresh
  <2>2. \A k \in 1..m : ~IsQuota(tail[k].policy)
    BY <1>1 DEF IsQuota, FixedCadence
  <2> QED BY <2>1, <2>2
<1>3. head \in Seq(C) /\ tail \in Seq(C) /\ Len(head) = 1 /\ Len(tail) = m
  BY <1>1
<1>4. Tuning = head \o tail
  BY DEF Tuning
<1> HIDE DEF C, head, tail
<1>5. Tuning \in Seq(C) /\ Len(Tuning) = 1 + m
  <2>1. head \o tail \in Seq(C) /\ Len(head \o tail) = Len(head) + Len(tail)
    BY <1>3, ConcatProperties
  <2> QED BY <1>3, <1>4, <2>1
<1>6. \A k \in 1..Len(Tuning) : Tuning[k] \in C
  BY <1>5
<1> QED BY <1>1, <1>2, <1>5, <1>6

(* The trials of the suite: joint_adaptive in its place, and a quota only *)
(* for budget_matched, whose target is joint_adaptive's publications.     *)
Planned(c, i) ==
  /\ Suited(c, i)
  /\ IsQuota(c.policy) => /\ i = Len(Tuning) + 4
                          /\ c.policy.target = Published("joint_adaptive")

LEMMA SuitePlan ==
  ASSUME NEW i \in 1..Len(Tuning) + 6
  PROVE  Planned(IF i <= Len(Tuning) THEN Tuning[i] ELSE SuiteTrial(i - Len(Tuning)), i)
<1>2. Len(Tuning) \in Nat
  BY TuningPolicies
<1>3. CASE i <= Len(Tuning)
  <2>1. i \in 1..Len(Tuning) /\ i # Len(Tuning) + 2
    BY <1>2, <1>3
  <2>2. ~IsQuota(Tuning[i].policy)
    BY <2>1, TuningPolicies
  <2> QED BY <1>3, <2>1, <2>2 DEF Planned, Suited
<1>4. CASE ~(i <= Len(Tuning))
  <2> DEFINE j == i - Len(Tuning)
             c == SuiteTrial(j)
  <2>1. j \in 1..6 /\ i = Len(Tuning) + j /\ (i = Len(Tuning) + 2 <=> j = 2)
        /\ (i = Len(Tuning) + 4 <=> j = 4)
    BY <1>2, <1>4
  <2> HIDE DEF j
  <2>2. j = 2 <=> c.name = "joint_adaptive"
    BY <2>1 DEF SuiteTrial, Named
  <2>3. j = 4 => c.name = "budget_matched" /\ c.policy.target = Published("joint_adaptive")
    BY DEF SuiteTrial, Named, Quota
  <2>4. j # 4 => ~IsQuota(c.policy)
    <3>1. /\ ~IsQuota(ExactFresh) /\ ~IsQuota(FixedCadence(uStar))
          /\ ~IsQuota(Adaptive)
      BY ExperimentsAssumption DEF IsQuota, ExactFresh, FixedCadence
    <3>2. j # 4 => c.policy \in {ExactFresh, FixedCadence(uStar), Adaptive}
      BY <2>1 DEF SuiteTrial, Named
    <3> QED BY <3>1, <3>2
  <2>5. Planned(c, i)
    BY <2>1, <2>2, <2>3, <2>4 DEF Planned, Suited
  <2> QED BY <1>4, <2>5 DEF j
<1> QED BY <1>3, <1>4
-----------------------------------------------------------------------------
(* Nothing is disturbed while no trial is touched.                        *)
LEMMA Untouched ==
  ASSUME ExperimentInv, UNCHANGED <<trialVars, tool>>,
         stage' \in {"loading", "scheduling", "scheduled"} =>
           stage \in {"loading", "scheduling", "scheduled"}
  PROVE  ExperimentInv'
<1>1. UNCHANGED <<policy, acct, accumulator, config, phaseAcct, results, tool>>
  BY DEF trialVars, simVars
<1>2. NoTrialYet' /\ PilotHasNoQuota' /\ SuiteInOrder'
  BY <1>1 DEF ExperimentInv, NoTrialYet, PilotHasNoQuota, SuiteInOrder
<1>3. ResultsBounded'
  BY <1>1 DEF ExperimentInv, ResultsBounded
<1>4. TrialAccounted' /\ BudgetSpread'
  BY <1>1 DEF ExperimentInv, TrialAccounted, BudgetSpread, Sum
<1> QED BY <1>2, <1>3, <1>4 DEF ExperimentInv

(* The quota of budget_matched is at most the number of events.           *)
LEMMA QuotaInRange ==
  ASSUME SuiteInOrder, ResultsBounded, tool # "pilot", Len(results) >= Len(Tuning) + 2,
         Len(Tuning) \in Nat
  PROVE  Published("joint_adaptive") \in Int /\ Published("joint_adaptive") <= TotalEvents
<1> DEFINE i == CHOOSE i \in DOMAIN results : results[i].config.name = "joint_adaptive"
<1>1. DOMAIN results = 1..Len(results) /\ Len(results) \in Nat
  BY DEF ResultsBounded, IsList
<1>2. Len(Tuning) + 2 \in DOMAIN results
  BY <1>1
<1>3. results[Len(Tuning) + 2].config.name = "joint_adaptive"
  BY <1>2 DEF SuiteInOrder, Suited
<1>4. i \in DOMAIN results /\ results[i].config.name = "joint_adaptive"
  BY <1>2, <1>3
<1>5. Published("joint_adaptive") = results[i].published
  BY DEF Published
<1> HIDE DEF i
<1>6. ~IsQuota(results[i].config.policy)
  BY <1>4 DEF SuiteInOrder, Suited
<1> QED BY <1>4, <1>5, <1>6 DEF ResultsBounded, Bounded

LEMMA NewTrialStep ==
  ASSUME ExperimentInv, NewTrial
  PROVE  ExperimentInv'
<1> DEFINE c == NextTrial
           i == Len(results) + 1
<1>1. /\ Idle /\ Constructible(c) /\ BeginTrial(c)
      /\ UNCHANGED <<stage, tool, results>>
  BY DEF NewTrial, BeginTrial
<1>2. /\ config' = c /\ policy' = c.policy /\ accumulator' = 0
      /\ acct' = [processed |-> 0, published |-> 0, coalesced |-> 0,
                  served |-> 0, cold |-> 0, warm |-> 0]
      /\ phaseAcct' = NoAccounts
  BY <1>1 DEF BeginTrial, NewSimulator
<1>3. stage = "running" /\ i \in 1..Trials /\ Len(results) \in Nat
  <2>1. Len(results) \in Nat /\ Len(results) < Trials /\ stage = "running"
    BY <1>1 DEF ExperimentInv, ResultsBounded, IsList, Idle
  <2>2. Trials \in Int
    <3>1. Len(PilotPlan) \in Int /\ Len(Tuning) \in Int
      BY PilotPolicies, TuningPolicies
    <3> QED BY <3>1 DEF Trials
  <2> QED BY <2>1, <2>2
<1>4. tool = "pilot" => ~IsQuota(c.policy)
  BY <1>3, PilotPolicies DEF NextTrial, Trials
<1>5. tool # "pilot" => Planned(c, i)
  BY <1>3, SuitePlan DEF NextTrial, Trials
<1>6. IsQuota(c.policy) => c.policy.target \in 1..TotalEvents
  <2> SUFFICES ASSUME IsQuota(c.policy) PROVE c.policy.target \in 1..TotalEvents
    OBVIOUS
  <2>1. /\ tool # "pilot" /\ i = Len(Tuning) + 4
        /\ c.policy.target = Published("joint_adaptive")
    BY <1>4, <1>5 DEF Planned
  <2>2. c.policy.target > 0
    BY <1>1 DEF Constructible, IsQuota
  <2>3. Len(Tuning) \in Nat
    BY TuningPolicies
  <2>4. Published("joint_adaptive") \in Int /\ Published("joint_adaptive") <= TotalEvents
    <3>1. Len(results) >= Len(Tuning) + 2
      BY <1>3, <2>1, <2>3
    <3> QED BY <2>1, <2>3, <3>1, QuotaInRange DEF ExperimentInv
  <2>5. TotalEvents \in Nat
    BY EventsCounted
  <2> QED BY <2>1, <2>2, <2>4, <2>5
<1>7. Sum("published")' = 0
  <2> DEFINE f == [p \in Phases |-> NoAccounts[p]["published"]]
  <2>1. f \in [1..Len(PhaseSpecs) -> {0}]
    BY EventsCounted DEF NoAccounts
  <2>2. Sum("published")' = SumFunction(f)
    BY <1>2 DEF Sum
  <2> HIDE DEF f
  <2> QED BY <2>1, <2>2, EventsCounted, SumOfZeros
<1> HIDE DEF c
<1>8. NoTrialYet' /\ PilotHasNoQuota'
  BY <1>1, <1>2, <1>3, <1>4 DEF NoTrialYet, PilotHasNoQuota
<1>9. SuiteInOrder' /\ ResultsBounded'
  BY <1>1, <1>2, <1>5 DEF ExperimentInv, SuiteInOrder, ResultsBounded, Planned
<1>10. TrialAccounted'
  <2>1. acct' \in [SimCounters -> Nat] /\ acct'["published"] = 0 /\ acct'["processed"] = 0
    BY <1>2 DEF SimCounters
  <2>2. phaseAcct' \in [Phases -> [PhaseCounters -> Int]]
    BY <1>2 DEF NoAccounts, PhaseCounters
  <2> QED BY <1>2, <1>7, <2>1, <2>2, EventsCounted DEF TrialAccounted
<1>11. BudgetSpread'
  <2> SUFFICES ASSUME IsQuota(policy')
               PROVE  /\ policy'.target \in 1..TotalEvents /\ accumulator' \in 0..(TotalEvents - 1)
                      /\ acct'["processed"] * policy'.target =
                           acct'["published"] * TotalEvents + accumulator'
    BY DEF BudgetSpread
  <2>1. policy'.target \in 1..TotalEvents /\ TotalEvents \in Nat
    BY <1>2, <1>6, EventsCounted
  <2>2. acct'["published"] = 0 /\ acct'["processed"] = 0
    BY <1>2
  <2> QED BY <1>2, <2>1, <2>2
<1> QED BY <1>8, <1>9, <1>10, <1>11 DEF ExperimentInv
-----------------------------------------------------------------------------
(* An event is counted once by the simulator, and at most once published. *)
Counted ==
  /\ acct' \in [SimCounters -> Nat]
  /\ acct'["processed"] = acct["processed"] + 1
  /\ acct'["published"] \in {acct["published"], acct["published"] + 1}

LEMMA EventIsCounted ==
  ASSUME acct \in [SimCounters -> Nat], NEW k, NEW ts
  PROVE  /\ Sim!PublishUpdate(k, ts) =>
              Counted /\ acct'["published"] = acct["published"] + 1
         /\ Sim!CoalesceUpdate(k, ts) =>
              Counted /\ acct'["published"] = acct["published"]
<1>1. ASSUME Sim!PublishUpdate(k, ts)
      PROVE  Counted /\ acct'["published"] = acct["published"] + 1
  <2>1. acct' = [acct EXCEPT !["processed"] = acct["processed"] + 1,
                             !["published"] = acct["published"] + 1]
    BY <1>1 DEF Sim!PublishUpdate, SimCounters
  <2> QED BY <2>1 DEF Counted, SimCounters
<1>2. ASSUME Sim!CoalesceUpdate(k, ts)
      PROVE  Counted /\ acct'["published"] = acct["published"]
  <2>1. acct' = [acct EXCEPT !["processed"] = acct["processed"] + 1,
                             !["coalesced"] = acct["coalesced"] + 1]
    BY <1>2 DEF Sim!CoalesceUpdate, SimCounters
  <2> QED BY <2>1 DEF Counted, SimCounters
<1> QED BY <1>1, <1>2

LEMMA SumsAreIntegers ==
  ASSUME phaseAcct \in [Phases -> [PhaseCounters -> Int]]
  PROVE  Sum("published") \in Int
<1> DEFINE f == [p \in Phases |-> phaseAcct[p]["published"]]
<1>1. DOMAIN f = 1..Len(PhaseSpecs) /\ \A p \in 1..Len(PhaseSpecs) : f[p] \in Int
  BY EventsCounted DEF PhaseCounters
<1>2. Sum("published") = SumFunction(f)
  BY DEF Sum
<1> HIDE DEF f
<1> QED BY <1>1, <1>2, EventsCounted, SumType

(* The phase accounts take the publication over, if the phase is one.     *)
LEMMA PhaseIsCounted ==
  ASSUME phaseAcct \in [Phases -> [PhaseCounters -> Int]],
         NEW a \in [PhaseCounters -> Int], NEW q, NEW d \in Nat,
         q \in Phases => a["published"] = phaseAcct[q]["published"] + d,
         phaseAcct' = [phaseAcct EXCEPT ![q] = a]
  PROVE  /\ phaseAcct' \in [Phases -> [PhaseCounters -> Int]]
         /\ Sum("published") \in Int /\ Sum("published")' \in Int
         /\ Sum("published")' <= Sum("published") + d
<1> DEFINE n == Len(PhaseSpecs)
           f == [p \in Phases |-> phaseAcct[p]["published"]]
           g == [p \in Phases |-> phaseAcct'[p]["published"]]
<1>1. n \in Nat /\ Phases = 1..n
  BY EventsCounted
<1>2. phaseAcct' \in [Phases -> [PhaseCounters -> Int]]
  OBVIOUS
<1>3. Sum("published") = SumFunction(f) /\ Sum("published")' = SumFunction(g)
  BY DEF Sum
<1>4. \A p \in Phases : f[p] \in Int /\ g[p] \in Int /\ (p # q => g[p] = f[p])
  BY <1>2 DEF PhaseCounters
<1>5. q \in Phases => g[q] = f[q] + d
  OBVIOUS
<1>6. DOMAIN f = 1..n /\ DOMAIN g = 1..n
  BY <1>1
<1>7. q \notin Phases => f = g
  OBVIOUS
<1> HIDE DEF f, g, n
<1>8. SumFunction(f) \in Int /\ SumFunction(g) \in Int
  BY <1>1, <1>4, <1>6, SumType
<1>9. CASE q \in Phases
  <2>1. SumFunction(g) - g[q] = SumFunction(f) - f[q]
    <3>1. /\ q \in 1..n /\ \A k \in 1..n : f[k] \in Int /\ g[k] \in Int
          /\ \A k \in 1..n : k # q => g[k] = f[k]
      BY <1>1, <1>4, <1>9
    <3> QED BY <1>1, <1>6, <3>1, SumOfOneChanged, ZenonT(30)
  <2>2. g[q] = f[q] + d /\ f[q] \in Int
    BY <1>4, <1>5, <1>9
  <2> QED BY <1>2, <1>3, <1>8, <2>1, <2>2
<1>10. CASE q \notin Phases
  BY <1>2, <1>3, <1>7, <1>8, <1>10
<1> QED BY <1>9, <1>10

LEMMA EventStep ==
  ASSUME ExperimentInv, TrialEvent, stage = "running", UNCHANGED <<stage, tool>>
  PROVE  ExperimentInv'
<1> DEFINE o == NextOp
           d == acct'["published"] - acct["published"]
<1>1. config # <<>> /\ UNCHANGED <<config, results, stage, tool, policy>>
  BY DEF TrialEvent, Running, ProcessByQuota, Sim!ProcessEvent
<1>2. /\ policy = config.policy /\ acct \in [SimCounters -> Nat]
      /\ acct["published"] <= acct["processed"]
      /\ phaseAcct \in [Phases -> [PhaseCounters -> Int]]
      /\ Sum("published") <= acct["published"]
      /\ ~IsQuota(policy) => acct["processed"] <= TotalEvents
  BY <1>1 DEF ExperimentInv, TrialAccounted
<1>3. Counted
  <2>1. \/ Sim!PublishUpdate(o.key, o.ts)
        \/ Sim!CoalesceUpdate(o.key, o.ts)
    BY DEF TrialEvent, ProcessByQuota, Sim!ProcessEvent
  <2> QED BY <1>2, <2>1, EventIsCounted
<1>4. d \in Nat /\ acct'["published"] = acct["published"] + d /\ d <= 1
  BY <1>2, <1>3 DEF Counted, SimCounters
<1>5. /\ phaseAcct' \in [Phases -> [PhaseCounters -> Int]]
      /\ Sum("published") \in Int /\ Sum("published")' \in Int
      /\ Sum("published")' <= Sum("published") + d
  <2> DEFINE q == o.phase
             b == phaseAcct[q]
             a == WithEvent(b)
  <2>1. phaseAcct' = [phaseAcct EXCEPT ![q] = a]
    BY DEF TrialEvent
  <2>2. q \in Phases => a \in [PhaseCounters -> Int] /\ a["published"] = b["published"] + d
    <3> SUFFICES ASSUME q \in Phases
                 PROVE  a \in [PhaseCounters -> Int] /\ a["published"] = b["published"] + d
      OBVIOUS
    <3>1. b \in [PhaseCounters -> Int] /\ acct \in [SimCounters -> Nat]
          /\ acct' \in [SimCounters -> Nat]
      BY <1>2, <1>3 DEF Counted
    <3> HIDE DEF b, q
    <3>2. a = [b EXCEPT !["admitted"] = b["admitted"] + 1,
                        !["published"] = b["published"] + acct'["published"] - acct["published"],
                        !["coalesced"] = b["coalesced"] + acct'["coalesced"] - acct["coalesced"]]
      BY <3>1 DEF WithEvent, PhaseCounters
    <3> QED BY <3>1, <3>2 DEF SimCounters, PhaseCounters
  <2> HIDE DEF q, a, d
  <2>3. CASE q \in Phases
    BY <1>2, <1>4, <2>1, <2>2, <2>3, PhaseIsCounted
  <2>4. CASE q \notin Phases
    <3>1. phaseAcct' = phaseAcct
      BY <1>2, <2>1, <2>4
    <3>2. Sum("published") \in Int /\ Sum("published")' = Sum("published")
      BY <1>2, <3>1, SumsAreIntegers DEF Sum
    <3>3. \A x \in Int : x <= x + d
      BY <1>4
    <3> QED BY <1>2, <3>1, <3>2, <3>3
  <2> QED BY <2>3, <2>4
<1>6. ~IsQuota(policy) => acct'["processed"] <= TotalEvents
  <2> SUFFICES ASSUME ~IsQuota(policy) PROVE acct'["processed"] <= TotalEvents
    OBVIOUS
  <2>1. acct["processed"] < TotalEvents
    BY DEF TrialEvent, IsQuota, Sim!ProcessEvent
  <2>2. acct["processed"] \in Nat /\ acct'["processed"] = acct["processed"] + 1
    BY <1>2, <1>3 DEF Counted, SimCounters
  <2> QED BY <2>1, <2>2, EventsCounted
<1>7. TrialAccounted'
  <2>1. acct'["published"] <= acct'["processed"]
    BY <1>2, <1>3 DEF Counted, SimCounters
  <2>2. Sum("published")' <= acct'["published"]
    BY <1>2, <1>4, <1>5 DEF SimCounters
  <2>3. acct' \in [SimCounters -> Nat]
    BY <1>3 DEF Counted
  <2> QED BY <1>1, <1>2, <1>5, <1>6, <2>1, <2>2, <2>3 DEF TrialAccounted
<1>8. BudgetSpread'
  <2> SUFFICES ASSUME IsQuota(policy)
               PROVE  /\ policy.target \in 1..TotalEvents /\ accumulator' \in 0..(TotalEvents - 1)
                      /\ acct'["processed"] * policy.target =
                           acct'["published"] * TotalEvents + accumulator'
    BY <1>1 DEF BudgetSpread
  <2>1. /\ policy.target \in 1..TotalEvents /\ accumulator \in 0..(TotalEvents - 1)
        /\ acct["processed"] * policy.target = acct["published"] * TotalEvents + accumulator
    BY <1>1 DEF ExperimentInv, BudgetSpread
  <2>2. ProcessByQuota(o)
    BY DEF TrialEvent, IsQuota
  <2>3. acct["processed"] \in Nat /\ acct["published"] \in Nat /\ TotalEvents \in Int
    BY <1>2, EventsCounted DEF SimCounters
  <2>4. NextShare(TotalEvents, policy.target, accumulator, acct["processed"], acct["published"])
    BY <2>1, <2>3, OneMoreShare, Zenon
  <2>5. CASE QuotaReached
    <3>1. acct'["published"] = acct["published"] + 1 /\ acct'["processed"] = acct["processed"] + 1
      <4>1. Sim!PublishUpdate(o.key, o.ts)
        BY <2>2, <2>5 DEF ProcessByQuota
      <4> QED BY <1>2, <4>1, EventIsCounted DEF Counted
    <3>2. accumulator' = accumulator + policy.target - TotalEvents
      BY <2>2, <2>5 DEF ProcessByQuota
    <3> QED BY <2>1, <2>4, <2>5, <3>1, <3>2 DEF QuotaReached, NextShare
  <2>6. CASE ~QuotaReached
    <3>1. acct'["published"] = acct["published"] /\ acct'["processed"] = acct["processed"] + 1
      <4>1. Sim!CoalesceUpdate(o.key, o.ts)
        BY <2>2, <2>6 DEF ProcessByQuota
      <4> QED BY <1>2, <4>1, EventIsCounted DEF Counted
    <3>2. accumulator' = accumulator + policy.target
      <4>1. accumulator' = accumulator + policy.target - 0
        BY <2>2, <2>6 DEF ProcessByQuota
      <4> QED BY <2>1, <2>3, <4>1
    <3> QED BY <2>1, <2>4, <2>6, <3>1, <3>2 DEF QuotaReached, NextShare
  <2> QED BY <2>5, <2>6
<1>9. NoTrialYet' /\ PilotHasNoQuota' /\ SuiteInOrder' /\ ResultsBounded'
  BY <1>1 DEF ExperimentInv, NoTrialYet, PilotHasNoQuota, SuiteInOrder, ResultsBounded
<1> QED BY <1>7, <1>8, <1>9 DEF ExperimentInv
-----------------------------------------------------------------------------
(* A query counts in the accounts, but neither events nor publications.   *)
LEMMA QueryStep ==
  ASSUME ExperimentInv, TrialQuery, stage = "running", UNCHANGED <<stage, tool>>
  PROVE  ExperimentInv'
<1>1. config # <<>> /\ UNCHANGED <<config, results, stage, tool, policy, accumulator>>
  BY DEF TrialQuery, Running, Sim!Query
<1>2. /\ policy = config.policy /\ acct \in [SimCounters -> Nat]
      /\ acct["published"] <= acct["processed"]
      /\ phaseAcct \in [Phases -> [PhaseCounters -> Int]]
      /\ Sum("published") <= acct["published"]
      /\ ~IsQuota(policy) => acct["processed"] <= TotalEvents
  BY <1>1 DEF ExperimentInv, TrialAccounted
<1>3. /\ acct' \in [SimCounters -> Nat]
      /\ acct'["published"] = acct["published"] /\ acct'["processed"] = acct["processed"]
  <2> DEFINE kind == IF cache[NextOp.key].version = 0 THEN "cold" ELSE "warm"
  <2>1. kind \in {"cold", "warm"}
    OBVIOUS
  <2>2. acct' = [acct EXCEPT !.served = @ + 1, ![kind] = @ + 1]
    BY DEF TrialQuery, Sim!Query
  <2> HIDE DEF kind
  <2>3. acct' = [acct EXCEPT !["served"] = acct["served"] + 1, ![kind] = acct[kind] + 1]
    BY <1>2, <2>1, <2>2 DEF SimCounters
  <2> QED BY <1>2, <2>1, <2>3 DEF SimCounters
<1>4. phaseAcct' \in [Phases -> [PhaseCounters -> Int]] /\ Sum("published")' <= acct["published"]
  <2> DEFINE q == NextOp.phase
             a == [phaseAcct[q] EXCEPT !["completed"] = phaseAcct[q]["completed"] + 1]
  <2>1. phaseAcct' = [phaseAcct EXCEPT ![q] = a]
    BY DEF TrialQuery
  <2>2. q \in Phases => a \in [PhaseCounters -> Int] /\ a["published"] = phaseAcct[q]["published"] + 0
    BY <1>2 DEF PhaseCounters
  <2> HIDE DEF q, a
  <2>3. CASE q \in Phases
    <3>1. /\ phaseAcct' \in [Phases -> [PhaseCounters -> Int]]
          /\ Sum("published") \in Int /\ Sum("published")' \in Int
          /\ Sum("published")' <= Sum("published") + 0
      BY <1>2, <2>1, <2>2, <2>3, PhaseIsCounted
    <3> QED BY <1>2, <3>1 DEF SimCounters
  <2>4. CASE q \notin Phases
    <3>1. phaseAcct' = phaseAcct
      BY <1>2, <2>1, <2>4
    <3> QED BY <1>2, <3>1 DEF Sum
  <2> QED BY <2>3, <2>4
<1>5. TrialAccounted'
  BY <1>1, <1>2, <1>3, <1>4 DEF TrialAccounted
<1>6. BudgetSpread'
  BY <1>1, <1>3 DEF ExperimentInv, BudgetSpread
<1>7. NoTrialYet' /\ PilotHasNoQuota' /\ SuiteInOrder' /\ ResultsBounded'
  BY <1>1 DEF ExperimentInv, NoTrialYet, PilotHasNoQuota, SuiteInOrder, ResultsBounded
<1> QED BY <1>5, <1>6, <1>7 DEF ExperimentInv

(* A finished trial without a quota has at most one publication an event. *)
LEMMA EndStep ==
  ASSUME ExperimentInv, EndTrial, stage = "running", UNCHANGED <<stage, tool>>
  PROVE  ExperimentInv'
<1> DEFINE r == [config |-> config, published |-> Sum("published"),
                 staleness |-> answers, verified |-> Verified]
<1>1. config # <<>> /\ config' = <<>> /\ results' = Append(results, r)
  BY DEF EndTrial
<1>2. IsList(results) /\ \A i \in DOMAIN results : Bounded(results[i])
  BY DEF ExperimentInv, ResultsBounded
<1>3. r.config = config /\ r.published = Sum("published")
  OBVIOUS
<1> HIDE DEF r
<1>4. Grown(results', results, r)
  BY <1>1, <1>2, AppendGrows
<1>5. Bounded(r)
  <2> SUFFICES ASSUME ~IsQuota(config.policy)
               PROVE  Sum("published") \in Int /\ Sum("published") <= TotalEvents
    BY <1>3 DEF Bounded
  <2>1. /\ acct \in [SimCounters -> Nat] /\ acct["published"] <= acct["processed"]
        /\ phaseAcct \in [Phases -> [PhaseCounters -> Int]]
        /\ Sum("published") <= acct["published"] /\ acct["processed"] <= TotalEvents
    BY <1>1 DEF ExperimentInv, TrialAccounted
  <2>2. Sum("published") \in Int /\ TotalEvents \in Nat
    BY <2>1, SumsAreIntegers, EventsCounted
  <2> QED BY <2>1, <2>2 DEF SimCounters
<1>6. ResultsBounded'
  BY <1>2, <1>4, <1>5 DEF ResultsBounded, Grown
<1>7. SuiteInOrder'
  <2> SUFFICES ASSUME tool # "pilot", NEW i \in DOMAIN results'
               PROVE  Suited(results'[i].config, i)
    BY <1>1 DEF SuiteInOrder
  <2>1. CASE i \in DOMAIN results /\ results'[i] = results[i]
    BY <2>1 DEF ExperimentInv, SuiteInOrder
  <2>2. CASE i = Len(results) + 1 /\ results'[i] = r
    BY <1>1, <1>3, <2>2 DEF ExperimentInv, SuiteInOrder
  <2> QED BY <1>4, <2>1, <2>2 DEF Grown
<1>8. NoTrialYet' /\ PilotHasNoQuota' /\ TrialAccounted' /\ BudgetSpread'
  BY <1>1 DEF NoTrialYet, PilotHasNoQuota, TrialAccounted, BudgetSpread
<1> QED BY <1>6, <1>7, <1>8 DEF ExperimentInv
-----------------------------------------------------------------------------
LEMMA ExperimentStart == Init => ExperimentInv
<1> SUFFICES ASSUME Init PROVE ExperimentInv
  OBVIOUS
<1>1. config = <<>> /\ results = <<>>
  BY DEF Init, TrialInit
<1>2. IsList(<<>>) /\ DOMAIN <<>> = {}
  BY DEF IsList
<1>3. ResultsBounded /\ SuiteInOrder
  BY <1>1, <1>2 DEF ResultsBounded, SuiteInOrder
<1> QED
  BY <1>1, <1>3 DEF ExperimentInv, NoTrialYet, PilotHasNoQuota, TrialAccounted, BudgetSpread

LEMMA ExperimentSteps == ExperimentInv /\ [Next]_vars => ExperimentInv'
<1> SUFFICES ASSUME ExperimentInv, [Next]_vars PROVE ExperimentInv'
  OBVIOUS
<1>1. CASE WorkNext /\ UNCHANGED <<trialVars, tool, uStar, output>>
  <2>1. stage \in {"loading", "scheduling"}
    BY <1>1 DEF WorkNext, ReadSource, SourceRead, SchedulePhase, Scheduled
  <2> QED BY <1>1, <2>1, Untouched
<1>2. CASE stage = "running" /\ TrialNext /\ UNCHANGED <<stage, workVars, tool, uStar, output>>
  BY <1>2, EventStep, QueryStep, EndStep DEF TrialNext
<1>3. CASE Start
  <2>1. /\ stage = "scheduled" /\ stage' = "running"
        /\ UNCHANGED <<policy, acct, accumulator, config, phaseAcct, results>>
    BY <1>3 DEF Start, trialVars, simVars
  <2>2. config = <<>> /\ results = <<>> /\ DOMAIN <<>> = {}
    BY <2>1 DEF ExperimentInv, NoTrialYet
  <2>3. ResultsBounded'
    BY <2>1 DEF ExperimentInv, ResultsBounded
  <2> QED BY <2>1, <2>2, <2>3
          DEF ExperimentInv, NoTrialYet, PilotHasNoQuota, SuiteInOrder, TrialAccounted, BudgetSpread
<1>4. CASE ChooseCadence
  BY <1>4, Untouched DEF ChooseCadence
<1>5. CASE NewTrial
  BY <1>5, NewTrialStep
<1>6. CASE ToolFails
  BY <1>6, Untouched DEF ToolFails
<1>7. CASE WriteOutput
  BY <1>7, Untouched DEF WriteOutput
<1>8. CASE UNCHANGED vars
  BY <1>8, Untouched DEF vars
<1> QED BY <1>1, <1>2, <1>3, <1>4, <1>5, <1>6, <1>7, <1>8 DEF Next

LEMMA SpreadFollows == ExperimentInv => QuotaIsSpread
<1> SUFFICES ASSUME ExperimentInv, config # <<>>, policy.type = "QuotaMatched"
             PROVE  /\ acct["published"] * TotalEvents <= acct["processed"] * policy.target
                    /\ acct["processed"] * policy.target < (acct["published"] + 1) * TotalEvents
  BY DEF QuotaIsSpread
<1>1. /\ accumulator \in 0..(TotalEvents - 1) /\ TotalEvents \in Nat
      /\ acct["processed"] * policy.target = acct["published"] * TotalEvents + accumulator
  BY EventsCounted DEF ExperimentInv, BudgetSpread, IsQuota
<1>2. acct["published"] \in Nat
  BY DEF ExperimentInv, TrialAccounted, SimCounters
<1> DEFINE whole == acct["published"] * TotalEvents
<1>3. whole \in Int /\ (acct["published"] + 1) * TotalEvents = whole + TotalEvents
  BY <1>1, <1>2
<1>4. acct["processed"] * policy.target = whole + accumulator
  BY <1>1
<1> HIDE DEF whole
<1>5. whole <= whole + accumulator /\ whole + accumulator < whole + TotalEvents
  BY <1>1, <1>3
<1> QED BY <1>3, <1>4, <1>5 DEF whole

(* QuotaMatchedPolicy (publication_reference.py) publishes, at every event*)
(* of a trial of the suite, the rounded-down share of its target: for     *)
(* every trace, tuning, grid and pressure, and whatever joint_adaptive    *)
(* published in the suite before.                                         *)
THEOREM BudgetIsMatched == Spec => []QuotaIsSpread
<1>1. Spec => []ExperimentInv
  BY ExperimentStart, ExperimentSteps, PTL DEF Spec
<1> QED BY <1>1, SpreadFollows, PTL
-----------------------------------------------------------------------------
(* The schedule: the operations of the phases done lie one phase after    *)
(* the other, in the numbers the phases ask for.                          *)
PhaseCount == Len(PhaseSpecs)

Before(field, p) == SumFunction([i \in 1..p |-> PhaseSpecs[i][field]])

EventOp == [op : {"event"}, phase : Phases, at : Nat, key : EventKeys, ts : Nat]
QueryOp == [op : {"query"}, phase : Phases, at : Nat, key : SimKeys, id : Nat]

(* The operations of one kind: each in the stretch of its phase.          *)
Stretched(ops, field) ==
  /\ Len(ops) = Before(field, phase - 1)
  /\ \A j \in 1..Len(ops) : /\ ops[j].phase <= phase - 1 /\ ops[j].at < start
                            /\ Before(field, ops[j].phase - 1) < j
                            /\ j <= Before(field, ops[j].phase)

(* Of different phases, the operations of the earlier one come earlier.   *)
Earlier(a, b) == \A i \in 1..Len(a), j \in 1..Len(b) : a[i].phase < b[j].phase => a[i].at < b[j].at

ScheduleInv ==
  /\ phase \in 1..PhaseCount + 1 /\ start \in Nat
  /\ events \in Seq(EventOp) /\ queries \in Seq(QueryOp)
  /\ Stretched(events, "events") /\ Stretched(queries, "queries")
  /\ Earlier(events, events) /\ Earlier(events, queries)
  /\ Earlier(queries, events) /\ Earlier(queries, queries)

SourceRow == [ts : Nat, key : EventKeys]

LoadedInv ==
  /\ stage \in {"loading", "scheduling"} => loaded \in Seq(SourceRow)
  /\ stage = "scheduling" => Len(loaded) = TotalEvents

WholeTrace == phase = PhaseCount + 1

TracedInv ==
  (stage \in {"scheduled", "running", "written"} \/ config # <<>> \/ results # <<>>) => WholeTrace

LEMMA PhaseFacts ==
  /\ PhaseCount \in Nat \ {0} /\ Phases = 1..PhaseCount
  /\ \A p \in Phases : /\ PhaseSpecs[p].events \in Nat \ {0} /\ PhaseSpecs[p].evDt \in Nat \ {0}
                       /\ PhaseSpecs[p].queries \in Nat /\ PhaseSpecs[p].qDt \in Nat
BY WorkloadAssumption DEF PhaseCount, Phases

LEMMA BeforeFacts ==
  ASSUME NEW field \in {"events", "queries"}
  PROVE  /\ Before(field, 0) = 0 /\ Before(field, PhaseCount) = Total(field)
         /\ \A p \in 0..PhaseCount : Before(field, p) \in Nat
         /\ \A p \in Phases : Before(field, p) = Before(field, p - 1) + PhaseSpecs[p][field]
<1>1. \A p \in Phases : PhaseSpecs[p][field] \in Nat
  BY PhaseFacts
<1>2. Before(field, 0) = 0
  <2> DEFINE f == [i \in 1..0 |-> PhaseSpecs[i][field]]
  <2>1. DOMAIN f = {}
    OBVIOUS
  <2> HIDE DEF f
  <2>2. SumFunction(f) = 0
    BY <2>1, SumOfNothing
  <2> QED BY <2>2 DEF f, Before
<1>3. Before(field, PhaseCount) = Total(field)
  BY PhaseFacts DEF Before, Total
<1>4. ASSUME NEW p \in 0..PhaseCount PROVE Before(field, p) \in Nat
  <2> DEFINE f == [i \in 1..p |-> PhaseSpecs[i][field]]
  <2>1. p \in Nat /\ f \in [1..p -> Nat]
    BY <1>1, PhaseFacts
  <2> HIDE DEF f
  <2>2. SumFunction(f) \in Nat
    BY <2>1, SumOfNaturals
  <2> QED BY <2>2 DEF f, Before
<1>5. ASSUME NEW p \in Phases PROVE Before(field, p) = Before(field, p - 1) + PhaseSpecs[p][field]
  <2> DEFINE n == p - 1
             f == [i \in 1..n + 1 |-> PhaseSpecs[i][field]]
             g == [i \in 1..n |-> PhaseSpecs[i][field]]
  <2>1. n \in Nat /\ n + 1 = p /\ \A i \in 1..n + 1 : i \in Phases
    BY PhaseFacts
  <2> HIDE DEF n
  <2>2. /\ DOMAIN f = 1..n + 1 /\ DOMAIN g = 1..n /\ \A i \in 1..n + 1 : f[i] \in Int
        /\ \A i \in 1..n : g[i] = f[i]
    BY <1>1, <2>1
  <2>3. f[n + 1] = PhaseSpecs[p][field]
    BY <2>1
  <2>4. Before(field, p) = SumFunction(f) /\ Before(field, n) = SumFunction(g)
    BY <2>1 DEF Before
  <2> HIDE DEF f, g
  <2>5. SumFunction(f) = SumFunction(g) + f[n + 1]
    BY <2>1, <2>2, SumOfOneMore
  <2> QED BY <2>3, <2>4, <2>5 DEF n
<1> QED BY <1>2, <1>3, <1>4, <1>5

LEMMA BeforeGrows ==
  ASSUME NEW field \in {"events", "queries"}, NEW p \in 0..PhaseCount, NEW q \in 0..PhaseCount, p <= q
  PROVE  Before(field, p) <= Before(field, q)
<1> DEFINE n == q - p
           T == {i \in 0..n : Before(field, p) <= Before(field, p + i)}
<1>1. n \in Nat /\ p + n = q /\ PhaseCount \in Nat
  BY PhaseFacts
<1>2. 0 \in T
  <2>1. Before(field, p) \in Nat /\ p + 0 = p
    BY BeforeFacts
  <2> QED BY <1>1, <2>1
<1>3. ASSUME NEW i \in 0..(n - 1), i \in T PROVE i + 1 \in T
  <2>1. /\ p + (i + 1) \in Phases /\ p + (i + 1) - 1 = p + i /\ p + i \in 0..PhaseCount /\ i + 1 \in 0..n
    BY <1>1, PhaseFacts
  <2>2. /\ Before(field, p + (i + 1)) = Before(field, p + i) + PhaseSpecs[p + (i + 1)][field]
        /\ Before(field, p + i) \in Nat /\ Before(field, p) \in Nat
    BY <2>1, BeforeFacts
  <2>3. PhaseSpecs[p + (i + 1)][field] \in Nat
    BY <2>1, PhaseFacts
  <2> QED BY <1>3, <2>1, <2>2, <2>3
<1> HIDE DEF T
<1>4. n \in T
  <2>1. \A i \in 0..n : i \in T
    BY <1>1, <1>2, <1>3, UpTo
  <2> QED BY <1>1, <2>1
<1> QED BY <1>1, <1>4 DEF T
-----------------------------------------------------------------------------
(* One phase more of one kind of operation.                               *)
PhaseGrown(all, ops, more, field, p, first, next) ==
  /\ Len(all) = Before(field, p) /\ Len(ops) <= Len(all)
  /\ \A j \in 1..Len(all) :
       /\ all[j].phase <= p /\ all[j].at < next
       /\ Before(field, all[j].phase - 1) < j
       /\ j <= Before(field, all[j].phase)
       /\ \/ j \in 1..Len(ops) /\ all[j] = ops[j]
          \/ /\ j \notin 1..Len(ops) /\ all[j].phase = p /\ first <= all[j].at
             /\ j - Len(ops) \in 1..Len(more) /\ all[j] = more[j - Len(ops)]

LEMMA PhaseAdded ==
  ASSUME NEW field \in {"events", "queries"}, NEW Op, NEW ops \in Seq(Op), NEW p \in Phases,
         NEW first \in Nat, NEW next \in Nat, first <= next,
         Len(ops) = Before(field, p - 1),
         \A o \in Op : o.phase \in Phases /\ o.at \in Nat,
         \A j \in 1..Len(ops) : /\ ops[j].phase <= p - 1 /\ ops[j].at < first
                                /\ Before(field, ops[j].phase - 1) < j
                                /\ j <= Before(field, ops[j].phase),
         NEW more \in Seq(Op), Len(more) = PhaseSpecs[p][field],
         \A i \in 1..Len(more) : more[i].phase = p /\ first <= more[i].at /\ more[i].at < next
  PROVE  ops \o more \in Seq(Op) /\ PhaseGrown(ops \o more, ops, more, field, p, first, next)
<1> DEFINE all == ops \o more
<1>0. Phases = 1..PhaseCount /\ PhaseCount \in Nat /\ p \in Int
  BY PhaseFacts
<1>1. /\ all \in Seq(Op) /\ Len(all) = Len(ops) + Len(more)
      /\ Len(ops) \in Nat /\ Len(more) \in Nat
      /\ \A j \in 1..Len(all) : all[j] = IF j <= Len(ops) THEN ops[j] ELSE more[j - Len(ops)]
  <2>1. Len(ops) \in Nat /\ Len(more) \in Nat
    OBVIOUS
  <2>2. all \in Seq(Op) /\ Len(all) = Len(ops) + Len(more)
    BY ConcatProperties
  <2>3. \A j \in 1..Len(ops) + Len(more) : all[j] = IF j <= Len(ops) THEN ops[j] ELSE more[j - Len(ops)]
    BY ConcatProperties
  <2> QED BY <2>1, <2>2, <2>3
<1>2. Before(field, p) = Before(field, p - 1) + Len(more)
  BY BeforeFacts
<1> HIDE DEF all
<1>3. Len(all) = Before(field, p)
  BY <1>1, <1>2
<1>4. ASSUME NEW j \in 1..Len(all)
      PROVE  /\ all[j].phase <= p /\ all[j].at < next
             /\ Before(field, all[j].phase - 1) < j
             /\ j <= Before(field, all[j].phase)
             /\ \/ j \in 1..Len(ops) /\ all[j] = ops[j]
                \/ /\ j \notin 1..Len(ops) /\ all[j].phase = p /\ first <= all[j].at
                   /\ j - Len(ops) \in 1..Len(more) /\ all[j] = more[j - Len(ops)]
  <2>1. CASE j <= Len(ops)
    <3>1. j \in 1..Len(ops) /\ all[j] = ops[j]
      BY <1>1, <2>1
    <3>2. ops[j] \in Op
      BY <3>1, ElementOfSeq
    <3>3. ops[j].phase \in Int /\ ops[j].at \in Nat /\ p \in Int
      BY <1>0, <3>2
    <3>4. ops[j].phase <= p /\ ops[j].at < next
      BY <3>1, <3>3
    <3> QED BY <3>1, <3>4
  <2>2. CASE ~(j <= Len(ops))
    <3>1. j - Len(ops) \in 1..Len(more) /\ all[j] = more[j - Len(ops)]
      BY <1>1, <2>2
    <3>2. all[j].phase = p /\ first <= all[j].at /\ all[j].at < next /\ p \in Int
      BY <1>0, <3>1
    <3> QED BY <1>1, <1>2, <1>3, <2>2, <3>1, <3>2
  <2> QED BY <1>1, <2>1, <2>2
<1> QED BY <1>1, <1>3, <1>4 DEF all, PhaseGrown

LEMMA LoadSteps ==
  ASSUME LoadedInv, WorkNext
  PROVE  LoadedInv'
<1>r. SourceRow = [ts : Nat, key : EventKeys] /\ SourceTimes \subseteq Nat
  BY WorkloadAssumption DEF SourceRow
<1>1. ASSUME NEW t \in SourceTimes, NEW k \in EventKeys, ReadSource([ts |-> t, key |-> k])
      PROVE  LoadedInv'
  <2>1. stage = "loading" /\ stage' = stage /\ loaded' = Append(loaded, [ts |-> t, key |-> k])
    BY <1>1 DEF ReadSource
  <2>2. [ts |-> t, key |-> k] \in SourceRow /\ loaded \in Seq(SourceRow)
    BY <1>r, <2>1 DEF LoadedInv
  <2> HIDE DEF SourceRow
  <2>3. loaded' \in Seq(SourceRow)
    BY <2>1, <2>2, AppendProperties
  <2> QED BY <2>1, <2>3 DEF LoadedInv
<1>2. CASE SourceRead
  <2>1. CASE loaded = <<>>
    BY <1>2, <2>1 DEF SourceRead, LoadedInv
  <2>2. CASE loaded # <<>>
    <3>1. stage = "loading" /\ loaded' = Repeated /\ loaded \in Seq(SourceRow)
      BY <1>2, <2>2 DEF SourceRead, LoadedInv
    <3>2. TotalEvents \in Nat /\ Len(loaded) \in Nat \ {0}
      BY <2>2, <3>1, EventsCounted, EmptySeq
    <3>3. \A i \in 1..TotalEvents : ((i - 1) % Len(loaded)) + 1 \in 1..Len(loaded)
      BY <3>2
    <3>4. \A i \in 1..TotalEvents : loaded[((i - 1) % Len(loaded)) + 1] \in SourceRow
      BY <3>1, <3>3, ElementOfSeq
    <3>5. Repeated \in Seq(SourceRow) /\ Len(Repeated) = TotalEvents
      BY <3>2, <3>4 DEF Repeated
    <3> QED BY <3>1, <3>5 DEF LoadedInv
  <2> QED BY <2>1, <2>2
<1>3. CASE SchedulePhase
  BY <1>3 DEF SchedulePhase, LoadedInv, TotalEvents, Total, Phases
<1>4. CASE Scheduled
  BY <1>4 DEF Scheduled, LoadedInv
<1> QED BY <1>1, <1>2, <1>3, <1>4 DEF WorkNext

LEMMA ScheduleAdded ==
  ASSUME LoadedInv, ScheduleInv, SchedulePhase
  PROVE  ScheduleInv'
<1> DEFINE p == phase
           ne == PhaseSpecs[p].events
           nq == PhaseSpecs[p].queries
           dt == PhaseSpecs[p].evDt
           qt == PhaseSpecs[p].qDt
           moreE == PhaseEvents
<1>1. /\ stage = "scheduling" /\ p \in Phases /\ events' = events \o moreE
      /\ start' = start + PhaseLength /\ phase' = p + 1
  BY DEF SchedulePhase
<1>2. ne \in Nat \ {0} /\ dt \in Nat \ {0} /\ nq \in Nat /\ qt \in Nat /\ start \in Nat /\ p \in Nat
  BY <1>1, PhaseFacts DEF ScheduleInv
<1>3. /\ loaded \in Seq(SourceRow) /\ Len(loaded) = Before("events", PhaseCount)
      /\ events \in Seq(EventOp) /\ Len(events) = Before("events", p - 1)
  BY <1>1, BeforeFacts DEF LoadedInv, ScheduleInv, Stretched, TotalEvents
<1>4. Before("events", p) = Len(events) + ne /\ Before("events", p) <= Len(loaded)
  <2>1. p \in 0..PhaseCount /\ PhaseCount \in 0..PhaseCount /\ p <= PhaseCount
    BY <1>1, PhaseFacts
  <2> QED BY <1>1, <1>3, <2>1, BeforeFacts, BeforeGrows
<1>5. start <= start' /\ start' \in Nat
  /\ (\A i \in 1..ne : start + (i - 1) * dt \in Nat /\ start <= start + (i - 1) * dt /\ start + (i - 1) * dt < start')
  /\ (\A i \in 1..nq : start + (i - 1) * qt \in Nat /\ start <= start + (i - 1) * qt /\ start + (i - 1) * qt < start')
  <2> DEFINE e == (ne - 1) * dt
             q == IF nq = 0 THEN 0 ELSE (nq - 1) * qt
  <2>1. e \in Nat /\ q \in Nat
    BY <1>2
  <2>2. PhaseLength = (IF e >= q THEN e ELSE q) + dt
    BY <1>2 DEF PhaseLength, Offset, Current
  <2>3. \A i \in 1..ne : (i - 1) * dt \in Nat /\ (i - 1) * dt <= e
    BY <1>2
  <2>4. \A i \in 1..nq : (i - 1) * qt \in Nat /\ (i - 1) * qt <= q
    BY <1>2
  <2> HIDE DEF e, q, ne, nq, qt
  <2>5. start' = start + (IF e >= q THEN e ELSE q) + dt
    BY <1>1, <1>2, <2>1, <2>2
  <2>6. \A i \in 1..ne : start + (i - 1) * dt \in Nat /\ start <= start + (i - 1) * dt /\ start + (i - 1) * dt < start'
    <3> SUFFICES ASSUME NEW i \in 1..ne, NEW x \in Nat, x = (i - 1) * dt, x <= e
                 PROVE  start + x \in Nat /\ start <= start + x /\ start + x < start'
      BY <2>3
    <3> HIDE DEF dt
    <3> QED BY <1>2, <2>1, <2>5
  <2>7. \A i \in 1..nq : start + (i - 1) * qt \in Nat /\ start <= start + (i - 1) * qt /\ start + (i - 1) * qt < start'
    <3> SUFFICES ASSUME NEW i \in 1..nq, NEW x \in Nat, x = (i - 1) * qt, x <= q
                 PROVE  start + x \in Nat /\ start <= start + x /\ start + x < start'
      BY <2>4
    <3> HIDE DEF dt
    <3> QED BY <1>2, <2>1, <2>5
  <2>8. start <= start' /\ start' \in Nat
    <3> HIDE DEF dt
    <3> QED BY <1>2, <2>1, <2>5
  <2> QED BY <2>6, <2>7, <2>8
<1>6. /\ moreE \in Seq(EventOp) /\ Len(moreE) = ne
      /\ \A i \in 1..ne : moreE[i].phase = p /\ moreE[i].at = start + (i - 1) * dt
  <2>1. /\ moreE = [i \in 1..ne |-> [op |-> "event", phase |-> p, at |-> start + (i - 1) * dt,
                                     key |-> loaded[Len(events) + i].key, ts |-> loaded[Len(events) + i].ts]]
    BY DEF PhaseEvents, Current
  <2>2. ASSUME NEW i \in 1..ne PROVE moreE[i] \in EventOp
    <3>1. Len(events) + i \in 1..Len(loaded)
      BY <1>2, <1>3, <1>4
    <3>2. loaded[Len(events) + i] \in SourceRow
      BY <1>3, <3>1, ElementOfSeq
    <3>3. start + (i - 1) * dt \in Nat
      BY <1>5
    <3> QED BY <1>1, <2>1, <3>2, <3>3 DEF EventOp, SourceRow
  <2> HIDE DEF moreE
  <2>3. moreE = [i \in 1..ne |-> moreE[i]]
    BY <2>1
  <2>4. Len(moreE) = ne /\ moreE \in Seq(EventOp)
    BY <1>2, <2>2, <2>3
  <2> QED BY <2>1, <2>4
<1>7. PICK keys \in [1..nq -> ActiveKeys(events') \cup {ColdKey}] :
        queries' = queries \o
         [i \in 1..nq |->
            [op |-> "query", phase |-> p, at |-> start + (i - 1) * qt,
             key |-> keys[i], id |-> Len(queries) + i]]
  BY DEF SchedulePhase, Current
<1> DEFINE moreQ == [i \in 1..nq |->
            [op |-> "query", phase |-> p, at |-> start + (i - 1) * qt,
             key |-> keys[i], id |-> Len(queries) + i]]
<1> HIDE DEF moreE
<1>8. /\ events' \in Seq(EventOp)
      /\ PhaseGrown(events', events, moreE, "events", p, start, start')
  <2>1. \A o \in EventOp : o.phase \in Phases /\ o.at \in Nat
    BY DEF EventOp
  <2>2. \A j \in 1..Len(events) : /\ events[j].phase <= p - 1 /\ events[j].at < start
                                  /\ Before("events", events[j].phase - 1) < j
                                  /\ j <= Before("events", events[j].phase)
    BY DEF ScheduleInv, Stretched
  <2>3. \A i \in 1..Len(moreE) : moreE[i].phase = p /\ start <= moreE[i].at /\ moreE[i].at < start'
    BY <1>5, <1>6
  <2>4. Len(moreE) = PhaseSpecs[p]["events"]
    BY <1>6
  <2> DEFINE s == start'
  <2>5. s \in Nat /\ start <= s /\ \A i \in 1..Len(moreE) : moreE[i].at < s
    BY <1>5, <2>3
  <2> HIDE DEF s, p
  <2>6. events \o moreE \in Seq(EventOp) /\ PhaseGrown(events \o moreE, events, moreE, "events", p, start, s)
    BY <1>1, <1>2, <1>3, <1>6, <2>1, <2>2, <2>3, <2>4, <2>5, PhaseAdded
  <2> QED BY <1>1, <2>6 DEF s
<1>9. moreQ \in Seq(QueryOp) /\ Len(moreQ) = nq
      /\ \A i \in 1..nq : moreQ[i].phase = p /\ moreQ[i].at = start + (i - 1) * qt
  <2>1. ActiveKeys(events') \subseteq EventKeys
    <3>1. \A i \in 1..Len(events') : events'[i] \in EventOp
      BY <1>8, ElementOfSeq
    <3>2. DOMAIN events' = 1..Len(events')
      BY <1>8
    <3> QED BY <3>1, <3>2 DEF ActiveKeys, EventOp
  <2>2. ASSUME NEW i \in 1..nq PROVE moreQ[i] \in QueryOp
    <3>1. keys[i] \in SimKeys
      BY <1>7, <2>1 DEF SimKeys
    <3>2. Len(queries) + i \in Nat
      BY <1>2 DEF ScheduleInv
    <3>3. start + (i - 1) * qt \in Nat
      BY <1>5
    <3> QED BY <1>1, <3>1, <3>2, <3>3 DEF QueryOp
  <2>3. moreQ = [i \in 1..nq |-> moreQ[i]]
    OBVIOUS
  <2>4. \A i \in 1..nq : moreQ[i].phase = p /\ moreQ[i].at = start + (i - 1) * qt
    OBVIOUS
  <2> HIDE DEF moreQ, nq
  <2>5. Len(moreQ) = nq /\ moreQ \in Seq(QueryOp)
    BY <1>2, <2>2, <2>3
  <2> QED BY <2>4, <2>5
<1> HIDE DEF moreQ
<1>10. /\ queries' \in Seq(QueryOp)
      /\ PhaseGrown(queries', queries, moreQ, "queries", p, start, start')
  <2>1. \A o \in QueryOp : o.phase \in Phases /\ o.at \in Nat
    BY DEF QueryOp
  <2>2. /\ queries \in Seq(QueryOp) /\ Len(queries) = Before("queries", p - 1)
        /\ \A j \in 1..Len(queries) : /\ queries[j].phase <= p - 1 /\ queries[j].at < start
                                  /\ Before("queries", queries[j].phase - 1) < j
                                  /\ j <= Before("queries", queries[j].phase)
    BY DEF ScheduleInv, Stretched
  <2>3. \A i \in 1..Len(moreQ) : moreQ[i].phase = p /\ start <= moreQ[i].at /\ moreQ[i].at < start'
    BY <1>5, <1>9
  <2>4. Len(moreQ) = PhaseSpecs[p]["queries"]
    BY <1>9
  <2> DEFINE s == start'
  <2>5. s \in Nat /\ start <= s /\ \A i \in 1..Len(moreQ) : moreQ[i].at < s
    BY <1>5, <2>3
  <2> HIDE DEF s, p
  <2>6. queries \o moreQ \in Seq(QueryOp) /\ PhaseGrown(queries \o moreQ, queries, moreQ, "queries", p, start, s)
    BY <1>1, <1>2, <1>9, <2>1, <2>2, <2>3, <2>4, <2>5, PhaseAdded
  <2> QED BY <1>7, <2>6 DEF s, moreQ
<1>11. phase' \in 1..PhaseCount + 1
  BY <1>1, PhaseFacts DEF PhaseCount
<1>12. Stretched(events, "events")' /\ Stretched(queries, "queries")'
  <2>1. \A f, q : Before(f, q)' = Before(f, q)
    BY DEF Before
  <2>2. phase' - 1 = p
    BY <1>1, <1>2
  <2> HIDE DEF p
  <2>3. Stretched(events, "events")'
    BY <1>8, <2>1, <2>2 DEF Stretched, PhaseGrown
  <2>4. Stretched(queries, "queries")'
    BY <1>10, <2>1, <2>2 DEF Stretched, PhaseGrown
  <2> QED BY <2>3, <2>4
<1>13. ASSUME NEW a, NEW b, NEW x, NEW y, NEW A \in {EventOp, QueryOp}, NEW B \in {EventOp, QueryOp},
             Earlier(a, b), x \in Seq(A), y \in Seq(B), a \in Seq(A), b \in Seq(B),
             \A j \in 1..Len(a) : a[j].at < start,
             \A j \in 1..Len(x) : /\ x[j].phase <= p
                  /\ \/ j \in 1..Len(a) /\ x[j] = a[j]
                     \/ /\ x[j].phase = p /\ start <= x[j].at,
             \A j \in 1..Len(y) : /\ y[j].phase <= p
                  /\ \/ j \in 1..Len(b) /\ y[j] = b[j]
                     \/ /\ y[j].phase = p /\ start <= y[j].at
      PROVE  Earlier(x, y)
  <2> SUFFICES ASSUME NEW i \in 1..Len(x), NEW j \in 1..Len(y), x[i].phase < y[j].phase
               PROVE  x[i].at < y[j].at
    BY DEF Earlier
  <2>1. x[i] \in A /\ y[j] \in B
    BY <1>13, ElementOfSeq
  <2>a. \A o \in EventOp \cup QueryOp : o.phase \in Nat /\ o.at \in Nat
    BY PhaseFacts DEF EventOp, QueryOp
  <2>2. x[i].phase \in Nat /\ y[j].phase \in Nat /\ x[i].at \in Nat /\ y[j].at \in Nat
    BY <1>13, <2>1, <2>a
  <2>3. i \in 1..Len(a) /\ x[i] = a[i]
    BY <1>2, <1>13, <2>2
  <2>4. CASE j \in 1..Len(b) /\ y[j] = b[j]
    BY <1>13, <2>3, <2>4 DEF Earlier
  <2>5. CASE start <= y[j].at
    BY <1>2, <1>13, <2>2, <2>3, <2>5
  <2> QED BY <1>13, <2>4, <2>5
<1>14. /\ Earlier(events', events') /\ Earlier(events', queries')
       /\ Earlier(queries', events') /\ Earlier(queries', queries')
  <2> DEFINE e == events
             q == queries
             ee == events'
             qq == queries'
  <2>1. e \in Seq(EventOp) /\ q \in Seq(QueryOp) /\ ee \in Seq(EventOp) /\ qq \in Seq(QueryOp)
    BY <1>3, <1>8, <1>10 DEF ScheduleInv
  <2>2. /\ Earlier(e, e) /\ Earlier(e, q) /\ Earlier(q, e) /\ Earlier(q, q)
        /\ \A j \in 1..Len(e) : e[j].at < start
        /\ \A j \in 1..Len(q) : q[j].at < start
    BY DEF ScheduleInv, Stretched
  <2>3. \A j \in 1..Len(ee) : /\ ee[j].phase <= p
                  /\ \/ j \in 1..Len(e) /\ ee[j] = e[j]
                     \/ /\ ee[j].phase = p /\ start <= ee[j].at
    BY <1>8 DEF PhaseGrown
  <2>4. \A j \in 1..Len(qq) : /\ qq[j].phase <= p
                  /\ \/ j \in 1..Len(q) /\ qq[j] = q[j]
                     \/ /\ qq[j].phase = p /\ start <= qq[j].at
    BY <1>10 DEF PhaseGrown
  <2> HIDE DEF e, q, ee, qq, p
  <2>5. Earlier(ee, ee) /\ Earlier(ee, qq)
    BY <1>13, <2>1, <2>2, <2>3, <2>4
  <2>6. Earlier(qq, ee) /\ Earlier(qq, qq)
    BY <1>13, <2>1, <2>2, <2>3, <2>4
  <2> QED BY <2>5, <2>6 DEF ee, qq
<1>15. Earlier(events, events)' /\ Earlier(events, queries)' /\ Earlier(queries, events)' /\ Earlier(queries, queries)'
  BY <1>14 DEF Earlier
<1> QED BY <1>5, <1>8, <1>10, <1>11, <1>12, <1>15 DEF ScheduleInv, EventOp, QueryOp, PhaseCount
-----------------------------------------------------------------------------
(* A trace is a merge of the events with the queries, each in its order:  *)
(* fe and fq say where.                                                   *)
Ops == EventOp \cup QueryOp

MergedBy(T, fe, fq) ==
  /\ T \in Seq(Ops)
  /\ fe \in [1..Len(events) -> 1..Len(T)] /\ fq \in [1..Len(queries) -> 1..Len(T)]
  /\ \A j \in 1..Len(events) : T[fe[j]] = events[j]
  /\ \A j \in 1..Len(queries) : T[fq[j]] = queries[j]
  /\ \A i, j \in 1..Len(events) : i < j => fe[i] < fe[j]
  /\ \A i, j \in 1..Len(queries) : i < j => fq[i] < fq[j]
  /\ \A i \in 1..Len(T) : \/ \E j \in 1..Len(events) : fe[j] = i
                          \/ \E j \in 1..Len(queries) : fq[j] = i

(* The stretches of two phases do not overlap.                            *)
LEMMA StretchKnown ==
  ASSUME NEW field \in {"events", "queries"}, NEW p \in Phases, NEW q \in Phases, NEW j \in Int,
         Before(field, q - 1) < j, j <= Before(field, q)
  PROVE  /\ Before(field, p - 1) < j /\ j <= Before(field, p) <=> p = q
         /\ j <= Before(field, p) => q <= p
         /\ Before(field, p - 1) < j => p <= q
<1>1. p \in 0..PhaseCount /\ q \in 0..PhaseCount /\ p - 1 \in 0..PhaseCount /\ q - 1 \in 0..PhaseCount
      /\ p \in Int /\ q \in Int
  BY PhaseFacts
<1>2. /\ Before(field, p) \in Nat /\ Before(field, q) \in Nat
      /\ Before(field, p - 1) \in Nat /\ Before(field, q - 1) \in Nat
  BY <1>1, BeforeFacts
<1>3. p < q => Before(field, p) <= Before(field, q - 1)
  BY <1>1, BeforeGrows
<1>4. q < p => Before(field, q) <= Before(field, p - 1)
  BY <1>1, BeforeGrows
<1> QED BY <1>1, <1>2, <1>3, <1>4

(* The operations of one phase are those of its stretch.                  *)
LEMMA PhasePicked ==
  ASSUME NEW field \in {"events", "queries"}, NEW Op, NEW ops \in Seq(Op), NEW p \in Phases,
         \A o \in Op : o.phase \in Phases, WholeTrace, Stretched(ops, field)
  PROVE  /\ InPhase(ops, p) \in Seq(Op) /\ Len(InPhase(ops, p)) = PhaseSpecs[p][field]
         /\ \A j \in 1..PhaseSpecs[p][field] : InPhase(ops, p)[j] = ops[Before(field, p - 1) + j]
<1> DEFINE own == {i \in DOMAIN ops : ops[i].phase = p}
           a == Before(field, p - 1)
           b == Before(field, p)
<1>1. /\ p - 1 \in 0..PhaseCount /\ p \in 0..PhaseCount /\ PhaseCount \in 0..PhaseCount
      /\ phase - 1 = PhaseCount
  BY PhaseFacts DEF WholeTrace
<1>2. a \in Nat /\ b \in Nat /\ a <= b /\ b = a + PhaseSpecs[p][field] /\ b <= Len(ops)
  <2>1. PhaseSpecs[p][field] \in Nat
    BY PhaseFacts
  <2>2. b <= Before(field, PhaseCount)
    BY <1>1, BeforeGrows
  <2> QED BY <1>1, <2>1, <2>2, BeforeFacts DEF Stretched
<1>3. ASSUME NEW i \in 1..Len(ops) PROVE i \in own <=> a < i /\ i <= b
  <2> DEFINE q == ops[i].phase
  <2>1. q \in Phases
    BY ElementOfSeq
  <2>2. Before(field, q - 1) < i /\ i <= Before(field, q)
    BY DEF Stretched
  <2> HIDE DEF q
  <2>3. a < i /\ i <= b <=> p = q
    BY <2>1, <2>2, StretchKnown
  <2> QED BY <2>3 DEF q
<1> HIDE DEF a, b, own
<1>4. Picked(ops, own) \in Seq(Op) /\ StretchOf(Picked(ops, own), ops, a, b)
  BY <1>2, <1>3, PickedStretch
<1>5. b - a = PhaseSpecs[p][field]
  <2>1. PhaseSpecs[p][field] \in Nat
    BY PhaseFacts
  <2> QED BY <1>2, <2>1
<1>6. InPhase(ops, p) = Picked(ops, own)
  BY DEF InPhase, own
<1> QED BY <1>4, <1>5, <1>6 DEF a, StretchOf

LEMMA OpsTyped ==
  /\ EventOp \subseteq Ops /\ QueryOp \subseteq Ops
  /\ \A o \in Ops : o.phase \in Phases /\ o.at \in Nat /\ o.key \in SimKeys
  /\ \A o \in EventOp : o.op = "event" /\ o.ts \in Nat /\ o.phase \in Phases
  /\ \A o \in QueryOp : o.op = "query" /\ o.phase \in Phases
BY DEF Ops, EventOp, QueryOp, SimKeys

(* Where the operations of two kinds are, if they lie phase by phase, the *)
(* events (a: their phases, e: where a phase ends) before the queries.    *)
ByTurns(n, e, q, a, b, N, M, fe, fq) ==
  /\ n \in Nat /\ N \in Nat /\ M \in Nat /\ e[n] = N /\ q[n] = M
  /\ \A p \in 0..n : e[p] \in Nat /\ q[p] \in Nat
  /\ \A p, r \in 0..n : p <= r => e[p] <= e[r] /\ q[p] <= q[r]
  /\ \A j \in 1..N : a[j] \in 1..n /\ e[a[j] - 1] < j /\ j <= e[a[j]] /\ fe[j] = j + q[a[j] - 1]
  /\ \A j \in 1..M : b[j] \in 1..n /\ q[b[j] - 1] < j /\ j <= q[b[j]] /\ fq[j] = j + e[b[j]]

Merging(N, M, fe, fq) ==
  /\ \A j \in 1..N : fe[j] \in 1..N + M
  /\ \A j \in 1..M : fq[j] \in 1..N + M
  /\ \A i, j \in 1..N : i < j => fe[i] < fe[j]
  /\ \A i, j \in 1..M : i < j => fq[i] < fq[j]
  /\ \A i \in 1..N, j \in 1..M : fe[i] # fq[j]

LEMMA PlacesMerge ==
  ASSUME NEW n, NEW e, NEW q, NEW a, NEW b, NEW N, NEW M, NEW fe, NEW fq,
         ByTurns(n, e, q, a, b, N, M, fe, fq)
  PROVE  Merging(N, M, fe, fq)
<1>h. /\ n \in Nat /\ N \in Nat /\ M \in Nat /\ e[n] = N /\ q[n] = M
      /\ \A p \in 0..n : e[p] \in Nat /\ q[p] \in Nat
      /\ \A p, r \in 0..n : p <= r => e[p] <= e[r] /\ q[p] <= q[r]
      /\ \A j \in 1..N : a[j] \in 1..n /\ e[a[j] - 1] < j /\ j <= e[a[j]] /\ fe[j] = j + q[a[j] - 1]
      /\ \A j \in 1..M : b[j] \in 1..n /\ q[b[j] - 1] < j /\ j <= q[b[j]] /\ fq[j] = j + e[b[j]]
  BY DEF ByTurns
<1> USE <1>h
<1>1. \A p \in 1..n : p \in 0..n /\ p - 1 \in 0..n /\ p <= n /\ n \in 0..n
  OBVIOUS
<1>2. \A j \in 1..N : /\ a[j] \in 1..n /\ e[a[j] - 1] \in Nat /\ e[a[j]] \in Nat /\ e[a[j]] <= N
                       /\ q[a[j] - 1] \in Nat /\ q[a[j] - 1] <= M /\ q[a[j]] \in Nat
  BY <1>1
<1>3. \A j \in 1..M : /\ b[j] \in 1..n /\ q[b[j] - 1] \in Nat /\ q[b[j]] \in Nat /\ q[b[j]] <= M
                       /\ e[b[j]] \in Nat /\ e[b[j]] <= N /\ e[b[j] - 1] \in Nat
  BY <1>1
<1>4. \A j \in 1..N : fe[j] \in 1..N + M
  BY <1>2
<1>5. \A j \in 1..M : fq[j] \in 1..N + M
  BY <1>3
<1>6. ASSUME NEW i \in 1..N, NEW j \in 1..N, i < j PROVE fe[i] < fe[j]
  <2>1. a[i] <= a[j]
    <3> SUFFICES ASSUME a[j] < a[i] PROVE FALSE
      BY <1>2
    <3>1. a[j] \in 0..n /\ a[i] - 1 \in 0..n /\ a[j] <= a[i] - 1
      BY <1>2
    <3>2. e[a[j]] <= e[a[i] - 1] /\ e[a[i] - 1] \in Nat /\ e[a[j]] \in Nat
      BY <3>1
    <3> QED BY <1>6, <3>2
  <2>2. a[i] - 1 \in 0..n /\ a[j] - 1 \in 0..n /\ a[i] - 1 <= a[j] - 1
    BY <1>2, <2>1
  <2>3. q[a[i] - 1] <= q[a[j] - 1] /\ q[a[i] - 1] \in Nat /\ q[a[j] - 1] \in Nat
    BY <2>2
  <2> QED BY <1>6, <2>3
<1>7. ASSUME NEW i \in 1..M, NEW j \in 1..M, i < j PROVE fq[i] < fq[j]
  <2>1. b[i] <= b[j]
    <3> SUFFICES ASSUME b[j] < b[i] PROVE FALSE
      BY <1>3
    <3>1. b[j] \in 0..n /\ b[i] - 1 \in 0..n /\ b[j] <= b[i] - 1
      BY <1>3
    <3>2. q[b[j]] <= q[b[i] - 1] /\ q[b[i] - 1] \in Nat /\ q[b[j]] \in Nat
      BY <3>1
    <3> QED BY <1>7, <3>2
  <2>2. b[i] \in 0..n /\ b[j] \in 0..n
    BY <1>3
  <2>3. e[b[i]] <= e[b[j]] /\ e[b[i]] \in Nat /\ e[b[j]] \in Nat
    BY <2>1, <2>2
  <2> QED BY <1>7, <2>3
<1>8. ASSUME NEW i \in 1..N, NEW j \in 1..M, fe[i] = fq[j] PROVE FALSE
  <2> DEFINE p == a[i]
             r == b[j]
  <2>1. /\ p \in 1..n /\ r \in 1..n /\ e[p - 1] < i /\ i <= e[p] /\ q[r - 1] < j /\ j <= q[r]
        /\ i + q[p - 1] = j + e[r]
    BY <1>8
  <2> HIDE DEF p, r
  <2>2. p \in 0..n /\ r \in 0..n /\ p - 1 \in 0..n /\ r - 1 \in 0..n
    BY <2>1
  <2>3. CASE p <= r
    <3>1. e[p] <= e[r] /\ q[p - 1] <= q[r - 1]
      BY <2>1, <2>2, <2>3
    <3>2. e[p] \in Nat /\ e[r] \in Nat /\ q[p - 1] \in Nat /\ q[r - 1] \in Nat
      BY <2>2
    <3> QED BY <2>1, <3>1, <3>2
  <2>4. CASE ~(p <= r)
    <3>1. e[r] <= e[p - 1] /\ q[r] <= q[p - 1]
      BY <2>1, <2>2, <2>4
    <3>2. e[p - 1] \in Nat /\ e[r] \in Nat /\ q[p - 1] \in Nat /\ q[r] \in Nat
      BY <2>2
    <3> QED BY <2>1, <3>1, <3>2
  <2> QED BY <2>3, <2>4
<1> QED BY <1>4, <1>5, <1>6, <1>7, <1>8 DEF Merging

(* Every place is one of them.                                            *)
Covered(e, q, N, M, fe, fq, p, ne, nq, j) ==
  /\ j <= ne => e[p - 1] + j \in 1..N /\ fe[e[p - 1] + j] = e[p - 1] + q[p - 1] + j
  /\ ~(j <= ne) => /\ j - ne \in 1..nq /\ q[p - 1] + (j - ne) \in 1..M
                   /\ fq[q[p - 1] + (j - ne)] = e[p - 1] + q[p - 1] + j

LEMMA PlacesCovered ==
  ASSUME NEW n, NEW e, NEW q, NEW a, NEW b, NEW N, NEW M, NEW fe, NEW fq,
         ByTurns(n, e, q, a, b, N, M, fe, fq),
         NEW p \in 1..n, NEW ne \in Nat, NEW nq \in Nat,
         e[p] = e[p - 1] + ne, q[p] = q[p - 1] + nq, NEW j \in 1..ne + nq
  PROVE  Covered(e, q, N, M, fe, fq, p, ne, nq, j)
<1>h. /\ n \in Nat /\ N \in Nat /\ M \in Nat /\ e[n] = N /\ q[n] = M
      /\ \A x \in 0..n : e[x] \in Nat /\ q[x] \in Nat
      /\ \A x, r \in 0..n : x <= r => e[x] <= e[r] /\ q[x] <= q[r]
      /\ \A k \in 1..N : a[k] \in 1..n /\ e[a[k] - 1] < k /\ k <= e[a[k]] /\ fe[k] = k + q[a[k] - 1]
      /\ \A k \in 1..M : b[k] \in 1..n /\ q[b[k] - 1] < k /\ k <= q[b[k]] /\ fq[k] = k + e[b[k]]
  BY DEF ByTurns
<1> USE <1>h
<1>1. p \in 0..n /\ p - 1 \in 0..n /\ n \in 0..n /\ p <= n
  OBVIOUS
<1>2. e[p] \in Nat /\ q[p] \in Nat /\ e[p - 1] \in Nat /\ q[p - 1] \in Nat /\ e[p] <= N /\ q[p] <= M
  BY <1>1
<1>3. ASSUME j <= ne
      PROVE  e[p - 1] + j \in 1..N /\ fe[e[p - 1] + j] = e[p - 1] + q[p - 1] + j
  <2> DEFINE k == e[p - 1] + j
  <2>1. k \in 1..N /\ e[p - 1] < k /\ k <= e[p]
    BY <1>2, <1>3
  <2> HIDE DEF k
  <2> DEFINE r == a[k]
  <2>2. r \in 1..n /\ e[r - 1] < k /\ k <= e[r] /\ fe[k] = k + q[r - 1]
    BY <2>1
  <2> HIDE DEF r
  <2>3. r \in 0..n /\ r - 1 \in 0..n /\ e[r] \in Nat /\ e[r - 1] \in Nat /\ k \in Int
    BY <2>1, <2>2
  <2>4. ~(r <= p - 1)
    <3>1. r <= p - 1 => e[r] <= e[p - 1]
      BY <1>1, <2>3
    <3> QED BY <1>2, <2>1, <2>2, <2>3, <3>1
  <2>5. ~(p <= r - 1)
    <3>1. p <= r - 1 => e[p] <= e[r - 1]
      BY <1>1, <2>3
    <3> QED BY <1>2, <2>1, <2>2, <2>3, <3>1
  <2>6. r = p
    BY <2>2, <2>4, <2>5
  <2>7. fe[k] = k + q[p - 1]
    BY <2>2, <2>6
  <2> QED BY <1>2, <2>1, <2>7 DEF k
<1>4. ASSUME ~(j <= ne)
      PROVE  /\ j - ne \in 1..nq /\ q[p - 1] + (j - ne) \in 1..M
             /\ fq[q[p - 1] + (j - ne)] = e[p - 1] + q[p - 1] + j
  <2> DEFINE k == q[p - 1] + (j - ne)
  <2>1. j - ne \in 1..nq /\ k \in 1..M /\ q[p - 1] < k /\ k <= q[p]
    BY <1>2, <1>4
  <2> HIDE DEF k
  <2> DEFINE r == b[k]
  <2>2. r \in 1..n /\ q[r - 1] < k /\ k <= q[r] /\ fq[k] = k + e[r]
    BY <2>1
  <2> HIDE DEF r
  <2>3. r \in 0..n /\ r - 1 \in 0..n /\ q[r] \in Nat /\ q[r - 1] \in Nat /\ k \in Int
    BY <2>1, <2>2
  <2>4. ~(r <= p - 1)
    <3>1. r <= p - 1 => q[r] <= q[p - 1]
      BY <1>1, <2>3
    <3> QED BY <1>2, <2>1, <2>2, <2>3, <3>1
  <2>5. ~(p <= r - 1)
    <3>1. p <= r - 1 => q[p] <= q[r - 1]
      BY <1>1, <2>3
    <3> QED BY <1>2, <2>1, <2>2, <2>3, <3>1
  <2>6. r = p
    BY <2>2, <2>4, <2>5
  <2>7. fq[k] = k + e[p]
    BY <2>2, <2>6
  <2> QED BY <1>2, <2>1, <2>7 DEF k
<1> QED BY <1>3, <1>4 DEF Covered

(* Of one phase: its events, then its queries.                            *)
LEMMA PhaseRow ==
  ASSUME ScheduleInv, WholeTrace, NEW p \in Phases, NEW row,
         row = InPhase(events, p) \o InPhase(queries, p)
  PROVE  /\ row \in Seq(Ops)
         /\ Len(row) = PhaseSpecs[p]["events"] + PhaseSpecs[p]["queries"]
         /\ \A j \in 1..PhaseSpecs[p]["events"] + PhaseSpecs[p]["queries"] :
              row[j] = IF j <= PhaseSpecs[p]["events"] THEN events[Before("events", p - 1) + j]
                       ELSE queries[Before("queries", p - 1) + (j - PhaseSpecs[p]["events"])]
<1> DEFINE a == InPhase(events, p)
           b == InPhase(queries, p)
           ne == PhaseSpecs[p]["events"]
           nq == PhaseSpecs[p]["queries"]
<1>1. /\ a \in Seq(EventOp) /\ Len(a) = ne
      /\ \A j \in 1..ne : a[j] = events[Before("events", p - 1) + j]
  BY OpsTyped, PhasePicked DEF ScheduleInv
<1>2. /\ b \in Seq(QueryOp) /\ Len(b) = nq
      /\ \A j \in 1..nq : b[j] = queries[Before("queries", p - 1) + j]
  BY OpsTyped, PhasePicked DEF ScheduleInv
<1>3. row = a \o b /\ ne \in Nat /\ nq \in Nat
  BY PhaseFacts
<1>4. a \in Seq(Ops) /\ b \in Seq(Ops)
  BY <1>1, <1>2, OpsTyped
<1> HIDE DEF a, b, ne, nq
<1>5. /\ a \o b \in Seq(Ops) /\ Len(a \o b) = Len(a) + Len(b)
      /\ \A j \in 1..Len(a) + Len(b) : (a \o b)[j] = IF j <= Len(a) THEN a[j] ELSE b[j - Len(a)]
  BY <1>4, ConcatProperties
<1>6. ASSUME NEW j \in 1..ne + nq
      PROVE  row[j] = IF j <= ne THEN events[Before("events", p - 1) + j]
                      ELSE queries[Before("queries", p - 1) + (j - ne)]
  <2>1. CASE j <= ne
    <3>1. j \in 1..ne /\ row[j] = a[j]
      BY <1>1, <1>2, <1>3, <1>5, <2>1
    <3> QED BY <1>1, <2>1, <3>1
  <2>2. CASE ~(j <= ne)
    <3>1. j - ne \in 1..nq /\ row[j] = b[j - ne]
      BY <1>1, <1>2, <1>3, <1>5, <2>2
    <3> QED BY <1>2, <2>2, <3>1
  <2> QED BY <2>1, <2>2
<1> QED BY <1>1, <1>2, <1>3, <1>5, <1>6 DEF ne, nq

(* How many operations the phases up to one have.                         *)
Ends(field) == [p \in 0..PhaseCount |-> Before(field, p)]

LEMMA EndsFacts ==
  ASSUME NEW field \in {"events", "queries"}
  PROVE  /\ \A p \in 0..PhaseCount : Ends(field)[p] \in Nat /\ Ends(field)[p] = Before(field, p)
         /\ \A p, r \in 0..PhaseCount : p <= r => Ends(field)[p] <= Ends(field)[r]
         /\ \A p \in 1..PhaseCount : Ends(field)[p] = Ends(field)[p - 1] + PhaseSpecs[p][field]
         /\ Ends(field)[0] = 0
<1>1. \A p \in 0..PhaseCount : Ends(field)[p] = Before(field, p)
  BY DEF Ends
<1>2. \A p \in 1..PhaseCount : p \in 0..PhaseCount /\ p - 1 \in 0..PhaseCount /\ p \in Phases
  BY PhaseFacts
<1>3. 0 \in 0..PhaseCount
  BY PhaseFacts
<1> QED BY <1>1, <1>2, <1>3, BeforeFacts, BeforeGrows

LEMMA StretchEnds ==
  ASSUME NEW field \in {"events", "queries"}, NEW Op, NEW ops \in Seq(Op), WholeTrace,
         \A o \in Op : o.phase \in Phases, Stretched(ops, field)
  PROVE  /\ Len(ops) \in Nat /\ Len(ops) = Ends(field)[PhaseCount]
         /\ \A j \in 1..Len(ops) : /\ ops[j].phase \in 1..PhaseCount
                                    /\ Ends(field)[ops[j].phase - 1] < j
                                    /\ j <= Ends(field)[ops[j].phase]
<1>1. Phases = 1..PhaseCount /\ PhaseCount \in 0..PhaseCount /\ phase - 1 = PhaseCount
  BY PhaseFacts DEF WholeTrace
<1>2. Len(ops) \in Nat /\ Len(ops) = Ends(field)[PhaseCount]
  BY <1>1, EndsFacts DEF Stretched
<1>3. ASSUME NEW j \in 1..Len(ops)
      PROVE  /\ ops[j].phase \in 1..PhaseCount
             /\ Ends(field)[ops[j].phase - 1] < j
             /\ j <= Ends(field)[ops[j].phase]
  <2>1. ops[j].phase \in 1..PhaseCount
    BY <1>1, ElementOfSeq
  <2> DEFINE r == ops[j].phase
  <2>2. r \in 0..PhaseCount /\ r - 1 \in 0..PhaseCount
    BY <1>1, <2>1
  <2>3. Before(field, r - 1) < j /\ j <= Before(field, r)
    BY DEF Stretched
  <2> HIDE DEF r
  <2>4. Ends(field)[r - 1] < j /\ j <= Ends(field)[r]
    BY <2>2, <2>3, EndsFacts
  <2> QED BY <2>1, <2>4 DEF r
<1> QED BY <1>2, <1>3

(* The trace of a trial by phases.                                        *)
PlacedBy(fe, fq) ==
  /\ \A j \in 1..Len(events) : fe[j] = j + Ends("queries")[events[j].phase - 1]
  /\ \A j \in 1..Len(queries) : fq[j] = j + Ends("events")[queries[j].phase]

LEMMA PhasesMerged ==
  ASSUME ScheduleInv, WholeTrace
  PROVE  \E fe, fq : MergedBy(ByPhase, fe, fq) /\ PlacedBy(fe, fq)
<1> DEFINE n == PhaseCount
           e == Ends("events")
           q == Ends("queries")
           ne == [p \in 1..n |-> PhaseSpecs[p]["events"]]
           nq == [p \in 1..n |-> PhaseSpecs[p]["queries"]]
           N == Len(events)
           M == Len(queries)
           a == [j \in 1..N |-> events[j].phase]
           b == [j \in 1..M |-> queries[j].phase]
           rows == [p \in 1..n |-> InPhase(events, p) \o InPhase(queries, p)]
           ends == [p \in 0..n |-> e[p] + q[p]]
           T == ByPhase
           fe == [j \in 1..N |-> j + q[a[j] - 1]]
           fq == [j \in 1..M |-> j + e[b[j]]]
<1>1. n \in Nat /\ n > 0 /\ Phases = 1..n
  BY PhaseFacts
<1>2. /\ \A p \in 0..n : e[p] \in Nat /\ q[p] \in Nat
      /\ \A p, r \in 0..n : p <= r => e[p] <= e[r] /\ q[p] <= q[r]
      /\ e[0] = 0 /\ q[0] = 0
  <2>1. /\ \A p \in 0..n : e[p] \in Nat
        /\ \A p, r \in 0..n : p <= r => e[p] <= e[r]
        /\ e[0] = 0
    BY EndsFacts
  <2>2. /\ \A p \in 0..n : q[p] \in Nat
        /\ \A p, r \in 0..n : p <= r => q[p] <= q[r]
        /\ q[0] = 0
    BY EndsFacts
  <2> HIDE DEF e, q, n
  <2> QED BY <2>1, <2>2
<1>3. \A p \in 1..n : /\ e[p] = e[p - 1] + ne[p] /\ q[p] = q[p - 1] + nq[p]
                       /\ ne[p] \in Nat /\ nq[p] \in Nat
  <2>1. \A p \in 1..n : ne[p] = PhaseSpecs[p]["events"] /\ nq[p] = PhaseSpecs[p]["queries"]
    OBVIOUS
  <2>2. \A p \in 1..n : ne[p] \in Nat /\ nq[p] \in Nat
    BY <1>1, PhaseFacts
  <2>3. /\ \A p \in 1..n : e[p] = e[p - 1] + PhaseSpecs[p]["events"]
        /\ \A p \in 1..n : q[p] = q[p - 1] + PhaseSpecs[p]["queries"]
    BY EndsFacts
  <2> HIDE DEF e, q, ne, nq, n
  <2> QED BY <2>1, <2>2, <2>3
<1>4. /\ N \in Nat /\ e[n] = N /\ events \in Seq(Ops)
      /\ \A j \in 1..N : a[j] \in 1..n /\ e[a[j] - 1] < j /\ j <= e[a[j]] /\ fe[j] = j + q[a[j] - 1]
  <2>1. /\ Len(events) \in Nat /\ Len(events) = e[PhaseCount]
        /\ \A j \in 1..Len(events) : /\ events[j].phase \in 1..PhaseCount
                                      /\ e[events[j].phase - 1] < j
                                      /\ j <= e[events[j].phase]
    BY StretchEnds, OpsTyped DEF ScheduleInv
  <2>2. events \in Seq(Ops)
    BY OpsTyped DEF ScheduleInv
  <2>3. \A j \in 1..N : a[j] = events[j].phase /\ fe[j] = j + q[a[j] - 1]
    OBVIOUS
  <2> HIDE DEF a, fe, e, q
  <2> QED BY <2>1, <2>2, <2>3
<1>5. /\ M \in Nat /\ q[n] = M /\ queries \in Seq(Ops)
      /\ \A j \in 1..M : b[j] \in 1..n /\ q[b[j] - 1] < j /\ j <= q[b[j]] /\ fq[j] = j + e[b[j]]
  <2>1. /\ Len(queries) \in Nat /\ Len(queries) = q[PhaseCount]
        /\ \A j \in 1..Len(queries) : /\ queries[j].phase \in 1..PhaseCount
                                      /\ q[queries[j].phase - 1] < j
                                      /\ j <= q[queries[j].phase]
    BY StretchEnds, OpsTyped DEF ScheduleInv
  <2>2. queries \in Seq(Ops)
    BY OpsTyped DEF ScheduleInv
  <2>3. \A j \in 1..M : b[j] = queries[j].phase /\ fq[j] = j + e[b[j]]
    OBVIOUS
  <2> HIDE DEF b, fq, e, q
  <2> QED BY <2>1, <2>2, <2>3
<1>6. \A p \in 1..n :
        /\ rows[p] \in Seq(Ops) /\ Len(rows[p]) = ne[p] + nq[p]
        /\ \A j \in 1..ne[p] + nq[p] :
             rows[p][j] = IF j <= ne[p] THEN events[e[p - 1] + j] ELSE queries[q[p - 1] + (j - ne[p])]
  <2> SUFFICES ASSUME NEW p \in 1..n
               PROVE  /\ rows[p] \in Seq(Ops) /\ Len(rows[p]) = ne[p] + nq[p]
                      /\ \A j \in 1..ne[p] + nq[p] :
                           rows[p][j] = IF j <= ne[p] THEN events[e[p - 1] + j]
                                        ELSE queries[q[p - 1] + (j - ne[p])]
    OBVIOUS
  <2>1. rows[p] = InPhase(events, p) \o InPhase(queries, p) /\ p \in Phases
    BY <1>1
  <2>2. p - 1 \in 0..n
    BY <1>1
  <2>3. e[p - 1] = Before("events", p - 1) /\ q[p - 1] = Before("queries", p - 1)
    BY <2>2, EndsFacts
  <2>4. ne[p] = PhaseSpecs[p]["events"] /\ nq[p] = PhaseSpecs[p]["queries"]
    OBVIOUS
  <2> DEFINE row == rows[p]
  <2> HIDE DEF rows, e, q, ne, nq, row
  <2>5. /\ row \in Seq(Ops)
        /\ Len(row) = PhaseSpecs[p]["events"] + PhaseSpecs[p]["queries"]
        /\ \A j \in 1..PhaseSpecs[p]["events"] + PhaseSpecs[p]["queries"] :
             row[j] = IF j <= PhaseSpecs[p]["events"] THEN events[Before("events", p - 1) + j]
                      ELSE queries[Before("queries", p - 1) + (j - PhaseSpecs[p]["events"])]
    BY <2>1, PhaseRow DEF row
  <2> QED BY <2>3, <2>4, <2>5 DEF row
<1>7. fe = [j \in 1..N |-> fe[j]] /\ fq = [j \in 1..M |-> fq[j]]
  OBVIOUS
<1>p. PlacedBy(fe, fq)
  BY DEF PlacedBy
<1>8. rows = [p \in 1..n |-> rows[p]] /\ T = FlattenSeq(rows) /\ \A p \in 0..n : ends[p] = e[p] + q[p]
  BY <1>1 DEF ByPhase
<1> HIDE DEF n, e, q, ne, nq, N, M, a, b, rows, ends, T, fe, fq
<1>9. rows \in Seq(Seq(Ops)) /\ Len(rows) = n
  BY <1>1, <1>6, <1>8
<1>10. EndsOf(rows, ends)
  <2>1. 0 \in 0..n /\ \A p \in 1..n : p \in 0..n /\ p - 1 \in 0..n
    BY <1>1
  <2>2. ends[0] = 0 /\ \A p \in 0..n : ends[p] \in Int
    BY <1>2, <1>8, <2>1
  <2>3. \A p \in 1..n : Len(rows[p]) = ne[p] + nq[p]
    BY <1>6
  <2>4. ASSUME NEW p \in 1..n PROVE ends[p] = ends[p - 1] + Len(rows[p])
    <3>1. p \in 0..n /\ p - 1 \in 0..n
      BY <2>1
    <3>2. ends[p] = e[p] + q[p] /\ ends[p - 1] = e[p - 1] + q[p - 1]
      BY <1>8, <3>1
    <3>3. e[p - 1] \in Nat /\ q[p - 1] \in Nat /\ Len(rows[p]) = ne[p] + nq[p]
      BY <1>2, <2>3, <3>1
    <3>4. e[p] = e[p - 1] + ne[p] /\ q[p] = q[p - 1] + nq[p] /\ ne[p] \in Nat /\ nq[p] \in Nat
      BY <1>3
    <3> QED BY <3>2, <3>3, <3>4
  <2> QED BY <1>9, <2>2, <2>4 DEF EndsOf
<1>11. T \in Seq(Ops) /\ LaidOut(T, rows, ends)
  BY <1>1, <1>8, <1>9, <1>10, FlattenLayout
<1>12. Len(T) = N + M
  <2>1. n \in 0..n
    BY <1>1
  <2> QED BY <1>4, <1>5, <1>8, <1>9, <1>11, <2>1 DEF LaidOut
<1>t. ByTurns(n, e, q, a, b, N, M, fe, fq)
  BY <1>1, <1>2, <1>4, <1>5 DEF ByTurns
<1>13. /\ \A j \in 1..N : fe[j] \in 1..N + M
       /\ \A j \in 1..M : fq[j] \in 1..N + M
       /\ \A i, j \in 1..N : i < j => fe[i] < fe[j]
       /\ \A i, j \in 1..M : i < j => fq[i] < fq[j]
       /\ \A i \in 1..N, j \in 1..M : fe[i] # fq[j]
  BY <1>t, PlacesMerge DEF Merging
<1>14. ASSUME NEW i \in 1..Len(T)
       PROVE  \/ \E j \in 1..N : fe[j] = i /\ T[i] = events[j]
              \/ \E j \in 1..M : fq[j] = i /\ T[i] = queries[j]
  <2>a. PICK p \in 1..n : \E j \in 1..Len(rows[p]) : i = ends[p - 1] + j /\ T[i] = rows[p][j]
    BY <1>9, <1>11 DEF LaidOut
  <2>1. PICK j \in 1..Len(rows[p]) : i = ends[p - 1] + j /\ T[i] = rows[p][j]
    BY <2>a
  <2>2. /\ ne[p] \in Nat /\ nq[p] \in Nat /\ Len(rows[p]) = ne[p] + nq[p] /\ j \in 1..ne[p] + nq[p]
        /\ e[p] = e[p - 1] + ne[p] /\ q[p] = q[p - 1] + nq[p] /\ p - 1 \in 0..n
    BY <1>1, <1>3, <1>6
  <2>3. i = e[p - 1] + q[p - 1] + j
    BY <1>8, <2>1, <2>2
  <2>4. /\ j <= ne[p] => e[p - 1] + j \in 1..N /\ fe[e[p - 1] + j] = e[p - 1] + q[p - 1] + j
        /\ ~(j <= ne[p]) => /\ j - ne[p] \in 1..nq[p] /\ q[p - 1] + (j - ne[p]) \in 1..M
                            /\ fq[q[p - 1] + (j - ne[p])] = e[p - 1] + q[p - 1] + j
    <3>1. Covered(e, q, N, M, fe, fq, p, ne[p], nq[p], j)
      BY <1>t, <2>2, PlacesCovered
    <3> QED BY <3>1 DEF Covered
  <2>5. rows[p][j] = IF j <= ne[p] THEN events[e[p - 1] + j] ELSE queries[q[p - 1] + (j - ne[p])]
    BY <1>6, <2>2
  <2>6. CASE j <= ne[p]
    BY <2>1, <2>3, <2>4, <2>5, <2>6
  <2>7. CASE ~(j <= ne[p])
    BY <2>1, <2>3, <2>4, <2>5, <2>7
  <2> QED BY <2>6, <2>7
<1>15. ASSUME NEW j \in 1..N PROVE T[fe[j]] = events[j]
  <2>1. fe[j] \in 1..Len(T)
    BY <1>12, <1>13
  <2>2. CASE \E k \in 1..N : fe[k] = fe[j] /\ T[fe[j]] = events[k]
    <3>1. PICK k \in 1..N : fe[k] = fe[j] /\ T[fe[j]] = events[k]
      BY <2>2
    <3>2. \A x \in 1..N : fe[x] \in Int /\ x \in Int
      BY <1>13
    <3>3. ~(k < j) /\ ~(j < k)
      BY <1>13, <3>1, <3>2
    <3>4. k = j
      BY <3>2, <3>3
    <3> QED BY <3>1, <3>4
  <2>3. CASE \E k \in 1..M : fq[k] = fe[j]
    BY <1>13, <2>3
  <2> QED BY <1>14, <2>1, <2>2, <2>3
<1>16. ASSUME NEW j \in 1..M PROVE T[fq[j]] = queries[j]
  <2>1. fq[j] \in 1..Len(T)
    BY <1>12, <1>13
  <2>2. CASE \E k \in 1..M : fq[k] = fq[j] /\ T[fq[j]] = queries[k]
    <3>1. PICK k \in 1..M : fq[k] = fq[j] /\ T[fq[j]] = queries[k]
      BY <2>2
    <3>2. \A x \in 1..M : fq[x] \in Int /\ x \in Int
      BY <1>13
    <3>3. ~(k < j) /\ ~(j < k)
      BY <1>13, <3>1, <3>2
    <3>4. k = j
      BY <3>2, <3>3
    <3> QED BY <3>1, <3>4
  <2>3. CASE \E k \in 1..N : fe[k] = fq[j]
    BY <1>13, <2>3
  <2> QED BY <1>14, <2>1, <2>2, <2>3
<1>17. fe \in [1..N -> 1..Len(T)] /\ fq \in [1..M -> 1..Len(T)]
  BY <1>7, <1>12, <1>13
<1>18. ASSUME NEW i \in 1..Len(T)
       PROVE  (\E j \in 1..N : fe[j] = i) \/ (\E j \in 1..M : fq[j] = i)
  BY <1>14
<1>19. MergedBy(T, fe, fq)
  BY <1>11, <1>13, <1>15, <1>16, <1>17, <1>18 DEF MergedBy, N, M
<1> QED BY <1>19, <1>p DEF T
-----------------------------------------------------------------------------
(* How many of the places of one kind are among the first i.              *)
Cut(f, N, i, e) == \A j \in 1..N : f[j] <= i <=> j <= e

CountedBy(f, n, N, E) ==
  /\ E \in [0..n -> 0..N] /\ E[0] = 0 /\ E[n] = N
  /\ \A i \in 1..n : /\ (\E j \in 1..N : f[j] = i) => E[i] = E[i - 1] + 1 /\ f[E[i]] = i
                     /\ ~(\E j \in 1..N : f[j] = i) => E[i] = E[i - 1]

LEMMA PlacesCounted ==
  ASSUME NEW n \in Nat, NEW N \in Nat, NEW f \in [1..N -> 1..n],
         \A i, j \in 1..N : i < j => f[i] < f[j]
  PROVE  \E E : CountedBy(f, n, N, E)
<1> DEFINE T == {i \in 0..n : \E e \in 0..N : Cut(f, N, i, e)}
           E == [i \in 0..n |-> CHOOSE e \in 0..N : Cut(f, N, i, e)]
<1>0. \A j \in 1..N : f[j] \in 1..n
  OBVIOUS
<1>1. ASSUME NEW i \in 0..n, NEW e \in 0..N, NEW d \in 0..N, Cut(f, N, i, e), Cut(f, N, i, d)
      PROVE  e = d
  <2>1. ~(e < d)
    <3>1. e < d => d \in 1..N /\ d <= d /\ ~(d <= e)
      OBVIOUS
    <3> QED BY <1>1, <3>1 DEF Cut
  <2>2. ~(d < e)
    <3>1. d < e => e \in 1..N /\ e <= e /\ ~(e <= d)
      OBVIOUS
    <3> QED BY <1>1, <3>1 DEF Cut
  <2> QED BY <2>1, <2>2
<1>2. Cut(f, N, 0, 0)
  BY <1>0 DEF Cut
<1>3. ASSUME NEW i \in 0..(n - 1), NEW e \in 0..N, Cut(f, N, i, e), NEW j \in 1..N, f[j] = i + 1
      PROVE  j = e + 1 /\ Cut(f, N, i + 1, j)
  <2>1. ~(j <= e)
    BY <1>3, <1>0 DEF Cut
  <2>2. ~(e + 1 < j)
    <3> SUFFICES ASSUME e + 1 < j PROVE FALSE
      OBVIOUS
    <3>1. e + 1 \in 1..N /\ f[e + 1] < f[j]
      OBVIOUS
    <3>2. f[e + 1] <= i
      BY <1>0, <1>3, <3>1
    <3> QED BY <1>3, <3>1, <3>2 DEF Cut
  <2>3. ASSUME NEW k \in 1..N PROVE f[k] <= i + 1 <=> k <= j
    <3>1. k < j => f[k] < f[j]
      OBVIOUS
    <3>2. j < k => f[j] < f[k]
      OBVIOUS
    <3> QED BY <1>0, <1>3, <3>1, <3>2
  <2> QED BY <2>1, <2>2, <2>3 DEF Cut
<1>4. ASSUME NEW i \in 0..(n - 1), NEW e \in 0..N, Cut(f, N, i, e),
             \A j \in 1..N : f[j] # i + 1
      PROVE  Cut(f, N, i + 1, e)
  <2>1. ASSUME NEW j \in 1..N PROVE f[j] <= i + 1 <=> f[j] <= i
    <3>1. f[j] \in 1..n /\ f[j] # i + 1
      BY <1>0, <1>4
    <3> QED BY <3>1
  <2> QED BY <1>4, <2>1 DEF Cut
<1>5. \A i \in 0..n : i \in T
  <2>1. 0 \in T
    BY <1>2
  <2>2. ASSUME NEW i \in 0..(n - 1), i \in T PROVE i + 1 \in T
    <3>1. PICK e \in 0..N : Cut(f, N, i, e)
      BY <2>2
    <3>2. CASE \E j \in 1..N : f[j] = i + 1
      BY <1>3, <3>1, <3>2
    <3>3. CASE \A j \in 1..N : f[j] # i + 1
      BY <1>4, <3>1, <3>3
    <3> QED BY <3>2, <3>3
  <2> HIDE DEF T
  <2> QED BY <2>1, <2>2, UpTo
<1>6. \A i \in 0..n : E[i] \in 0..N /\ Cut(f, N, i, E[i])
  BY <1>5
<1>7. E \in [0..n -> 0..N]
  BY <1>6
<1> HIDE DEF E, T
<1>8. E[0] = 0
  BY <1>1, <1>2, <1>6
<1>9. E[n] = N
  <2>1. Cut(f, N, n, N)
    BY <1>0 DEF Cut
  <2> QED BY <1>1, <1>6, <2>1
<1>10. ASSUME NEW i \in 1..n, NEW j \in 1..N, f[j] = i
       PROVE  E[i] = E[i - 1] + 1 /\ f[E[i]] = i
  <2>1. i - 1 \in 0..(n - 1) /\ (i - 1) + 1 = i /\ i - 1 \in 0..n /\ i \in 0..n
    OBVIOUS
  <2>2. j = E[i - 1] + 1 /\ Cut(f, N, i, j)
    <3>1. PICK h \in 0..(n - 1) : h = i - 1
      BY <2>1
    <3>2. h + 1 = i /\ E[h] \in 0..N /\ Cut(f, N, h, E[h]) /\ f[j] = h + 1
      BY <1>6, <1>10, <2>1, <3>1
    <3>3. j = E[h] + 1 /\ Cut(f, N, h + 1, j)
      BY <1>3, <3>2
    <3> QED BY <3>1, <3>2, <3>3
  <2>3. E[i] = j
    BY <1>1, <1>6, <2>1, <2>2
  <2> QED BY <1>10, <2>2, <2>3
<1>11. ASSUME NEW i \in 1..n, ~(\E j \in 1..N : f[j] = i)
       PROVE  E[i] = E[i - 1]
  <2>1. i - 1 \in 0..(n - 1) /\ (i - 1) + 1 = i /\ i - 1 \in 0..n /\ i \in 0..n
    OBVIOUS
  <2>2. Cut(f, N, i, E[i - 1])
    <3>1. PICK h \in 0..(n - 1) : h = i - 1
      BY <2>1
    <3>2. h + 1 = i /\ E[h] \in 0..N /\ Cut(f, N, h, E[h]) /\ \A j \in 1..N : f[j] # h + 1
      BY <1>6, <1>11, <2>1, <3>1
    <3>3. Cut(f, N, h + 1, E[h])
      BY <1>4, <3>2
    <3> QED BY <3>1, <3>2, <3>3
  <2> QED BY <1>1, <1>6, <2>1, <2>2
<1> QED BY <1>7, <1>8, <1>9, <1>10, <1>11 DEF CountedBy

(* A trace takes the events and the queries one by one, in their order.   *)
TakesEvent(T, E, Q, i) ==
  /\ T[i].op = "event" /\ T[i] \in EventOp /\ E[i] = E[i - 1] + 1 /\ Q[i] = Q[i - 1] /\ T[i] = events[E[i]]

TakesQuery(T, E, Q, i) ==
  /\ T[i].op = "query" /\ T[i] \in QueryOp /\ Q[i] = Q[i - 1] + 1 /\ E[i] = E[i - 1] /\ T[i] = queries[Q[i]]

Interleaved(T, E, Q) ==
  /\ Len(T) \in Nat
  /\ E \in [0..Len(T) -> 0..Len(events)] /\ E[0] = 0 /\ E[Len(T)] = Len(events)
  /\ Q \in [0..Len(T) -> 0..Len(queries)] /\ Q[0] = 0 /\ Q[Len(T)] = Len(queries)
  /\ \A i \in 1..Len(T) : TakesEvent(T, E, Q, i) \/ TakesQuery(T, E, Q, i)

LEMMA MergeIsInterleaved ==
  ASSUME ScheduleInv, NEW T, NEW fe, NEW fq, MergedBy(T, fe, fq)
  PROVE  \E E, Q : Interleaved(T, E, Q)
<1> DEFINE n == Len(T)
           N == Len(events)
           M == Len(queries)
<1>1. n \in Nat /\ N \in Nat /\ M \in Nat
  BY DEF MergedBy, ScheduleInv
<1>m. /\ fe \in [1..N -> 1..n] /\ fq \in [1..M -> 1..n]
      /\ \A j \in 1..N : T[fe[j]] = events[j]
      /\ \A j \in 1..M : T[fq[j]] = queries[j]
      /\ \A i, j \in 1..N : i < j => fe[i] < fe[j]
      /\ \A i, j \in 1..M : i < j => fq[i] < fq[j]
      /\ \A i \in 1..n : (\E j \in 1..N : fe[j] = i) \/ (\E j \in 1..M : fq[j] = i)
  BY DEF MergedBy
<1>e. \A j \in 1..N : events[j] \in EventOp /\ events[j].op = "event"
  BY OpsTyped, ElementOfSeq DEF ScheduleInv
<1>q. \A j \in 1..M : queries[j] \in QueryOp /\ queries[j].op = "query"
  BY OpsTyped, ElementOfSeq DEF ScheduleInv
<1> HIDE DEF n, N, M
<1>2. PICK E : CountedBy(fe, n, N, E)
  BY <1>1, <1>m, PlacesCounted
<1>3. PICK Q : CountedBy(fq, n, M, Q)
  BY <1>1, <1>m, PlacesCounted
<1>4. ASSUME NEW i \in 1..n PROVE TakesEvent(T, E, Q, i) \/ TakesQuery(T, E, Q, i)
  <2>0. i \in 0..n /\ i - 1 \in 0..n
    BY <1>1
  <2>1. E[i] \in 0..N /\ Q[i] \in 0..M /\ E[i - 1] \in 0..N /\ Q[i - 1] \in 0..M
    BY <1>2, <1>3, <2>0 DEF CountedBy
  <2>2. CASE \E j \in 1..N : fe[j] = i
    <3>1. PICK j \in 1..N : fe[j] = i
      BY <2>2
    <3>2. T[i].op = "event"
      BY <1>m, <1>e, <3>1
    <3>3. ~(\E k \in 1..M : fq[k] = i)
      BY <1>m, <1>q, <3>2
    <3>4. E[i] = E[i - 1] + 1 /\ fe[E[i]] = i /\ Q[i] = Q[i - 1]
      BY <1>2, <1>3, <2>2, <3>3 DEF CountedBy
    <3>5. E[i] \in 1..N
      BY <2>1, <3>4
    <3>6. T[i] = events[E[i]] /\ T[i] \in EventOp
      BY <1>m, <1>e, <3>4, <3>5
    <3> QED BY <3>2, <3>4, <3>6 DEF TakesEvent
  <2>3. CASE ~(\E j \in 1..N : fe[j] = i)
    <3>1. PICK j \in 1..M : fq[j] = i
      BY <1>m, <2>3
    <3>4. Q[i] = Q[i - 1] + 1 /\ fq[Q[i]] = i /\ E[i] = E[i - 1]
      BY <1>2, <1>3, <2>3, <3>1 DEF CountedBy
    <3>5. Q[i] \in 1..M
      BY <2>1, <3>4
    <3>6. T[i] = queries[Q[i]] /\ T[i] \in QueryOp /\ T[i].op = "query"
      BY <1>m, <1>q, <3>4, <3>5
    <3> QED BY <3>4, <3>6 DEF TakesQuery
  <2> QED BY <2>2, <2>3
<1> QED BY <1>1, <1>2, <1>3, <1>4 DEF Interleaved, CountedBy, n, N, M
-----------------------------------------------------------------------------
(* The trace of the tuning: the events, then the queries.                 *)
LEMMA TuningMerged ==
  ASSUME ScheduleInv
  PROVE  \E fe, fq : MergedBy(events \o queries, fe, fq)
<1> DEFINE N == Len(events)
           M == Len(queries)
           T == events \o queries
           fe == [j \in 1..N |-> j]
           fq == [j \in 1..M |-> N + j]
<1>1. N \in Nat /\ M \in Nat /\ events \in Seq(Ops) /\ queries \in Seq(Ops)
  BY OpsTyped DEF ScheduleInv
<1>2. /\ T \in Seq(Ops) /\ Len(T) = N + M
      /\ \A j \in 1..N + M : T[j] = IF j <= N THEN events[j] ELSE queries[j - N]
  BY <1>1, ConcatProperties
<1>3. \A j \in 1..N : fe[j] = j
  OBVIOUS
<1>4. \A j \in 1..M : fq[j] = N + j
  OBVIOUS
<1>5. fe = [j \in 1..N |-> fe[j]] /\ fq = [j \in 1..M |-> fq[j]]
  OBVIOUS
<1> HIDE DEF N, M, T, fe, fq
<1>6. fe \in [1..N -> 1..Len(T)] /\ fq \in [1..M -> 1..Len(T)]
  <2>1. \A j \in 1..N : fe[j] \in 1..Len(T)
    BY <1>1, <1>2, <1>3
  <2>2. \A j \in 1..M : fq[j] \in 1..Len(T)
    BY <1>1, <1>2, <1>4
  <2> QED BY <1>5, <2>1, <2>2
<1>7. \A j \in 1..N : T[fe[j]] = events[j]
  BY <1>1, <1>2, <1>3
<1>8. \A j \in 1..M : T[fq[j]] = queries[j]
  <2> SUFFICES ASSUME NEW j \in 1..M PROVE T[fq[j]] = queries[j]
    OBVIOUS
  <2>1. N + j \in 1..N + M /\ ~(N + j <= N) /\ (N + j) - N = j
    BY <1>1
  <2> QED BY <1>2, <1>4, <2>1
<1>9. ASSUME NEW i \in 1..Len(T)
      PROVE  (\E j \in 1..N : fe[j] = i) \/ (\E j \in 1..M : fq[j] = i)
  <2>1. CASE i <= N
    <3>1. i \in 1..N
      BY <1>1, <2>1
    <3> QED BY <1>3, <3>1
  <2>2. CASE ~(i <= N)
    <3>1. i - N \in 1..M /\ N + (i - N) = i
      BY <1>1, <1>2, <2>2
    <3> QED BY <1>4, <3>1
  <2> QED BY <2>1, <2>2
<1>10. /\ \A i, j \in 1..N : i < j => fe[i] < fe[j]
       /\ \A i, j \in 1..M : i < j => fq[i] < fq[j]
  BY <1>1, <1>3, <1>4
<1>11. MergedBy(T, fe, fq)
  BY <1>2, <1>6, <1>7, <1>8, <1>9, <1>10 DEF MergedBy, N, M
<1> QED BY <1>11 DEF T

LEMMA TraceInterleaved ==
  ASSUME ScheduleInv, WholeTrace, NEW c
  PROVE  TraceOf(c) \in Seq(Ops) /\ \E E, Q : Interleaved(TraceOf(c), E, Q)
<1>1. \E fe, fq : MergedBy(TraceOf(c), fe, fq)
  BY PhasesMerged, TuningMerged DEF TraceOf
<1>2. PICK fe, fq : MergedBy(TraceOf(c), fe, fq)
  BY <1>1
<1> QED BY <1>2, MergeIsInterleaved DEF MergedBy
-----------------------------------------------------------------------------
(* Where the operations of a phase are.                                   *)
PhaseAt(p, i) ==
  /\ Ends("events")[p - 1] + Ends("queries")[p - 1] < i
  /\ i <= Ends("events")[p] + Ends("queries")[p]

LEMMA EventAt ==
  ASSUME ScheduleInv, WholeTrace, NEW fe, NEW fq, MergedBy(ByPhase, fe, fq), PlacedBy(fe, fq),
         NEW i \in 1..Len(ByPhase)
  PROVE  /\ ByPhase[i].phase \in 1..PhaseCount /\ PhaseAt(ByPhase[i].phase, i)
         /\ \/ \E j \in 1..Len(events) : ByPhase[i] = events[j]
            \/ \E j \in 1..Len(queries) : ByPhase[i] = queries[j]
<1> DEFINE T == ByPhase
           e == Ends("events")
           q == Ends("queries")
           n == PhaseCount
<1>1. /\ \A p \in 0..n : e[p] \in Nat /\ q[p] \in Nat
      /\ \A p, r \in 0..n : p <= r => e[p] <= e[r] /\ q[p] <= q[r]
  <2>1. /\ \A p \in 0..n : e[p] \in Nat
        /\ \A p, r \in 0..n : p <= r => e[p] <= e[r]
    BY EndsFacts
  <2>2. /\ \A p \in 0..n : q[p] \in Nat
        /\ \A p, r \in 0..n : p <= r => q[p] <= q[r]
    BY EndsFacts
  <2> HIDE DEF e, q, n
  <2> QED BY <2>1, <2>2
<1>2. /\ Len(events) \in Nat
      /\ \A j \in 1..Len(events) : /\ events[j].phase \in 1..n
                                    /\ e[events[j].phase - 1] < j /\ j <= e[events[j].phase]
  BY StretchEnds, OpsTyped DEF ScheduleInv
<1>3. /\ Len(queries) \in Nat
      /\ \A j \in 1..Len(queries) : /\ queries[j].phase \in 1..n
                                     /\ q[queries[j].phase - 1] < j /\ j <= q[queries[j].phase]
  BY StretchEnds, OpsTyped DEF ScheduleInv
<1>4. /\ \A j \in 1..Len(events) : fe[j] = j + q[events[j].phase - 1]
      /\ \A j \in 1..Len(queries) : fq[j] = j + e[queries[j].phase]
  BY DEF PlacedBy
<1>5. /\ \A j \in 1..Len(events) : T[fe[j]] = events[j]
      /\ \A j \in 1..Len(queries) : T[fq[j]] = queries[j]
      /\ (\E j \in 1..Len(events) : fe[j] = i) \/ (\E j \in 1..Len(queries) : fq[j] = i)
  BY DEF MergedBy
<1>6. PhaseCount \in Nat
  BY PhaseFacts
<1> HIDE DEF T, e, q, n
<1>7. CASE \E j \in 1..Len(events) : fe[j] = i
  <2>1. PICK j \in 1..Len(events) : fe[j] = i
    BY <1>7
  <2> DEFINE p == events[j].phase
  <2>2. T[i] = events[j] /\ p \in 1..n /\ e[p - 1] < j /\ j <= e[p] /\ i = j + q[p - 1]
    BY <1>2, <1>4, <1>5, <2>1
  <2>3. T[i].phase = p
    BY <2>2
  <2> HIDE DEF p
  <2>4. p \in 0..n /\ p - 1 \in 0..n /\ p - 1 <= p
    BY <1>6, <2>2 DEF n
  <2>5. e[p - 1] + q[p - 1] < i /\ i <= e[p] + q[p]
    <3>1. e[p] \in Nat /\ q[p] \in Nat /\ e[p - 1] \in Nat /\ q[p - 1] \in Nat /\ q[p - 1] <= q[p]
      BY <1>1, <2>4
    <3>2. j \in Int /\ e[p - 1] < j /\ j <= e[p] /\ i = j + q[p - 1]
      BY <1>2, <2>2
    <3> QED BY <3>1, <3>2
  <2>6. PhaseAt(p, i)
    BY <2>5 DEF PhaseAt, e, q
  <2> QED BY <2>2, <2>3, <2>6 DEF T, n
<1>8. CASE \E j \in 1..Len(queries) : fq[j] = i
  <2>1. PICK j \in 1..Len(queries) : fq[j] = i
    BY <1>8
  <2> DEFINE p == queries[j].phase
  <2>2. T[i] = queries[j] /\ p \in 1..n /\ q[p - 1] < j /\ j <= q[p] /\ i = j + e[p]
    BY <1>3, <1>4, <1>5, <2>1
  <2>3. T[i].phase = p
    BY <2>2
  <2> HIDE DEF p
  <2>4. p \in 0..n /\ p - 1 \in 0..n /\ p - 1 <= p
    BY <1>6, <2>2 DEF n
  <2>5. e[p - 1] + q[p - 1] < i /\ i <= e[p] + q[p]
    <3>1. e[p] \in Nat /\ q[p] \in Nat /\ e[p - 1] \in Nat /\ q[p - 1] \in Nat /\ e[p - 1] <= e[p]
      BY <1>1, <2>4
    <3>2. j \in Int /\ q[p - 1] < j /\ j <= q[p] /\ i = j + e[p]
      BY <1>3, <2>2
    <3> QED BY <3>1, <3>2
  <2>6. PhaseAt(p, i)
    BY <2>5 DEF PhaseAt, e, q
  <2> QED BY <2>2, <2>3, <2>6 DEF T, n
<1> QED BY <1>5, <1>7, <1>8

LEMMA PhasesInTurn == ScheduleInv /\ WholeTrace => PlayedByPhases
<1> SUFFICES ASSUME ScheduleInv, WholeTrace PROVE PlayedByPhases
  OBVIOUS
<1>1. PICK fe, fq : MergedBy(ByPhase, fe, fq) /\ PlacedBy(fe, fq)
  BY PhasesMerged
<1>2. \A i \in 1..Len(ByPhase) :
        /\ ByPhase[i].phase \in 1..PhaseCount /\ PhaseAt(ByPhase[i].phase, i)
        /\ \/ \E j \in 1..Len(events) : ByPhase[i] = events[j]
           \/ \E j \in 1..Len(queries) : ByPhase[i] = queries[j]
  BY <1>1, EventAt
<1>3. DOMAIN ByPhase = 1..Len(ByPhase)
  BY <1>1 DEF MergedBy
<1> DEFINE T == ByPhase
           e == Ends("events")
           q == Ends("queries")
<1>e. /\ \A p \in 0..PhaseCount : e[p] \in Nat
      /\ \A p, r \in 0..PhaseCount : p <= r => e[p] <= e[r]
  BY EndsFacts
<1>q. /\ \A p \in 0..PhaseCount : q[p] \in Nat
      /\ \A p, r \in 0..PhaseCount : p <= r => q[p] <= q[r]
  BY EndsFacts
<1>4. ASSUME NEW i \in 1..Len(T), NEW j \in 1..Len(T), T[i].phase < T[j].phase
      PROVE  i < j
  <2> DEFINE p == T[i].phase
             r == T[j].phase
  <2>1. p \in 1..PhaseCount /\ r \in 1..PhaseCount /\ PhaseAt(p, i) /\ PhaseAt(r, j) /\ p < r
    BY <1>2, <1>4
  <2> HIDE DEF p, r, T
  <2>2. i <= e[p] + q[p] /\ e[r - 1] + q[r - 1] < j
    BY <2>1 DEF PhaseAt
  <2> HIDE DEF e, q
  <2>3. p \in 0..PhaseCount /\ r - 1 \in 0..PhaseCount /\ p <= r - 1
    BY <2>1, PhaseFacts
  <2>4. /\ e[p] \in Nat /\ q[p] \in Nat /\ e[r - 1] \in Nat /\ q[r - 1] \in Nat
        /\ e[p] <= e[r - 1] /\ q[p] <= q[r - 1]
    BY <1>e, <1>q, <2>3
  <2> QED BY <2>2, <2>4
<1>5. ASSUME NEW i \in 1..Len(T), NEW j \in 1..Len(T), T[i].phase < T[j].phase
      PROVE  T[i].at < T[j].at
  <2>0. /\ \A x \in 1..Len(events), y \in 1..Len(events) :
             events[x].phase < events[y].phase => events[x].at < events[y].at
        /\ \A x \in 1..Len(events), y \in 1..Len(queries) :
             events[x].phase < queries[y].phase => events[x].at < queries[y].at
        /\ \A x \in 1..Len(queries), y \in 1..Len(events) :
             queries[x].phase < events[y].phase => queries[x].at < events[y].at
        /\ \A x \in 1..Len(queries), y \in 1..Len(queries) :
             queries[x].phase < queries[y].phase => queries[x].at < queries[y].at
    BY DEF ScheduleInv, Earlier
  <2>1. \/ \E x \in 1..Len(events) : T[i] = events[x]
        \/ \E x \in 1..Len(queries) : T[i] = queries[x]
    BY <1>2
  <2>2. \/ \E y \in 1..Len(events) : T[j] = events[y]
        \/ \E y \in 1..Len(queries) : T[j] = queries[y]
    BY <1>2
  <2> HIDE DEF T
  <2> QED BY <1>5, <2>0, <2>1, <2>2
<1> QED BY <1>3, <1>4, <1>5 DEF PlayedByPhases
-----------------------------------------------------------------------------
(* What a trial publishes and answers is decided by its trace and policy: *)
(* its core after i operations, without features, versions and times.     *)
TargetOf(pol, p) ==
  Sim!InRange(1 + (Sim!InRange(p, 0, PressureUnit) * (pol.cadenceMax - 1)) \div PressureUnit,
              1, pol.cadenceMax)

Publishes(pol, ord, o, core) ==
  CASE pol.type = "QuotaMatched" -> core.accumulator + pol.target >= TotalEvents
    [] pol.type = "ExactFresh" -> TRUE
    [] pol.type = "FixedCadence" -> core.pending[o.key] + 1 >= pol.cadence
    [] pol.type = "AdaptivePressure" ->
         core.pending[o.key] + 1 >= TargetOf(pol, Pressure([order |-> ord], o.phase))

AfterEvent(pol, ord, o, core) ==
  LET yes == Publishes(pol, ord, o, core)
  IN  [pending |-> [k \in SimKeys |-> IF k # o.key THEN core.pending[k]
                                      ELSE IF yes THEN 0 ELSE core.pending[k] + 1],
       accumulator |-> IF pol.type = "QuotaMatched"
                       THEN core.accumulator + pol.target - (IF yes THEN TotalEvents ELSE 0)
                       ELSE core.accumulator,
       published |-> IF yes THEN core.published + 1 ELSE core.published,
       answers |-> core.answers]

AfterQuery(o, core) ==
  [pending |-> core.pending, accumulator |-> core.accumulator, published |-> core.published,
   answers |-> Append(core.answers, core.pending[o.key])]

After(pol, ord, o, core) ==
  IF o.op = "event" THEN AfterEvent(pol, ord, o, core) ELSE AfterQuery(o, core)

Before1st == [pending |-> [k \in SimKeys |-> 0], accumulator |-> 0, published |-> 0, answers |-> <<>>]

PlayedUpto(h, T, pol, ord, n) ==
  /\ h = [i \in 0..n |-> h[i]] /\ h[0] = Before1st
  /\ \A i \in 1..n : h[i] = After(pol, ord, T[i], h[i - 1])

Played(T, pol, ord) == CHOOSE h : PlayedUpto(h, T, pol, ord, Len(T))

LEMMA PlayExists ==
  ASSUME NEW T, Len(T) \in Nat, NEW pol, NEW ord
  PROVE  PlayedUpto(Played(T, pol, ord), T, pol, ord, Len(T))
<1> DEFINE n == Len(T)
           S == {m \in 0..n : \E h : PlayedUpto(h, T, pol, ord, m)}
<1>1. 0 \in S
  <2> DEFINE h == [i \in 0..0 |-> Before1st]
  <2>1. h[0] = Before1st /\ h = [i \in 0..0 |-> h[i]]
    OBVIOUS
  <2> HIDE DEF h
  <2>2. PlayedUpto(h, T, pol, ord, 0)
    BY <2>1 DEF PlayedUpto
  <2> QED BY <2>2
<1>2. ASSUME NEW m \in 0..(n - 1), m \in S PROVE m + 1 \in S
  <2>1. PICK g : PlayedUpto(g, T, pol, ord, m)
    BY <1>2
  <2> DEFINE e == After(pol, ord, T[m + 1], g[m])
             h == [i \in 0..m + 1 |-> IF i = m + 1 THEN e ELSE g[i]]
  <2>2. h[m + 1] = e /\ \A i \in 0..m : h[i] = g[i]
    OBVIOUS
  <2>3. h = [i \in 0..m + 1 |-> h[i]]
    OBVIOUS
  <2> HIDE DEF h
  <2>4. h[0] = Before1st
    BY <2>1, <2>2 DEF PlayedUpto
  <2>5. ASSUME NEW i \in 1..m + 1 PROVE h[i] = After(pol, ord, T[i], h[i - 1])
    <3>1. i - 1 \in 0..m /\ h[i - 1] = g[i - 1]
      BY <2>2
    <3>2. CASE i = m + 1
      BY <2>2, <3>1, <3>2
    <3>3. CASE i # m + 1
      <4>1. i \in 1..m /\ h[i] = g[i]
        BY <2>2, <3>3
      <4> QED BY <2>1, <3>1, <4>1 DEF PlayedUpto
    <3> QED BY <3>2, <3>3
  <2>6. PlayedUpto(h, T, pol, ord, m + 1)
    BY <2>3, <2>4, <2>5 DEF PlayedUpto
  <2> QED BY <2>6
<1>3. n \in S
  <2>1. \A i \in 0..n : i \in S
    <3> HIDE DEF S
    <3> QED BY <1>1, <1>2, UpTo
  <2> QED BY <2>1
<1>4. \E h : PlayedUpto(h, T, pol, ord, Len(T))
  BY <1>3
<1> QED BY <1>4 DEF Played

CoreOf(c, i) == Played(TraceOf(c), c.policy, c.order)[i]

LEMMA CoreSteps ==
  ASSUME NEW c, Len(TraceOf(c)) \in Nat
  PROVE  /\ CoreOf(c, 0) = Before1st
         /\ \A i \in 1..Len(TraceOf(c)) :
              CoreOf(c, i) = After(c.policy, c.order, TraceOf(c)[i], CoreOf(c, i - 1))
BY PlayExists DEF CoreOf, PlayedUpto
-----------------------------------------------------------------------------
(* Every trial has one of the four policies.                              *)
PolicyTyped(pol) ==
  /\ pol.type \in {"ExactFresh", "FixedCadence", "AdaptivePressure", "QuotaMatched"}
  /\ pol.type = "FixedCadence" => pol.cadence \in Nat

LEMMA SomePolicies ==
  /\ PolicyTyped(ExactFresh) /\ PolicyTyped(Adaptive)
  /\ \A u \in Nat : PolicyTyped(FixedCadence(u))
  /\ \A n : PolicyTyped(Quota(n))
<1>1. PolicyTyped(Adaptive)
  BY ExperimentsAssumption DEF PolicyTyped
<1> QED BY <1>1 DEF PolicyTyped, ExactFresh, FixedCadence, Quota

(* The study's configurations are typed, in one of its orders, and the    *)
(* names of two of the suite's trials occur only in their place.          *)
Proper(c, i) ==
  /\ PolicyTyped(c.policy)
  /\ tool # "pilot" => /\ c.name = "joint_adaptive" <=> i = Len(Tuning) + 2
                       /\ c.name = "budget_matched" <=> i = Len(Tuning) + 4
                       /\ i = Len(Tuning) + 4 =>
                            c.policy = Quota(results[Len(Tuning) + 2].published)

LEMMA PilotTyped ==
  /\ Len(PilotPlan) \in Nat \ {0}
  /\ \A n \in 1..Len(PilotPlan) : PolicyTyped(PilotPlan[n].policy)
<1> DEFINE b == Len(GridB)
           m == Len(GridU)
           S == {Named(ToString(GridB[j]), GridU[k]) : k \in 1..m, j \in 1..b}
           rows == [k \in DOMAIN GridU |->
                      [j \in DOMAIN GridB |-> Named(ToString(GridB[j]), GridU[k])]]
           ends == [k \in 0..m |-> k * b]
<1>1. /\ b \in Nat /\ b > 0 /\ m \in Nat /\ m > 0 /\ DOMAIN GridU = 1..m /\ DOMAIN GridB = 1..b
      /\ \A k \in 1..m : PolicyTyped(GridU[k])
  <2> DEFINE P == [type : {"ExactFresh"}] \cup [type : {"FixedCadence"}, cadence : Nat \ {0}]
                    \cup [type : {"AdaptivePressure"}, cadenceMax : Nat \ {0}]
  <2>1. \A pol \in P : PolicyTyped(pol)
    BY DEF PolicyTyped
  <2>2. GridU \in Seq(P) /\ GridU # <<>> /\ GridB \in Seq(Nat \ {0}) /\ GridB # <<>>
    BY ExperimentsAssumption
  <2> HIDE DEF P
  <2>3. \A k \in 1..m : GridU[k] \in P
    BY <2>2
  <2>4. b > 0 /\ m > 0
    BY <2>2, EmptySeq
  <2> QED BY <2>1, <2>2, <2>3, <2>4
<1>2. /\ rows \in Seq(Seq(S)) /\ Len(rows) = m
      /\ \A k \in 1..m : Len(rows[k]) = b
      /\ \A k \in 1..m : \A j \in 1..b : rows[k][j] = Named(ToString(GridB[j]), GridU[k])
  BY <1>1
<1>3. EndsOf(rows, ends) /\ ends[m] = m * b
  <2>1. ends[0] = 0 /\ \A k \in 0..m : ends[k] \in Int /\ ends[k] = k * b
    BY <1>1
  <2>2. \A k \in 1..m : k \in 0..m /\ k - 1 \in 0..m /\ k * b = (k - 1) * b + b
    BY <1>1
  <2> HIDE DEF ends, rows, m, b
  <2>3. \A k \in 1..m : ends[k] = ends[k - 1] + Len(rows[k])
    BY <1>2, <2>1, <2>2
  <2> QED BY <1>1, <1>2, <2>1, <2>3 DEF EndsOf
<1>4. PilotPlan = FlattenSeq(rows)
  BY DEF PilotPlan
<1> HIDE DEF S, rows, ends, m, b
<1>5. LaidOut(PilotPlan, rows, ends)
  BY <1>1, <1>2, <1>3, <1>4, FlattenLayout
<1>6. Len(PilotPlan) \in Nat \ {0}
  <2>1. Len(PilotPlan) = m * b
    BY <1>2, <1>3, <1>5 DEF LaidOut
  <2>2. m * b \in Nat \ {0}
    BY <1>1
  <2> QED BY <2>1, <2>2
<1>7. ASSUME NEW n \in 1..Len(PilotPlan) PROVE PolicyTyped(PilotPlan[n].policy)
  <2>1. PICK k \in 1..m : \E j \in 1..b : PilotPlan[n] = rows[k][j]
    BY <1>2, <1>5, SMTT(30) DEF LaidOut
  <2>2. \A name, pol : Named(name, pol).policy = pol
    BY DEF Named
  <2>3. \E name : PilotPlan[n] = Named(name, GridU[k])
    BY <1>2, <2>1
  <2>4. PilotPlan[n].policy = GridU[k]
    BY <2>2, <2>3
  <2> QED BY <1>1, <2>4
<1> QED BY <1>6, <1>7
-----------------------------------------------------------------------------
LEMMA TuningTyped ==
  /\ Len(Tuning) \in Nat
  /\ \A k \in 1..Len(Tuning) : /\ PolicyTyped(Tuning[k].policy)
                               /\ Tuning[k].name \in {"fresh_sim", "candidate"}
<1> DEFINE m == Len(Candidates)
           head == <<[name |-> "fresh_sim", policy |-> ExactFresh, order |-> "tuning"]>>
           tail == [k \in DOMAIN Candidates |->
                      [name |-> "candidate", policy |-> FixedCadence(Candidates[k]),
                       order |-> "tuning"]]
           C == {head[1]} \cup {tail[k] : k \in 1..m}
<1>1. m \in Nat /\ DOMAIN Candidates = 1..m /\ \A k \in 1..m : Candidates[k] \in Nat
  BY ExperimentsAssumption
<1>2. \A c \in C : PolicyTyped(c.policy) /\ c.name \in {"fresh_sim", "candidate"}
  <2>1. PolicyTyped(head[1].policy) /\ head[1].name = "fresh_sim"
    BY SomePolicies
  <2>2. \A k \in 1..m : PolicyTyped(tail[k].policy) /\ tail[k].name = "candidate"
    BY <1>1, SomePolicies
  <2> QED BY <2>1, <2>2
<1>3. head \in Seq(C) /\ tail \in Seq(C) /\ Len(head) = 1 /\ Len(tail) = m
  BY <1>1
<1>4. Tuning = head \o tail
  BY DEF Tuning
<1> HIDE DEF C, head, tail
<1>5. Tuning \in Seq(C)
  BY <1>3, <1>4, ConcatProperties
<1>6. Len(Tuning) \in Nat /\ \A k \in 1..Len(Tuning) : Tuning[k] \in C
  BY <1>5
<1> QED BY <1>2, <1>6

(* With every result in its place, a name of the suite finds its trial.   *)
LEMMA NameFound ==
  ASSUME tool # "pilot", Len(results) \in Nat, DOMAIN results = 1..Len(results),
         \A i \in 1..Len(results) : Proper(results[i].config, i), Len(Tuning) \in Nat
  PROVE  /\ Len(results) >= Len(Tuning) + 2 =>
              Published("joint_adaptive") = results[Len(Tuning) + 2].published
         /\ Len(results) >= Len(Tuning) + 4 =>
              Published("budget_matched") = results[Len(Tuning) + 4].published
<1>1. ASSUME Len(results) >= Len(Tuning) + 2
      PROVE  Published("joint_adaptive") = results[Len(Tuning) + 2].published
  <2> DEFINE i == CHOOSE i \in DOMAIN results : results[i].config.name = "joint_adaptive"
  <2>1. Len(Tuning) + 2 \in DOMAIN results
    BY <1>1
  <2>2. results[Len(Tuning) + 2].config.name = "joint_adaptive"
    BY <2>1 DEF Proper
  <2>3. i \in DOMAIN results /\ results[i].config.name = "joint_adaptive"
    BY <2>1, <2>2
  <2>4. Published("joint_adaptive") = results[i].published
    BY DEF Published
  <2> HIDE DEF i
  <2>5. i = Len(Tuning) + 2
    BY <2>3 DEF Proper
  <2> QED BY <2>4, <2>5
<1>2. ASSUME Len(results) >= Len(Tuning) + 4
      PROVE  Published("budget_matched") = results[Len(Tuning) + 4].published
  <2> DEFINE i == CHOOSE i \in DOMAIN results : results[i].config.name = "budget_matched"
  <2>1. Len(Tuning) + 4 \in DOMAIN results
    BY <1>2
  <2>2. results[Len(Tuning) + 4].config.name = "budget_matched"
    BY <2>1 DEF Proper
  <2>3. i \in DOMAIN results /\ results[i].config.name = "budget_matched"
    BY <2>1, <2>2
  <2>4. Published("budget_matched") = results[i].published
    BY DEF Published
  <2> HIDE DEF i
  <2>5. i = Len(Tuning) + 4
    BY <2>3 DEF Proper
  <2> QED BY <2>4, <2>5
<1> QED BY <1>1, <1>2

LEMMA SuiteProper ==
  ASSUME tool # "pilot", Len(results) \in Nat, DOMAIN results = 1..Len(results), uStar \in Nat,
         \A i \in 1..Len(results) : Proper(results[i].config, i),
         NEW i, i = Len(results) + 1, i <= Len(Tuning) + 6
  PROVE  Proper(IF i <= Len(Tuning) THEN Tuning[i] ELSE SuiteTrial(i - Len(Tuning)), i)
<1>1. Len(Tuning) \in Nat
  BY TuningTyped
<1>2. CASE i <= Len(Tuning)
  <2>1. i \in 1..Len(Tuning) /\ i # Len(Tuning) + 2 /\ i # Len(Tuning) + 4
    BY <1>1, <1>2
  <2>2. PolicyTyped(Tuning[i].policy) /\ Tuning[i].name \in {"fresh_sim", "candidate"}
    BY <2>1, TuningTyped
  <2> QED BY <1>2, <2>1, <2>2 DEF Proper
<1>3. CASE ~(i <= Len(Tuning))
  <2> DEFINE j == i - Len(Tuning)
             c == SuiteTrial(j)
  <2>1. j \in 1..6 /\ (i = Len(Tuning) + 2 <=> j = 2) /\ (i = Len(Tuning) + 4 <=> j = 4)
        /\ (j = 4 => Len(results) >= Len(Tuning) + 2)
    BY <1>1, <1>3
  <2> HIDE DEF j
  <2>2. /\ c.name = "joint_adaptive" <=> j = 2
        /\ c.name = "budget_matched" <=> j = 4
    BY <2>1 DEF SuiteTrial, Named
  <2>3. PolicyTyped(c.policy)
    BY <2>1, SomePolicies DEF SuiteTrial, Named
  <2>4. j = 4 => c.policy = Quota(results[Len(Tuning) + 2].published)
    <3>1. j = 4 => Published("joint_adaptive") = results[Len(Tuning) + 2].published
      BY <1>1, <2>1, NameFound
    <3> QED BY <3>1 DEF SuiteTrial, Named
  <2> HIDE DEF c
  <2>5. Proper(c, i)
    BY <2>1, <2>2, <2>3, <2>4 DEF Proper
  <2> QED BY <1>3, <2>5 DEF c, j
<1> QED BY <1>2, <1>3
-----------------------------------------------------------------------------
(* How many of the first n operations of a kind belong to a phase.        *)
Share(field, p, n) ==
  IF n <= Before(field, p - 1) THEN 0
  ELSE IF n <= Before(field, p) THEN n - Before(field, p - 1) ELSE PhaseSpecs[p][field]

LEMMA ShareGrows ==
  ASSUME NEW field \in {"events", "queries"}, NEW p \in Phases
  PROVE  /\ Share(field, p, 0) = 0 /\ Share(field, p, Total(field)) = PhaseSpecs[p][field]
         /\ \A q \in Phases, j \in Nat \ {0} :
              Before(field, q - 1) < j /\ j <= Before(field, q) =>
                Share(field, p, j) = IF p = q THEN Share(field, p, j - 1) + 1
                                     ELSE Share(field, p, j - 1)
<1>1. /\ p \in 0..PhaseCount /\ p - 1 \in 0..PhaseCount /\ PhaseCount \in 0..PhaseCount /\ p <= PhaseCount
  BY PhaseFacts
<1> DEFINE a == Before(field, p - 1)
           b == Before(field, p)
           s == PhaseSpecs[p][field]
<1>2. a \in Nat /\ b \in Nat /\ s \in Nat /\ b = a + s /\ b <= Total(field) /\ Total(field) \in Nat
  BY <1>1, BeforeFacts, BeforeGrows, PhaseFacts
<1>3. ASSUME NEW q \in Phases, NEW j \in Nat \ {0}, Before(field, q - 1) < j, j <= Before(field, q)
      PROVE  Share(field, p, j) = IF p = q THEN Share(field, p, j - 1) + 1 ELSE Share(field, p, j - 1)
  <2>1. a < j /\ j <= b <=> p = q
    BY <1>3, StretchKnown
  <2> HIDE DEF a, b, s
  <2>2. \A i \in Int : Share(field, p, i) = IF i <= a THEN 0 ELSE IF i <= b THEN i - a ELSE s
    BY DEF Share, a, b, s
  <2>3. j \in Int /\ j - 1 \in Int
    OBVIOUS
  <2>4. CASE p = q
    BY <1>2, <2>1, <2>2, <2>3, <2>4
  <2>5. CASE p # q
    BY <1>2, <2>1, <2>2, <2>3, <2>5
  <2> QED BY <2>4, <2>5
<1>4. \A i \in Int : Share(field, p, i) = IF i <= a THEN 0 ELSE IF i <= b THEN i - a ELSE s
  BY DEF Share
<1> HIDE DEF a, b, s
<1>5. Share(field, p, 0) = 0
  BY <1>2, <1>4
<1>6. Share(field, p, Total(field)) = s
  BY <1>2, <1>4
<1> QED BY <1>3, <1>5, <1>6 DEF s
-----------------------------------------------------------------------------
UserFields == {"count", "lastNs", "pending", "hasPublished", "versionId", "lastTs", "lastSeq"}

IsUser(u) == /\ DOMAIN u = UserFields /\ u = [f \in UserFields |-> u[f]]
             /\ u["count"] \in Nat /\ u["lastNs"] \in Nat /\ u["pending"] \in Nat

UsersTyped(us) == us = [k \in SimKeys |-> us[k]] /\ \A k \in SimKeys : IsUser(us[k])

CurrentCore == [pending |-> [k \in SimKeys |-> users[k]["pending"]], accumulator |-> accumulator,
                published |-> acct["published"], answers |-> answers]

TimelyUpto(us, n) ==
  /\ \A j \in 1..n : /\ us[events[j].key]["count"] > 0
                     /\ events[j].ts <= us[events[j].key]["lastNs"]
  /\ \A i, j \in 1..n : i < j /\ events[i].key = events[j].key => events[i].ts <= events[j].ts

CountedUpto(e, q) ==
  /\ acct["processed"] = e /\ Len(answers) = q
  /\ \A p \in Phases : /\ phaseAcct[p]["admitted"] = Share("events", p, e)
                       /\ phaseAcct[p]["completed"] = Share("queries", p, q)
                       /\ phaseAcct[p]["admitted"] = phaseAcct[p]["published"] + phaseAcct[p]["coalesced"]

TrialInv ==
  config # <<>> =>
    /\ at \in 0..Len(TraceOf(config))
    /\ UsersTyped(users) /\ answers \in Seq(Nat)
    /\ CurrentCore = CoreOf(config, at)
    /\ Sum("published") = acct["published"]
    /\ \A E, Q : Interleaved(TraceOf(config), E, Q) =>
                   CountedUpto(E[at], Q[at]) /\ TimelyUpto(users, E[at])

(* What a finished trial has shown.                                       *)
Fulfilled(r) ==
  /\ r.verified = TRUE /\ r.published \in Nat
  /\ r.published = CoreOf(r.config, Len(TraceOf(r.config))).published
  /\ r.staleness = CoreOf(r.config, Len(TraceOf(r.config))).answers
  /\ r.staleness \in Seq(Nat) /\ Len(r.staleness) = Len(queries)
  /\ IsQuota(r.config.policy) => r.published = r.config.policy.target

ResultInv ==
  /\ uStar \in Nat
  /\ config # <<>> => Proper(config, Len(results) + 1)
  /\ \A i \in 1..Len(results) : Proper(results[i].config, i) /\ Fulfilled(results[i])
  /\ results # <<>> => TimesOfKeyGrow

StudyInv == /\ LoadedInv /\ ScheduleInv /\ TracedInv /\ ExperimentInv
            /\ TrialInv /\ ResultInv
-----------------------------------------------------------------------------
(* What one event does to the users and to the simulator's account.       *)
UserMoved(k, ts, yes) ==
  /\ UsersTyped(users')
  /\ \A x \in SimKeys : x # k => users'[x] = users[x]
  /\ users'[k]["count"] = users[k]["count"] + 1 /\ users'[k]["lastNs"] = ts
  /\ users'[k]["pending"] = IF yes THEN 0 ELSE users[k]["pending"] + 1

LEMMA EventMovesUser ==
  ASSUME UsersTyped(users), NEW k \in SimKeys, NEW ts \in Nat
  PROVE  /\ Sim!PublishUpdate(k, ts) => UserMoved(k, ts, TRUE)
         /\ Sim!CoalesceUpdate(k, ts) => UserMoved(k, ts, FALSE)
<1>1. /\ users = [x \in SimKeys |-> users[x]] /\ IsUser(users[k])
      /\ users[k]["count"] \in Nat /\ users[k]["pending"] \in Nat
  BY DEF UsersTyped, IsUser
<1>2. ASSUME NEW u, IsUser(u), users' = [users EXCEPT ![k] = u]
      PROVE  UsersTyped(users') /\ users'[k] = u /\ \A x \in SimKeys : x # k => users'[x] = users[x]
  <2>1. users'[k] = u /\ users' = [x \in SimKeys |-> users'[x]]
        /\ \A x \in SimKeys : x # k => users'[x] = users[x]
    BY <1>1, <1>2
  <2>2. \A x \in SimKeys : IsUser(users'[x])
    BY <1>2, <2>1 DEF UsersTyped
  <2> QED BY <2>1, <2>2 DEF UsersTyped
<1>3. ASSUME Sim!PublishUpdate(k, ts) PROVE UserMoved(k, ts, TRUE)
  <2> DEFINE u == [count |-> users[k].count + 1, lastNs |-> ts, pending |-> 0,
                   hasPublished |-> TRUE, versionId |-> cache[k].version + 1,
                   lastTs |-> ts, lastSeq |-> acct.processed + 1]
  <2>1. users' = [users EXCEPT ![k] = u]
    BY <1>3 DEF Sim!PublishUpdate
  <2>2. IsUser(u) /\ u["count"] = users[k]["count"] + 1 /\ u["lastNs"] = ts /\ u["pending"] = 0
    <3>1. u["count"] = users[k]["count"] + 1 /\ u["lastNs"] = ts /\ u["pending"] = 0
      OBVIOUS
    <3>2. DOMAIN u = UserFields /\ u = [f \in UserFields |-> u[f]]
      BY DEF UserFields
    <3> HIDE DEF u
    <3> QED BY <1>1, <3>1, <3>2 DEF IsUser
  <2> HIDE DEF u
  <2>3. UsersTyped(users') /\ users'[k] = u /\ \A x \in SimKeys : x # k => users'[x] = users[x]
    BY <1>2, <2>1, <2>2
  <2> QED BY <2>2, <2>3 DEF UserMoved
<1>4. ASSUME Sim!CoalesceUpdate(k, ts) PROVE UserMoved(k, ts, FALSE)
  <2> DEFINE u == [users[k] EXCEPT !["count"] = users[k]["count"] + 1, !["lastNs"] = ts,
                                   !["pending"] = users[k]["pending"] + 1]
  <2>1. users' = [users EXCEPT ![k] = u]
    BY <1>1, <1>4 DEF Sim!CoalesceUpdate, IsUser, UserFields
  <2>2. IsUser(u) /\ u["count"] = users[k]["count"] + 1 /\ u["lastNs"] = ts
        /\ u["pending"] = users[k]["pending"] + 1
    <3>1. DOMAIN users[k] = UserFields
      BY <1>1 DEF IsUser
    <3>2. u["count"] = users[k]["count"] + 1 /\ u["lastNs"] = ts
          /\ u["pending"] = users[k]["pending"] + 1
      BY <3>1 DEF UserFields
    <3>3. DOMAIN u = UserFields /\ u = [f \in UserFields |-> u[f]]
      BY <3>1
    <3> HIDE DEF u
    <3> QED BY <1>1, <3>2, <3>3 DEF IsUser
  <2> HIDE DEF u
  <2>3. UsersTyped(users') /\ users'[k] = u /\ \A x \in SimKeys : x # k => users'[x] = users[x]
    BY <1>2, <2>1, <2>2
  <2> QED BY <2>2, <2>3 DEF UserMoved
<1> QED BY <1>3, <1>4

AccountMoved(yes) ==
  /\ acct'["processed"] = acct["processed"] + 1
  /\ acct'["published"] = IF yes THEN acct["published"] + 1 ELSE acct["published"]
  /\ acct'["coalesced"] = IF yes THEN acct["coalesced"] ELSE acct["coalesced"] + 1

LEMMA EventMovesAccount ==
  ASSUME acct \in [SimCounters -> Nat], NEW k, NEW ts
  PROVE  /\ Sim!PublishUpdate(k, ts) => AccountMoved(TRUE)
         /\ Sim!CoalesceUpdate(k, ts) => AccountMoved(FALSE)
<1>1. ASSUME Sim!PublishUpdate(k, ts) PROVE AccountMoved(TRUE)
  <2>1. acct' = [acct EXCEPT !["processed"] = acct["processed"] + 1,
                             !["published"] = acct["published"] + 1]
    BY <1>1 DEF Sim!PublishUpdate, SimCounters
  <2> QED BY <2>1 DEF AccountMoved, SimCounters
<1>2. ASSUME Sim!CoalesceUpdate(k, ts) PROVE AccountMoved(FALSE)
  <2>1. acct' = [acct EXCEPT !["processed"] = acct["processed"] + 1,
                             !["coalesced"] = acct["coalesced"] + 1]
    BY <1>2 DEF Sim!CoalesceUpdate, SimCounters
  <2> QED BY <2>1 DEF AccountMoved, SimCounters
<1> QED BY <1>1, <1>2

(* The next operation of a running trial.                                 *)
LEMMA NextOpTyped ==
  ASSUME ScheduleInv, WholeTrace, TrialInv, config # <<>>, Running
  PROVE  /\ at + 1 \in 1..Len(TraceOf(config)) /\ NextOp \in Ops
         /\ NextOp.op = "event" => NextOp \in EventOp
         /\ \E E, Q : Interleaved(TraceOf(config), E, Q)
<1>1. TraceOf(config) \in Seq(Ops) /\ \E E, Q : Interleaved(TraceOf(config), E, Q)
  BY TraceInterleaved
<1>2. at \in 0..Len(TraceOf(config)) /\ at < Len(TraceOf(config))
  BY DEF TrialInv, Running
<1>3. at + 1 \in 1..Len(TraceOf(config)) /\ NextOp \in Ops
  BY <1>1, <1>2 DEF NextOp
<1>4. NextOp.op = "event" => NextOp \in EventOp
  <2>1. PICK E, Q : Interleaved(TraceOf(config), E, Q)
    BY <1>1
  <2>2. \/ TakesEvent(TraceOf(config), E, Q, at + 1)
        \/ TakesQuery(TraceOf(config), E, Q, at + 1)
    BY <1>3, <2>1 DEF Interleaved
  <2> QED BY <2>2 DEF TakesEvent, TakesQuery, NextOp
<1> QED BY <1>1, <1>3, <1>4
-----------------------------------------------------------------------------
(* An event of a trial publishes as the policy decides on its core.       *)
Decided(k, ts, yes) ==
  /\ UserMoved(k, ts, yes) /\ AccountMoved(yes)
  /\ yes <=> Publishes(policy, config.order, NextOp, CurrentCore)
  /\ accumulator' = IF policy.type = "QuotaMatched"
                    THEN accumulator + policy.target - (IF yes THEN TotalEvents ELSE 0)
                    ELSE accumulator

LEMMA EventDecided ==
  ASSUME UsersTyped(users), acct \in [SimCounters -> Nat], policy = config.policy,
         PolicyTyped(policy), TrialEvent, NextOp \in EventOp
  PROVE  \E yes \in BOOLEAN : Decided(NextOp.key, NextOp.ts, yes)
<1> DEFINE o == NextOp
           k == o.key
           ts == o.ts
           p == Pressure(config, o.phase)
<1>1. k \in SimKeys /\ ts \in Nat
  BY DEF EventOp, SimKeys
<1>2. /\ Sim!PublishUpdate(k, ts) => UserMoved(k, ts, TRUE) /\ AccountMoved(TRUE)
      /\ Sim!CoalesceUpdate(k, ts) => UserMoved(k, ts, FALSE) /\ AccountMoved(FALSE)
  BY <1>1, EventMovesUser, EventMovesAccount
<1>3. CurrentCore.accumulator = accumulator /\ CurrentCore.pending[k] = users[k].pending
  BY <1>1 DEF CurrentCore
<1>4. CASE policy.type = "QuotaMatched"
  <2>1. ProcessByQuota(o)
    BY <1>4 DEF TrialEvent
  <2>2. QuotaReached <=> Publishes(policy, config.order, o, CurrentCore)
    BY <1>3, <1>4 DEF QuotaReached, Publishes
  <2>3. CASE QuotaReached
    BY <1>2, <1>4, <2>1, <2>2, <2>3 DEF ProcessByQuota, Decided
  <2>4. CASE ~QuotaReached
    BY <1>2, <1>4, <2>1, <2>2, <2>4 DEF ProcessByQuota, Decided
  <2> QED BY <2>3, <2>4
<1>5. CASE policy.type # "QuotaMatched"
  <2>1. UNCHANGED accumulator /\ Sim!ProcessEvent(k, ts, p)
    BY <1>5 DEF TrialEvent
  <2>2. p = Pressure([order |-> config.order], o.phase)
    BY DEF Pressure
  <2>3. Sim!TargetCadence(p) = TargetOf(policy, p)
    BY DEF Sim!TargetCadence, TargetOf
  <2> HIDE DEF p
  <2>4. Sim!ShouldPublish(k, ts, p) <=> Publishes(policy, config.order, o, CurrentCore)
    <3> HIDE DEF k, ts, o
    <3>1. CASE policy.type = "ExactFresh"
      BY <3>1 DEF Sim!ShouldPublish, Publishes
    <3>2. CASE policy.type = "FixedCadence"
      BY <1>3, <3>2 DEF Sim!ShouldPublish, Publishes, k
    <3>3. CASE policy.type = "AdaptivePressure"
      BY <1>3, <2>2, <2>3, <3>3 DEF Sim!ShouldPublish, Publishes, k
    <3> QED BY <1>5, <3>1, <3>2, <3>3 DEF PolicyTyped
  <2>5. CASE Sim!ShouldPublish(k, ts, p)
    BY <1>2, <1>5, <2>1, <2>4, <2>5 DEF Sim!ProcessEvent, Decided
  <2>6. CASE ~Sim!ShouldPublish(k, ts, p)
    BY <1>2, <1>5, <2>1, <2>4, <2>6 DEF Sim!ProcessEvent, Decided
  <2> QED BY <2>5, <2>6
<1> QED BY <1>4, <1>5

LEMMA EventCore ==
  ASSUME NEW yes \in BOOLEAN, Decided(NextOp.key, NextOp.ts, yes), NextOp.key \in SimKeys,
         UNCHANGED answers
  PROVE  CurrentCore' = AfterEvent(policy, config.order, NextOp, CurrentCore)
<1> DEFINE o == NextOp
           k == o.key
           c == CurrentCore
           pend == [x \in SimKeys |-> IF x # k THEN c.pending[x]
                                      ELSE IF yes THEN 0 ELSE c.pending[x] + 1]
<1>1. yes <=> Publishes(policy, config.order, o, c)
  BY DEF Decided
<1>2. /\ c.pending = [x \in SimKeys |-> users[x]["pending"]]
      /\ c.accumulator = accumulator /\ c.published = acct["published"] /\ c.answers = answers
  BY DEF CurrentCore
<1>3. [x \in SimKeys |-> users'[x]["pending"]] = pend
  <2>1. ASSUME NEW x \in SimKeys PROVE users'[x]["pending"] = pend[x]
    BY <1>2, <2>1 DEF Decided, UserMoved
  <2> HIDE DEF pend
  <2>2. pend = [x \in SimKeys |-> pend[x]]
    BY DEF pend
  <2> QED BY <2>1, <2>2
<1>4. acct'["published"] = IF yes THEN c.published + 1 ELSE c.published
  BY <1>2 DEF Decided, AccountMoved
<1>5. accumulator' = IF policy.type = "QuotaMatched"
                     THEN c.accumulator + policy.target - (IF yes THEN TotalEvents ELSE 0)
                     ELSE c.accumulator
  BY <1>2 DEF Decided
<1>6. CurrentCore' = [pending |-> [x \in SimKeys |-> users'[x]["pending"]],
                      accumulator |-> accumulator',
                      published |-> acct'["published"], answers |-> c.answers]
  BY <1>2 DEF CurrentCore
<1>7. AfterEvent(policy, config.order, o, c) =
        [pending |-> pend,
         accumulator |-> IF policy.type = "QuotaMatched"
                         THEN c.accumulator + policy.target - (IF yes THEN TotalEvents ELSE 0)
                         ELSE c.accumulator,
         published |-> IF yes THEN c.published + 1 ELSE c.published,
         answers |-> c.answers]
  BY <1>1 DEF AfterEvent
<1> QED BY <1>3, <1>4, <1>5, <1>6, <1>7
-----------------------------------------------------------------------------
(* The accounts of the phases after an event of one of them.              *)
PhasesMoved(q, yes) ==
  /\ phaseAcct'[q]["admitted"] = phaseAcct[q]["admitted"] + 1
  /\ phaseAcct'[q]["published"] = IF yes THEN phaseAcct[q]["published"] + 1
                                  ELSE phaseAcct[q]["published"]
  /\ phaseAcct'[q]["coalesced"] = IF yes THEN phaseAcct[q]["coalesced"]
                                  ELSE phaseAcct[q]["coalesced"] + 1
  /\ phaseAcct'[q]["completed"] = phaseAcct[q]["completed"]
  /\ \A p \in Phases : p # q => phaseAcct'[p] = phaseAcct[p]

LEMMA EventMovesPhases ==
  ASSUME phaseAcct \in [Phases -> [PhaseCounters -> Int]], acct \in [SimCounters -> Nat],
         NEW yes \in BOOLEAN, AccountMoved(yes), NEW q \in Phases,
         phaseAcct' = [phaseAcct EXCEPT ![q] = WithEvent(@)]
  PROVE  PhasesMoved(q, yes)
<1> DEFINE b == phaseAcct[q]
           a == WithEvent(b)
<1>1. b \in [PhaseCounters -> Int] /\ phaseAcct'[q] = a
      /\ \A p \in Phases : p # q => phaseAcct'[p] = phaseAcct[p]
  OBVIOUS
<1>2. acct["published"] \in Nat /\ acct["coalesced"] \in Nat
  BY DEF SimCounters
<1> HIDE DEF b
<1>3. a = [b EXCEPT !["admitted"] = b["admitted"] + 1,
                    !["published"] = b["published"] + acct'["published"] - acct["published"],
                    !["coalesced"] = b["coalesced"] + acct'["coalesced"] - acct["coalesced"]]
  BY <1>1 DEF WithEvent, PhaseCounters
<1>4. /\ a["admitted"] = b["admitted"] + 1 /\ a["completed"] = b["completed"]
      /\ a["published"] = b["published"] + acct'["published"] - acct["published"]
      /\ a["coalesced"] = b["coalesced"] + acct'["coalesced"] - acct["coalesced"]
      /\ b["published"] \in Int /\ b["coalesced"] \in Int
  BY <1>1, <1>3 DEF PhaseCounters
<1> HIDE DEF a
<1>5. CASE yes
  BY <1>1, <1>2, <1>4, <1>5 DEF PhasesMoved, AccountMoved, b
<1>6. CASE ~yes
  BY <1>1, <1>2, <1>4, <1>6 DEF PhasesMoved, AccountMoved, b
<1> QED BY <1>5, <1>6

LEMMA SumMoves ==
  ASSUME phaseAcct \in [Phases -> [PhaseCounters -> Int]],
         phaseAcct' \in [Phases -> [PhaseCounters -> Int]],
         NEW q \in Phases, NEW d \in Nat,
         phaseAcct'[q]["published"] = phaseAcct[q]["published"] + d,
         \A p \in Phases : p # q => phaseAcct'[p]["published"] = phaseAcct[p]["published"]
  PROVE  Sum("published")' = Sum("published") + d
<1> DEFINE n == Len(PhaseSpecs)
           f == [p \in Phases |-> phaseAcct[p]["published"]]
           g == [p \in Phases |-> phaseAcct'[p]["published"]]
<1>1. n \in Nat /\ Phases = 1..n
  BY EventsCounted
<1>2. Sum("published") = SumFunction(f) /\ Sum("published")' = SumFunction(g)
  BY DEF Sum
<1>3. \A p \in Phases : f[p] \in Int /\ g[p] \in Int /\ (p # q => g[p] = f[p])
  BY DEF PhaseCounters
<1>4. g[q] = f[q] + d
  OBVIOUS
<1>5. DOMAIN f = 1..n /\ DOMAIN g = 1..n
  BY <1>1
<1> HIDE DEF f, g, n
<1>6. SumFunction(f) \in Int /\ SumFunction(g) \in Int
  BY <1>1, <1>3, <1>5, SumType
<1>7. SumFunction(g) - g[q] = SumFunction(f) - f[q]
  <2>1. /\ q \in 1..n /\ \A k \in 1..n : f[k] \in Int /\ g[k] \in Int
        /\ \A k \in 1..n : k # q => g[k] = f[k]
    BY <1>1, <1>3
  <2> QED BY <1>1, <1>5, <2>1, SumOfOneChanged, ZenonT(30)
<1>8. f[q] \in Int /\ g[q] \in Int
  BY <1>3
<1>9. SumFunction(g) = SumFunction(f) + d
  <2> DEFINE x == SumFunction(g)
             y == SumFunction(f)
             u == g[q]
             v == f[q]
  <2>1. x \in Int /\ y \in Int /\ u \in Int /\ v \in Int
    BY <1>6, <1>8
  <2>2. x - u = y - v
    BY <1>7
  <2>3. u = v + d
    BY <1>4
  <2> HIDE DEF x, y, u, v
  <2>4. x = y + d
    BY <2>1, <2>2, <2>3
  <2> QED BY <2>4 DEF x, y
<1> QED BY <1>2, <1>9
-----------------------------------------------------------------------------
(* The trace of a trial stays.                                            *)
LEMMA TraceKept ==
  ASSUME UNCHANGED <<events, queries>>, NEW c
  PROVE  /\ TraceOf(c)' = TraceOf(c)
         /\ \A i : CoreOf(c, i)' = CoreOf(c, i)
         /\ \A E, Q : Interleaved(TraceOf(c), E, Q)' <=> Interleaved(TraceOf(c), E, Q)
<1>1. TraceOf(c)' = TraceOf(c)
  BY DEF TraceOf, ByPhase, InPhase
<1>2. \A i : CoreOf(c, i)' = CoreOf(c, i)
  BY <1>1 DEF CoreOf
<1>3. \A E, Q : Interleaved(TraceOf(c), E, Q)' <=> Interleaved(TraceOf(c), E, Q)
  BY <1>1 DEF Interleaved, TakesEvent, TakesQuery
<1> QED BY <1>1, <1>2, <1>3

LEMMA ConfigKept ==
  ASSUME UNCHANGED <<events, queries, config>>
  PROVE  /\ TraceOf(config)' = TraceOf(config)
         /\ \A i : CoreOf(config, i)' = CoreOf(config, i)
         /\ \A E, Q : Interleaved(TraceOf(config), E, Q)' <=> Interleaved(TraceOf(config), E, Q)
<1>1. TraceOf(config)' = TraceOf(config)
  BY DEF TraceOf, ByPhase, InPhase
<1>2. \A i : CoreOf(config, i)' = CoreOf(config, i)
  BY <1>1 DEF CoreOf
<1>3. \A E, Q : Interleaved(TraceOf(config), E, Q)' <=> Interleaved(TraceOf(config), E, Q)
  BY <1>1 DEF Interleaved, TakesEvent, TakesQuery
<1> QED BY <1>1, <1>2, <1>3

LEMMA EventTimes ==
  ASSUME ScheduleInv, UsersTyped(users), UNCHANGED events, NEW n \in Nat, n + 1 \in 1..Len(events),
         NEW yes, UserMoved(events[n + 1].key, events[n + 1].ts, yes),
         Sim!Admissible(events[n + 1].key, events[n + 1].ts), TimelyUpto(users, n)
  PROVE  TimelyUpto(users, n + 1)'
<1> DEFINE k == events[n + 1].key
           ts == events[n + 1].ts
<1>1. \A j \in 1..n + 1 : j \in 1..Len(events) /\ events[j].key \in SimKeys /\ events[j].ts \in Nat
  <2>1. \A j \in 1..n + 1 : j \in 1..Len(events)
    BY DEF ScheduleInv
  <2>2. \A o \in EventOp : o.key \in SimKeys /\ o.ts \in Nat
    BY DEF EventOp, SimKeys
  <2> QED BY <2>1, <2>2, ElementOfSeq DEF ScheduleInv
<1>2. /\ users'[k]["count"] = users[k]["count"] + 1 /\ users'[k]["lastNs"] = ts
      /\ \A x \in SimKeys : x # k => users'[x] = users[x]
  BY DEF UserMoved
<1>3. users[k]["count"] \in Nat /\ users[k]["lastNs"] \in Nat /\ k \in SimKeys /\ ts \in Nat
  BY <1>1 DEF UsersTyped, IsUser
<1>4. users[k]["count"] > 0 => users[k]["lastNs"] <= ts
  BY <1>3 DEF Sim!Admissible
<1>5. /\ \A j \in 1..n : users[events[j].key]["count"] > 0
                          /\ events[j].ts <= users[events[j].key]["lastNs"]
      /\ \A i, j \in 1..n : i < j /\ events[i].key = events[j].key => events[i].ts <= events[j].ts
  BY DEF TimelyUpto
<1>6. \A j \in 1..n : events[j].key = k => events[j].ts <= ts
  <2> SUFFICES ASSUME NEW j \in 1..n, events[j].key = k PROVE events[j].ts <= ts
    OBVIOUS
  <2>1. events[j].ts <= users[k]["lastNs"] /\ users[k]["lastNs"] <= ts
    BY <1>4, <1>5
  <2>2. events[j].ts \in Nat
    BY <1>1
  <2> QED BY <1>3, <2>1, <2>2
<1> HIDE DEF k, ts
<1>7. ASSUME NEW j \in 1..n + 1
      PROVE  users'[events[j].key]["count"] > 0 /\ events[j].ts <= users'[events[j].key]["lastNs"]
  <2>1. CASE events[j].key = k
    <3>1. events[j].ts <= ts
      <4>1. CASE j = n + 1
        BY <1>3, <4>1 DEF ts
      <4>2. CASE j # n + 1
        BY <1>6, <2>1, <4>2
      <4> QED BY <4>1, <4>2
    <3> QED BY <1>2, <1>3, <2>1, <3>1
  <2>2. CASE events[j].key # k
    <3>1. j \in 1..n
      BY <2>2 DEF k
    <3> QED BY <1>1, <1>2, <1>5, <2>2, <3>1
  <2> QED BY <2>1, <2>2
<1>8. ASSUME NEW i \in 1..n + 1, NEW j \in 1..n + 1, i < j, events[i].key = events[j].key
      PROVE  events[i].ts <= events[j].ts
  <2>1. i \in 1..n
    BY <1>8
  <2>2. CASE j = n + 1
    BY <1>6, <1>8, <2>1, <2>2 DEF k, ts
  <2>3. CASE j # n + 1
    BY <1>5, <1>8, <2>1, <2>3
  <2> QED BY <2>2, <2>3
<1> QED BY <1>7, <1>8 DEF TimelyUpto

LEMMA EventTrial ==
  ASSUME ScheduleInv, WholeTrace, TrialAccounted, TrialInv, ResultInv, TrialEvent,
         UNCHANGED workVars
  PROVE  TrialInv'
<1> DEFINE T == TraceOf(config)
           o == NextOp
           q == o.phase
<1>0. /\ config # <<>> /\ Running /\ o.op = "event" /\ o = T[at + 1]
      /\ UNCHANGED <<config, answers, events, queries>> /\ at' = at + 1
      /\ phaseAcct' = [phaseAcct EXCEPT ![q] = WithEvent(@)]
      /\ Sim!Admissible(o.key, o.ts)
  BY DEF TrialEvent, Running, workVars, NextOp, ProcessByQuota, Sim!ProcessEvent
<1>1. /\ at \in 0..Len(T) /\ UsersTyped(users) /\ answers \in Seq(Nat)
      /\ CurrentCore = CoreOf(config, at) /\ Sum("published") = acct["published"]
      /\ \A E, Q : Interleaved(T, E, Q) => CountedUpto(E[at], Q[at]) /\ TimelyUpto(users, E[at])
  BY <1>0 DEF TrialInv
<1>2. /\ policy = config.policy /\ acct \in [SimCounters -> Nat]
      /\ phaseAcct \in [Phases -> [PhaseCounters -> Int]] /\ PolicyTyped(policy)
  BY <1>0 DEF TrialAccounted, ResultInv, Proper
<1>3. at + 1 \in 1..Len(T) /\ o \in EventOp /\ Len(T) \in Nat
  <2>1. Len(T) \in Nat
    BY TraceInterleaved
  <2> QED BY <1>0, <2>1, NextOpTyped
<1>4. o.key \in SimKeys /\ o.ts \in Nat /\ q \in Phases
  BY <1>3 DEF EventOp, SimKeys
<1>5. PICK yes \in BOOLEAN : Decided(o.key, o.ts, yes)
  BY <1>1, <1>2, <1>3, EventDecided
<1>6. CurrentCore' = AfterEvent(policy, config.order, o, CurrentCore)
  BY <1>0, <1>4, <1>5, EventCore
<1>7. CoreOf(config, at + 1) = After(config.policy, config.order, T[at + 1], CoreOf(config, at))
  <2>1. (at + 1) - 1 = at
    BY <1>1
  <2> QED BY <1>3, <2>1, CoreSteps
<1>8. CurrentCore' = CoreOf(config, at + 1)
  BY <1>0, <1>1, <1>2, <1>6, <1>7 DEF After
<1>9. UsersTyped(users')
  BY <1>5 DEF Decided, UserMoved
<1>10. PhasesMoved(q, yes)
  BY <1>0, <1>2, <1>4, <1>5, EventMovesPhases DEF Decided
<1>11. phaseAcct' \in [Phases -> [PhaseCounters -> Int]] /\ Sum("published")' = acct'["published"]
  <2>1. phaseAcct'[q] = WithEvent(phaseAcct[q]) /\ WithEvent(phaseAcct[q]) \in [PhaseCounters -> Int]
    <3>1. phaseAcct'[q] = WithEvent(phaseAcct[q])
      BY <1>0, <1>2, <1>4
    <3>2. phaseAcct[q] \in [PhaseCounters -> Int]
      BY <1>2, <1>4
    <3>3. /\ acct["published"] \in Int /\ acct["coalesced"] \in Int
          /\ acct'["published"] \in Int /\ acct'["coalesced"] \in Int
      BY <1>2, <1>5 DEF Decided, AccountMoved, SimCounters
    <3> DEFINE b == phaseAcct[q]
    <3> HIDE DEF b
    <3>4. WithEvent(b) = [b EXCEPT !["admitted"] = b["admitted"] + 1,
                !["published"] = b["published"] + acct'["published"] - acct["published"],
                !["coalesced"] = b["coalesced"] + acct'["coalesced"] - acct["coalesced"]]
      BY <3>2 DEF WithEvent, PhaseCounters, b
    <3>5. WithEvent(b) \in [PhaseCounters -> Int]
      BY <3>2, <3>3, <3>4 DEF PhaseCounters, b
    <3> QED BY <3>1, <3>5 DEF b
  <2>2. phaseAcct' \in [Phases -> [PhaseCounters -> Int]]
    BY <1>0, <1>2, <1>4, <2>1
  <2> DEFINE d == IF yes THEN 1 ELSE 0
  <2>3. d \in Nat /\ phaseAcct'[q]["published"] = phaseAcct[q]["published"] + d
    <3>1. phaseAcct[q]["published"] \in Int
      BY <1>2, <1>4 DEF PhaseCounters
    <3> QED BY <1>10, <3>1 DEF PhasesMoved
  <2>4. \A p \in Phases : p # q => phaseAcct'[p]["published"] = phaseAcct[p]["published"]
    BY <1>10 DEF PhasesMoved
  <2>5. acct'["published"] = acct["published"] + d
    BY <1>2, <1>5 DEF Decided, AccountMoved, SimCounters
  <2> HIDE DEF d, q
  <2>6. Sum("published")' = Sum("published") + d
    BY <1>2, <1>4, <2>2, <2>3, <2>4, SumMoves
  <2> QED BY <1>1, <2>2, <2>5, <2>6
<1>12. ASSUME NEW E, NEW Q, Interleaved(T, E, Q), NEW e, e = E[at + 1], NEW m, m = Q[at + 1]
       PROVE  CountedUpto(e, m)' /\ TimelyUpto(users, e)'
  <2> DEFINE n == e - 1
  <2>1. CountedUpto(E[at], Q[at]) /\ TimelyUpto(users, E[at])
    BY <1>1, <1>12
  <2>2. TakesEvent(T, E, Q, at + 1)
    <3>1. TakesEvent(T, E, Q, at + 1) \/ TakesQuery(T, E, Q, at + 1)
      BY <1>3, <1>12 DEF Interleaved
    <3> QED BY <1>0, <3>1 DEF TakesQuery
  <2>3. /\ n \in Nat /\ E[at] = n /\ e = n + 1 /\ m = Q[at] /\ n + 1 \in 1..Len(events)
        /\ o = events[n + 1]
    <3>1. (at + 1) - 1 = at /\ at + 1 \in 0..Len(T)
      BY <1>1, <1>3
    <3>2. E[at] \in 0..Len(events) /\ E[at + 1] \in 0..Len(events)
      BY <1>1, <1>12, <3>1 DEF Interleaved
    <3>3. E[at + 1] = E[at] + 1 /\ Q[at + 1] = Q[at] /\ o = events[E[at + 1]]
      BY <1>0, <2>2, <3>1 DEF TakesEvent
    <3> QED BY <1>12, <3>2, <3>3
  <2> HIDE DEF n
  <2>4. TimelyUpto(users, n + 1)'
    <3>1. UserMoved(events[n + 1].key, events[n + 1].ts, yes)
      BY <1>5, <2>3 DEF Decided
    <3>2. Sim!Admissible(events[n + 1].key, events[n + 1].ts)
      BY <1>0, <2>3
    <3> QED BY <1>0, <1>1, <2>1, <2>3, <3>1, <3>2, EventTimes
  <2>5. ASSUME NEW p \in Phases
        PROVE  /\ phaseAcct'[p]["admitted"] = Share("events", p, n + 1)
               /\ phaseAcct'[p]["completed"] = Share("queries", p, m)
               /\ phaseAcct'[p]["admitted"] = phaseAcct'[p]["published"] + phaseAcct'[p]["coalesced"]
    <3>1. /\ phaseAcct[p]["admitted"] = Share("events", p, n)
          /\ phaseAcct[p]["completed"] = Share("queries", p, m)
          /\ phaseAcct[p]["admitted"] = phaseAcct[p]["published"] + phaseAcct[p]["coalesced"]
      BY <2>1, <2>3 DEF CountedUpto
    <3>2. Share("events", p, n + 1) = IF p = q THEN Share("events", p, n) + 1
                                       ELSE Share("events", p, n)
      <4>1. Before("events", q - 1) < n + 1 /\ n + 1 <= Before("events", q)
        BY <2>3 DEF ScheduleInv, Stretched
      <4>2. n + 1 \in Nat \ {0} /\ (n + 1) - 1 = n
        BY <2>3
      <4> HIDE DEF q, n
      <4> QED BY <1>4, <4>1, <4>2, ShareGrows
    <3>3. /\ phaseAcct[p]["published"] \in Int /\ phaseAcct[p]["coalesced"] \in Int
      BY <1>2 DEF PhaseCounters
    <3> HIDE DEF q, n
    <3>4. CASE p = q
      BY <1>10, <3>1, <3>2, <3>3, <3>4 DEF PhasesMoved
    <3>5. CASE p # q
      BY <1>10, <3>1, <3>2, <3>5 DEF PhasesMoved
    <3> QED BY <3>4, <3>5
  <2>6. acct'["processed"] = n + 1 /\ Len(answers') = m
    BY <1>0, <1>5, <2>1, <2>3 DEF CountedUpto, Decided, AccountMoved
  <2>7. CountedUpto(e, m)'
    BY <2>3, <2>5, <2>6 DEF CountedUpto
  <2>8. TimelyUpto(users, e)'
    BY <2>3, <2>4 DEF TimelyUpto
  <2> QED BY <2>7, <2>8
<1>13. /\ TraceOf(config)' = T /\ \A i : CoreOf(config, i)' = CoreOf(config, i)
       /\ \A E, Q : Interleaved(TraceOf(config), E, Q)' <=> Interleaved(T, E, Q)
  BY <1>0, ConfigKept
<1>14. CurrentCore' = CoreOf(config, at)'
  <2>1. PICK i : i = at + 1
    OBVIOUS
  <2>2. CoreOf(config, i)' = CurrentCore' /\ at' = i
    BY <1>0, <1>8, <1>13, <2>1
  <2> QED BY <2>2 DEF CoreOf
<1>15. at' \in 0..Len(T)
  BY <1>0, <1>3
<1> HIDE DEF T
<1>16. ASSUME NEW E, NEW Q, Interleaved(TraceOf(config), E, Q)'
       PROVE  CountedUpto(E[at], Q[at])' /\ TimelyUpto(users, E[at])'
  <2>1. PICK e, m : e = E[at + 1] /\ m = Q[at + 1]
    OBVIOUS
  <2>2. CountedUpto(e, m)' /\ TimelyUpto(users, e)' /\ E[at'] = e /\ Q[at'] = m
    BY <1>0, <1>12, <1>13, <1>16, <2>1
  <2> QED BY <2>2 DEF CountedUpto, TimelyUpto
<1> QED BY <1>0, <1>1, <1>9, <1>11, <1>13, <1>14, <1>15, <1>16 DEF TrialInv
-----------------------------------------------------------------------------
(* A query takes the pending count of its key into the answers.           *)
LEMMA QueryTrial ==
  ASSUME ScheduleInv, WholeTrace, TrialAccounted, TrialInv, TrialQuery, UNCHANGED workVars
  PROVE  TrialInv'
<1> DEFINE T == TraceOf(config)
           o == NextOp
           q == o.phase
           c == CurrentCore
<1>0. /\ config # <<>> /\ Running /\ o.op = "query" /\ o = T[at + 1]
      /\ UNCHANGED <<config, accumulator, users, events, queries>> /\ at' = at + 1
      /\ phaseAcct' = [phaseAcct EXCEPT ![q].completed = @ + 1]
      /\ answers' = Append(answers, users[o.key].pending)
  BY DEF TrialQuery, Running, workVars, NextOp, Sim!Query
<1>1. /\ at \in 0..Len(T) /\ UsersTyped(users) /\ answers \in Seq(Nat)
      /\ c = CoreOf(config, at) /\ Sum("published") = acct["published"]
      /\ \A E, Q : Interleaved(T, E, Q) => CountedUpto(E[at], Q[at]) /\ TimelyUpto(users, E[at])
  BY <1>0 DEF TrialInv
<1>2. acct \in [SimCounters -> Nat] /\ phaseAcct \in [Phases -> [PhaseCounters -> Int]]
  BY <1>0 DEF TrialAccounted
<1>3. at + 1 \in 1..Len(T) /\ o \in Ops /\ Len(T) \in Nat
  <2>1. Len(T) \in Nat
    BY TraceInterleaved
  <2> QED BY <1>0, <2>1, NextOpTyped
<1>4. o.key \in SimKeys /\ q \in Phases
  BY <1>3, OpsTyped
<1>5. acct'["published"] = acct["published"] /\ acct'["processed"] = acct["processed"]
  <2> DEFINE kind == IF cache[NextOp.key].version = 0 THEN "cold" ELSE "warm"
  <2>1. kind \in {"cold", "warm"}
    OBVIOUS
  <2>2. acct' = [acct EXCEPT !.served = @ + 1, ![kind] = @ + 1]
    BY DEF TrialQuery, Sim!Query
  <2> HIDE DEF kind
  <2>3. acct' = [acct EXCEPT !["served"] = acct["served"] + 1, ![kind] = acct[kind] + 1]
    BY <1>2, <2>1, <2>2 DEF SimCounters
  <2> QED BY <1>2, <2>1, <2>3 DEF SimCounters
<1>6. answers' \in Seq(Nat) /\ Len(answers') = Len(answers) + 1
  <2>1. users[o.key].pending \in Nat
    BY <1>1, <1>4 DEF UsersTyped, IsUser
  <2> QED BY <1>0, <1>1, <2>1, AppendProperties
<1>7. CurrentCore' = AfterQuery(o, c)
  <2>1. c.pending[o.key] = users[o.key].pending /\ c.pending = [x \in SimKeys |-> users[x]["pending"]]
        /\ c.accumulator = accumulator /\ c.published = acct["published"] /\ c.answers = answers
    BY <1>4 DEF CurrentCore
  <2>2. CurrentCore' = [pending |-> [x \in SimKeys |-> users[x]["pending"]],
                        accumulator |-> accumulator, published |-> acct["published"],
                        answers |-> Append(answers, users[o.key].pending)]
    BY <1>0, <1>5 DEF CurrentCore
  <2>3. AfterQuery(o, c) = [pending |-> c.pending, accumulator |-> c.accumulator,
                            published |-> c.published,
                            answers |-> Append(c.answers, c.pending[o.key])]
    BY DEF AfterQuery
  <2> HIDE DEF c, o
  <2> QED BY <2>1, <2>2, <2>3
<1>8. CurrentCore' = CoreOf(config, at + 1)
  <2>1. (at + 1) - 1 = at
    BY <1>1
  <2>2. CoreOf(config, at + 1) = After(config.policy, config.order, T[at + 1], CoreOf(config, at))
    BY <1>3, <2>1, CoreSteps
  <2> QED BY <1>0, <1>1, <1>7, <2>2 DEF After
<1>10. /\ phaseAcct' \in [Phases -> [PhaseCounters -> Int]]
       /\ \A p \in Phases : /\ p # q => phaseAcct'[p] = phaseAcct[p]
                            /\ phaseAcct'[p]["admitted"] = phaseAcct[p]["admitted"]
                            /\ phaseAcct'[p]["published"] = phaseAcct[p]["published"]
                            /\ phaseAcct'[p]["coalesced"] = phaseAcct[p]["coalesced"]
       /\ phaseAcct'[q]["completed"] = phaseAcct[q]["completed"] + 1
  <2> DEFINE b == phaseAcct[q]
             a == [b EXCEPT !["completed"] = b["completed"] + 1]
  <2>1. phaseAcct' = [phaseAcct EXCEPT ![q] = a]
    BY <1>0
  <2>2. b \in [PhaseCounters -> Int]
    BY <1>2, <1>4
  <2>3. /\ a \in [PhaseCounters -> Int] /\ a["completed"] = b["completed"] + 1
        /\ a["admitted"] = b["admitted"] /\ a["published"] = b["published"]
        /\ a["coalesced"] = b["coalesced"]
    <3> HIDE DEF b
    <3> QED BY <2>2 DEF PhaseCounters
  <2> HIDE DEF a, q
  <2> QED BY <1>2, <1>4, <2>1, <2>3
<1>11. Sum("published")' = acct'["published"]
  <2>1. phaseAcct'[q]["published"] = phaseAcct[q]["published"] + 0
    <3>1. phaseAcct[q]["published"] \in Int
      BY <1>2, <1>4 DEF PhaseCounters
    <3> QED BY <1>4, <1>10, <3>1
  <2>2. \A p \in Phases : p # q => phaseAcct'[p]["published"] = phaseAcct[p]["published"]
    BY <1>10
  <2> HIDE DEF q
  <2>3. Sum("published")' = Sum("published") + 0
    BY <1>2, <1>4, <1>10, <2>1, <2>2, SumMoves
  <2>4. acct["published"] + 0 = acct["published"]
    BY <1>2 DEF SimCounters
  <2> QED BY <1>1, <1>5, <2>3, <2>4
<1>12. ASSUME NEW E, NEW Q, Interleaved(T, E, Q), NEW e, e = E[at + 1], NEW m, m = Q[at + 1]
       PROVE  CountedUpto(e, m)' /\ TimelyUpto(users, e)'
  <2> DEFINE n == m - 1
  <2>1. CountedUpto(E[at], Q[at]) /\ TimelyUpto(users, E[at])
    BY <1>1, <1>12
  <2>2. TakesQuery(T, E, Q, at + 1)
    <3>1. TakesEvent(T, E, Q, at + 1) \/ TakesQuery(T, E, Q, at + 1)
      BY <1>3, <1>12 DEF Interleaved
    <3> QED BY <1>0, <3>1 DEF TakesEvent
  <2>3. /\ n \in Nat /\ Q[at] = n /\ m = n + 1 /\ e = E[at] /\ n + 1 \in 1..Len(queries)
        /\ o = queries[n + 1]
    <3>1. (at + 1) - 1 = at /\ at + 1 \in 0..Len(T)
      BY <1>1, <1>3
    <3>2. Q[at] \in 0..Len(queries) /\ Q[at + 1] \in 0..Len(queries)
      BY <1>1, <1>12, <3>1 DEF Interleaved
    <3>3. Q[at + 1] = Q[at] + 1 /\ E[at + 1] = E[at] /\ o = queries[Q[at + 1]]
      BY <1>0, <2>2, <3>1 DEF TakesQuery
    <3> QED BY <1>12, <3>2, <3>3
  <2> HIDE DEF n
  <2>4. TimelyUpto(users, e)'
    BY <1>0, <2>1, <2>3 DEF TimelyUpto
  <2>5. ASSUME NEW p \in Phases
        PROVE  /\ phaseAcct'[p]["admitted"] = Share("events", p, e)
               /\ phaseAcct'[p]["completed"] = Share("queries", p, n + 1)
               /\ phaseAcct'[p]["admitted"] = phaseAcct'[p]["published"] + phaseAcct'[p]["coalesced"]
    <3>1. /\ phaseAcct[p]["admitted"] = Share("events", p, e)
          /\ phaseAcct[p]["completed"] = Share("queries", p, n)
          /\ phaseAcct[p]["admitted"] = phaseAcct[p]["published"] + phaseAcct[p]["coalesced"]
      BY <2>1, <2>3 DEF CountedUpto
    <3>2. Share("queries", p, n + 1) = IF p = q THEN Share("queries", p, n) + 1
                                        ELSE Share("queries", p, n)
      <4>1. Before("queries", q - 1) < n + 1 /\ n + 1 <= Before("queries", q)
        BY <2>3 DEF ScheduleInv, Stretched
      <4>2. n + 1 \in Nat \ {0} /\ (n + 1) - 1 = n
        BY <2>3
      <4> HIDE DEF q, n
      <4> QED BY <1>4, <4>1, <4>2, ShareGrows
    <3> HIDE DEF q, n
    <3>4. CASE p = q
      BY <1>10, <3>1, <3>2, <3>4
    <3>5. CASE p # q
      BY <1>10, <3>1, <3>2, <3>5
    <3> QED BY <3>4, <3>5
  <2>6. acct'["processed"] = e /\ Len(answers') = n + 1
    BY <1>5, <1>6, <2>1, <2>3 DEF CountedUpto
  <2>7. CountedUpto(e, m)'
    BY <2>3, <2>5, <2>6 DEF CountedUpto
  <2> QED BY <2>4, <2>7
<1>13. /\ TraceOf(config)' = T /\ \A i : CoreOf(config, i)' = CoreOf(config, i)
       /\ \A E, Q : Interleaved(TraceOf(config), E, Q)' <=> Interleaved(T, E, Q)
  BY <1>0, ConfigKept
<1>14. CurrentCore' = CoreOf(config, at)'
  <2>1. PICK i : i = at + 1
    OBVIOUS
  <2>2. CoreOf(config, i)' = CurrentCore' /\ at' = i
    BY <1>0, <1>8, <1>13, <2>1
  <2> QED BY <2>2 DEF CoreOf
<1>15. at' \in 0..Len(T)
  BY <1>0, <1>3
<1> HIDE DEF T, c
<1>16. ASSUME NEW E, NEW Q, Interleaved(TraceOf(config), E, Q)'
       PROVE  CountedUpto(E[at], Q[at])' /\ TimelyUpto(users, E[at])'
  <2>1. PICK e, m : e = E[at + 1] /\ m = Q[at + 1]
    OBVIOUS
  <2>2. CountedUpto(e, m)' /\ TimelyUpto(users, e)' /\ E[at'] = e /\ Q[at'] = m
    BY <1>0, <1>12, <1>13, <1>16, <2>1
  <2> QED BY <2>2 DEF CountedUpto, TimelyUpto
<1> QED BY <1>0, <1>1, <1>6, <1>11, <1>13, <1>14, <1>15, <1>16 DEF TrialInv

(* A new trial begins at the start of its trace.                          *)
LEMMA NewTrialBegins ==
  ASSUME ScheduleInv, WholeTrace, NewTrial
  PROVE  TrialInv'
<1> DEFINE c == NextTrial
<1>1. /\ config' = c /\ at' = 0 /\ answers' = <<>> /\ accumulator' = 0 /\ phaseAcct' = NoAccounts
      /\ users' = [k \in SimKeys |-> Sim!NewUser]
      /\ acct' = [processed |-> 0, published |-> 0, coalesced |-> 0,
                  served |-> 0, cold |-> 0, warm |-> 0]
      /\ UNCHANGED <<events, queries>>
  BY DEF NewTrial, BeginTrial, NewSimulator, workVars
<1>2. Sum("published")' = 0
  <2> DEFINE f == [p \in Phases |-> NoAccounts[p]["published"]]
  <2>1. f \in [1..Len(PhaseSpecs) -> {0}]
    BY EventsCounted DEF NoAccounts
  <2>2. Sum("published")' = SumFunction(f)
    BY <1>1 DEF Sum
  <2> HIDE DEF f
  <2> QED BY <2>1, <2>2, EventsCounted, SumOfZeros
<1>3. UsersTyped(users') /\ \A k \in SimKeys : users'[k]["pending"] = 0
  <2>1. IsUser(Sim!NewUser) /\ Sim!NewUser["pending"] = 0
    BY DEF IsUser, Sim!NewUser, UserFields
  <2> QED BY <1>1, <2>1 DEF UsersTyped
<1>4. CurrentCore' = Before1st
  <2>1. [k \in SimKeys |-> users'[k]["pending"]] = [k \in SimKeys |-> 0]
    BY <1>3
  <2> QED BY <1>1, <2>1 DEF CurrentCore, Before1st
<1>5. \A d : TraceOf(d) \in Seq(Ops) /\ TraceOf(d)' = TraceOf(d)
             /\ CoreOf(d, 0)' = CoreOf(d, 0)
             /\ \A E, Q : Interleaved(TraceOf(d), E, Q)' <=> Interleaved(TraceOf(d), E, Q)
  BY <1>1, TraceInterleaved, TraceKept
<1>6. PICK d : d = c
  OBVIOUS
<1>7. config' = d /\ TraceOf(config)' = TraceOf(d) /\ CoreOf(config, 0)' = CoreOf(d, 0)
      /\ \A E, Q : Interleaved(TraceOf(config), E, Q)' <=> Interleaved(TraceOf(d), E, Q)
  <2>1. config' = d
    BY <1>1, <1>6
  <2>2. TraceOf(config)' = TraceOf(d)'
    BY <2>1 DEF TraceOf, ByPhase, InPhase
  <2>3. TraceOf(config)' = TraceOf(d)
    BY <1>5, <2>2
  <2>4. CoreOf(config, 0)' = CoreOf(d, 0)
    BY <2>1, <2>3 DEF CoreOf
  <2>5. \A E, Q : Interleaved(TraceOf(config), E, Q)' <=> Interleaved(TraceOf(d), E, Q)
    BY <1>1, <2>3 DEF Interleaved, TakesEvent, TakesQuery
  <2> QED BY <2>1, <2>3, <2>4, <2>5
<1>8. Len(TraceOf(d)) \in Nat /\ CoreOf(d, 0) = Before1st
  <2>1. Len(TraceOf(d)) \in Nat
    BY <1>5
  <2> QED BY <2>1, CoreSteps
<1>9. CurrentCore' = CoreOf(config, at)'
  <2>1. CoreOf(config, at)' = CoreOf(config, 0)'
    BY <1>1 DEF CoreOf
  <2> QED BY <1>4, <1>7, <1>8, <2>1
<1>10. ASSUME NEW E, NEW Q, Interleaved(TraceOf(config), E, Q)'
       PROVE  CountedUpto(E[at], Q[at])' /\ TimelyUpto(users, E[at])'
  <2>1. E[0] = 0 /\ Q[0] = 0
    BY <1>7, <1>10 DEF Interleaved
  <2>2. TimelyUpto(users, 0)'
    BY DEF TimelyUpto
  <2>3. CountedUpto(0, 0)'
    <3>1. \A p \in Phases : Share("events", p, 0) = 0 /\ Share("queries", p, 0) = 0
      BY ShareGrows
    <3>2. acct'["processed"] = 0 /\ Len(answers') = 0
      BY <1>1
    <3>3. \A p \in Phases : /\ phaseAcct'[p]["admitted"] = 0 /\ phaseAcct'[p]["completed"] = 0
                            /\ phaseAcct'[p]["published"] = 0 /\ phaseAcct'[p]["coalesced"] = 0
      BY <1>1 DEF NoAccounts
    <3> QED BY <3>1, <3>2, <3>3 DEF CountedUpto
  <2>4. E[at'] = 0 /\ Q[at'] = 0
    BY <1>1, <2>1
  <2> QED BY <2>2, <2>3, <2>4 DEF CountedUpto, TimelyUpto
<1>11. at' \in 0..Len(TraceOf(config))' /\ answers' \in Seq(Nat) /\ acct'["published"] = 0
  BY <1>1, <1>7, <1>8
<1> QED BY <1>2, <1>3, <1>9, <1>10, <1>11 DEF TrialInv
-----------------------------------------------------------------------------
(* A trial at its end.                                                    *)
LEMMA ExactShare ==
  ASSUME NEW T \in Nat, NEW t \in Int, NEW u \in Int, NEW a \in 0..(T - 1), T * t = u * T + a
  PROVE  u = t
<1>1. T > 0 /\ T * t = t * T
  OBVIOUS
<1>2. ~(u + 1 <= t)
  <2> SUFFICES ASSUME u + 1 <= t PROVE FALSE
    OBVIOUS
  <2>1. (u + 1) * T <= t * T
    BY <1>1
  <2>2. (u + 1) * T = u * T + T
    OBVIOUS
  <2> QED BY <1>1, <2>1, <2>2
<1>3. ~(t + 1 <= u)
  <2> SUFFICES ASSUME t + 1 <= u PROVE FALSE
    OBVIOUS
  <2>1. (t + 1) * T <= u * T
    BY <1>1
  <2>2. (t + 1) * T = t * T + T
    OBVIOUS
  <2> QED BY <1>1, <2>1, <2>2
<1> QED BY <1>2, <1>3

LEMMA OpsCounted ==
  ASSUME ScheduleInv, WholeTrace
  PROVE  /\ Len(events) = TotalEvents /\ Len(queries) = Total("queries")
         /\ DOMAIN events = 1..Len(events) /\ DOMAIN queries = 1..Len(queries)
         /\ Len(events) \in Nat /\ Len(queries) \in Nat
<1>1. phase - 1 = PhaseCount
  BY PhaseFacts DEF WholeTrace
<1> QED BY <1>1, BeforeFacts DEF ScheduleInv, Stretched, TotalEvents

LEMMA TrialFulfilled ==
  ASSUME ScheduleInv, WholeTrace, ExperimentInv, TrialInv, EndTrial,
         NEW r, r = [config |-> config, published |-> Sum("published"),
                     staleness |-> answers, verified |-> Verified]
  PROVE  Fulfilled(r) /\ TimesOfKeyGrow
<1> DEFINE T == TraceOf(config)
<1>0. config # <<>> /\ ~Running
  BY DEF EndTrial
<1>1. /\ at \in 0..Len(T) /\ answers \in Seq(Nat)
      /\ CurrentCore = CoreOf(config, at) /\ Sum("published") = acct["published"]
      /\ \A E, Q : Interleaved(T, E, Q) => CountedUpto(E[at], Q[at]) /\ TimelyUpto(users, E[at])
  BY <1>0 DEF TrialInv
<1>2. T \in Seq(Ops) /\ Len(T) \in Nat
  BY TraceInterleaved
<1>3. at = Len(T)
  BY <1>0, <1>1, <1>2 DEF Running
<1>4. PICK E, Q : Interleaved(T, E, Q)
  BY TraceInterleaved
<1>5. E[at] = Len(events) /\ Q[at] = Len(queries)
  BY <1>3, <1>4 DEF Interleaved
<1>6. CountedUpto(Len(events), Len(queries)) /\ TimelyUpto(users, Len(events))
  BY <1>1, <1>4, <1>5
<1>7. TimesOfKeyGrow
  BY <1>6, OpsCounted DEF TimelyUpto, TimesOfKeyGrow
<1>8. Verified
  <2>1. \A p \in Phases : /\ Share("events", p, Len(events)) = PhaseSpecs[p]["events"]
                          /\ Share("queries", p, Len(queries)) = PhaseSpecs[p]["queries"]
    BY OpsCounted, ShareGrows DEF TotalEvents
  <2> QED BY <1>6, <2>1, OpsCounted DEF CountedUpto, Verified
<1>9. /\ r.config = config /\ r.published = acct["published"] /\ r.staleness = answers
      /\ r.verified = TRUE /\ acct["published"] \in Nat
  <2>1. acct["published"] \in Nat
    BY <1>0 DEF ExperimentInv, TrialAccounted, SimCounters
  <2> QED BY <1>1, <1>8, <2>1
<1>10. CurrentCore.published = acct["published"] /\ CurrentCore.answers = answers
  BY DEF CurrentCore
<1>11. Len(answers) = Len(queries)
  BY <1>6 DEF CountedUpto
<1>12. IsQuota(config.policy) => acct["published"] = config.policy.target
  <2> SUFFICES ASSUME IsQuota(config.policy) PROVE acct["published"] = config.policy.target
    OBVIOUS
  <2>1. /\ policy = config.policy /\ acct["published"] \in Int
        /\ policy.target \in 1..TotalEvents /\ accumulator \in 0..(TotalEvents - 1)
        /\ acct["processed"] * policy.target = acct["published"] * TotalEvents + accumulator
    BY <1>0 DEF ExperimentInv, TrialAccounted, BudgetSpread, SimCounters
  <2>2. acct["processed"] = TotalEvents /\ TotalEvents \in Nat
    BY <1>6, OpsCounted DEF CountedUpto
  <2>3. policy.target \in Int
    BY <2>1, <2>2
  <2>4. TotalEvents * policy.target = acct["published"] * TotalEvents + accumulator
    BY <2>1, <2>2
  <2>5. acct["published"] = policy.target
    BY <2>1, <2>2, <2>3, <2>4, ExactShare, Zenon
  <2> QED BY <2>1, <2>5
<1>13. CoreOf(config, Len(T)) = CurrentCore
  BY <1>1, <1>3
<1> HIDE DEF T
<1>14. Fulfilled(r)
  BY <1>1, <1>9, <1>10, <1>11, <1>12, <1>13 DEF Fulfilled, T
<1> QED BY <1>7, <1>14

LEMMA ResultsStay ==
  ASSUME UNCHANGED <<events, queries>>
  PROVE  (\A r : Fulfilled(r)' <=> Fulfilled(r)) /\ (TimesOfKeyGrow' <=> TimesOfKeyGrow)
<1>1. ASSUME NEW r PROVE Fulfilled(r)' <=> Fulfilled(r)
  <2>1. PICK c : c = r.config
    OBVIOUS
  <2>2. TraceOf(c)' = TraceOf(c) /\ \A i : CoreOf(c, i)' = CoreOf(c, i)
    BY TraceKept
  <2>3. PICK i : i = Len(TraceOf(c))
    OBVIOUS
  <2>4. CoreOf(c, Len(TraceOf(c)))' = CoreOf(c, Len(TraceOf(c)))
    <3>1. CoreOf(c, i)' = CoreOf(c, i)
      BY <2>2
    <3>2. Len(TraceOf(c))' = i
      BY <2>2, <2>3
    <3> QED BY <2>3, <3>1, <3>2 DEF CoreOf
  <2> QED BY <2>1, <2>4 DEF Fulfilled
<1>2. TimesOfKeyGrow' <=> TimesOfKeyGrow
  BY DEF TimesOfKeyGrow
<1> QED BY <1>1, <1>2

LEMMA EndResult ==
  ASSUME ScheduleInv, WholeTrace, ExperimentInv, TrialInv, ResultInv, EndTrial,
         UNCHANGED <<workVars, tool, uStar>>
  PROVE  ResultInv'
<1> DEFINE r == [config |-> config, published |-> Sum("published"),
                 staleness |-> answers, verified |-> Verified]
<1>1. config # <<>> /\ config' = <<>> /\ results' = Append(results, r)
      /\ UNCHANGED <<events, queries, tool, uStar>>
  BY DEF EndTrial, workVars
<1>2. Fulfilled(r) /\ TimesOfKeyGrow
  BY TrialFulfilled
<1>3. r.config = config
  OBVIOUS
<1>4. /\ uStar \in Nat /\ Proper(config, Len(results) + 1)
      /\ \A i \in 1..Len(results) : Proper(results[i].config, i) /\ Fulfilled(results[i])
  BY <1>1 DEF ResultInv
<1> HIDE DEF r
<1>5. IsList(results)
  BY DEF ExperimentInv, ResultsBounded
<1>6. Grown(results', results, r)
  BY <1>1, <1>5, AppendGrows
<1>7. /\ Len(results) \in Nat /\ Len(results') = Len(results) + 1
      /\ \A i \in 1..Len(results) : results'[i] = results[i]
      /\ results'[Len(results) + 1] = r
  <2>1. DOMAIN results = 1..Len(results) /\ DOMAIN results' = 1..Len(results')
        /\ Len(results) \in Nat /\ Len(results') = Len(results) + 1
    BY <1>5, <1>6 DEF IsList, Grown
  <2> QED BY <1>6, <2>1 DEF Grown
<1>8. Len(Tuning) \in Nat
  BY TuningTyped
<1>9. \A c, i : i \in 1..Len(results) + 1 /\ Proper(c, i) => Proper(c, i)'
  <2> SUFFICES ASSUME NEW c, NEW i \in 1..Len(results) + 1, Proper(c, i) PROVE Proper(c, i)'
    BY <1>7
  <2>1. i = Len(Tuning) + 4 => results'[Len(Tuning) + 2] = results[Len(Tuning) + 2]
    <3>1. i = Len(Tuning) + 4 => Len(Tuning) + 2 \in 1..Len(results)
      BY <1>7, <1>8
    <3> QED BY <1>7, <3>1
  <2> QED BY <1>1, <2>1 DEF Proper
<1>10. ASSUME NEW i \in 1..Len(results')
       PROVE  (Proper(results[i].config, i) /\ Fulfilled(results[i]))'
  <2>1. PICK x : x = results'[i]
    OBVIOUS
  <2>2. PICK c : c = x.config
    OBVIOUS
  <2>3. Proper(c, i) /\ Fulfilled(x) /\ i \in 1..Len(results) + 1
    <3>1. CASE i \in 1..Len(results)
      BY <1>4, <1>7, <2>1, <2>2, <3>1
    <3>2. CASE i \notin 1..Len(results)
      <4>1. i = Len(results) + 1 /\ x = r /\ c = config
        BY <1>3, <1>7, <2>1, <2>2, <3>2
      <4> QED BY <1>2, <1>4, <1>7, <4>1
    <3> QED BY <3>1, <3>2
  <2>4. Proper(c, i)' /\ Fulfilled(x)'
    BY <1>1, <1>9, <2>3, ResultsStay
  <2>5. Proper(results[i].config, i)'
    BY <2>1, <2>2, <2>4 DEF Proper
  <2>6. Fulfilled(results[i])'
    BY <2>1, <2>4 DEF Fulfilled, CoreOf, TraceOf
  <2> QED BY <2>5, <2>6
<1>11. TimesOfKeyGrow'
  BY <1>1, <1>2, ResultsStay
<1> QED BY <1>1, <1>4, <1>10, <1>11 DEF ResultInv
-----------------------------------------------------------------------------
LEMMA ScheduleStarts == Init => LoadedInv /\ ScheduleInv
<1> SUFFICES ASSUME Init PROVE LoadedInv /\ ScheduleInv
  OBVIOUS
<1>1. /\ stage = "loading" /\ loaded = <<>> /\ phase = 1 /\ start = 0 /\ events = <<>> /\ queries = <<>>
  BY DEF Init, WorkInit
<1>2. \A S : <<>> \in Seq(S)
  BY EmptySeq
<1>3. Len(<<>>) = 0
  BY EmptySeq
<1>4. LoadedInv
  BY <1>1, <1>2 DEF LoadedInv
<1>5. Before("events", 0) = 0 /\ Before("queries", 0) = 0
  BY BeforeFacts
<1>6. Stretched(events, "events") /\ Stretched(queries, "queries")
  BY <1>1, <1>3, <1>5 DEF Stretched
<1>7. \A a, b : (Len(a) = 0 \/ Len(b) = 0) => Earlier(a, b)
  BY DEF Earlier
<1>8. phase \in 1..PhaseCount + 1 /\ start \in Nat
  BY <1>1, PhaseFacts
<1> QED BY <1>1, <1>2, <1>3, <1>4, <1>6, <1>7, <1>8 DEF ScheduleInv

LEMMA ScheduleStays ==
  ASSUME ScheduleInv, UNCHANGED <<phase, start, events, queries>>
  PROVE  ScheduleInv'
BY DEF ScheduleInv, Stretched, Earlier

LEMMA LoadedStays ==
  ASSUME LoadedInv, UNCHANGED loaded, stage' \in {"running", "written", "failed"}
  PROVE  LoadedInv'
BY DEF LoadedInv

(* Nothing of a trial is disturbed while none is played.                  *)
LEMMA TrialRests ==
  ASSUME config' = <<>> \/ (TrialInv /\ UNCHANGED <<events, queries, trialVars>>)
  PROVE  TrialInv'
<1>1. CASE config' = <<>>
  BY <1>1 DEF TrialInv
<1>2. CASE TrialInv /\ config' # <<>> /\ UNCHANGED <<events, queries, trialVars>>
  <2>1. UNCHANGED <<config, at, users, answers, accumulator, acct, phaseAcct, events, queries>>
    BY <1>2 DEF trialVars, simVars
  <2>2. /\ TraceOf(config)' = TraceOf(config) /\ \A i : CoreOf(config, i)' = CoreOf(config, i)
        /\ \A E, Q : Interleaved(TraceOf(config), E, Q)' <=> Interleaved(TraceOf(config), E, Q)
    BY <2>1, ConfigKept
  <2>3. /\ config # <<>> /\ at \in 0..Len(TraceOf(config)) /\ UsersTyped(users)
        /\ answers \in Seq(Nat) /\ CurrentCore = CoreOf(config, at)
        /\ Sum("published") = acct["published"]
        /\ \A E, Q : Interleaved(TraceOf(config), E, Q) =>
             CountedUpto(E[at], Q[at]) /\ TimelyUpto(users, E[at])
    BY <1>2, <2>1 DEF TrialInv
  <2>4. CurrentCore' = CoreOf(config, at)'
    <3>1. PICK i : i = at
      OBVIOUS
    <3>2. CoreOf(config, i)' = CoreOf(config, i) /\ at' = i
      BY <2>1, <2>2, <3>1
    <3>3. CurrentCore' = CurrentCore
      BY <2>1 DEF CurrentCore
    <3> QED BY <2>3, <3>1, <3>2, <3>3 DEF CoreOf
  <2>5. Sum("published")' = acct'["published"]
    BY <2>1, <2>3 DEF Sum
  <2>6. ASSUME NEW E, NEW Q, Interleaved(TraceOf(config), E, Q)'
        PROVE  CountedUpto(E[at], Q[at])' /\ TimelyUpto(users, E[at])'
    BY <2>1, <2>2, <2>3, <2>6 DEF CountedUpto, TimelyUpto
  <2> QED BY <2>1, <2>2, <2>3, <2>4, <2>5, <2>6 DEF TrialInv
<1> QED BY <1>1, <1>2

LEMMA ResultsRest ==
  ASSUME ResultInv, UNCHANGED <<events, queries, tool, results>>, uStar' \in Nat,
         config' # <<>> => Proper(config, Len(results) + 1)'
  PROVE  ResultInv'
<1>1. ASSUME NEW i \in 1..Len(results)
      PROVE  (Proper(results[i].config, i) /\ Fulfilled(results[i]))'
  <2>1. PICK x : x = results[i]
    OBVIOUS
  <2>2. PICK c : c = x.config
    OBVIOUS
  <2>3. Proper(c, i) /\ Fulfilled(x)
    BY <2>1, <2>2 DEF ResultInv
  <2>4. Proper(c, i)' /\ Fulfilled(x)'
    <3>1. Fulfilled(x)'
      BY <2>3, ResultsStay
    <3> QED BY <2>3, <3>1 DEF Proper
  <2>5. Proper(results[i].config, i)'
    BY <2>1, <2>2, <2>4 DEF Proper
  <2>6. Fulfilled(results[i])'
    BY <2>1, <2>4 DEF Fulfilled, CoreOf, TraceOf
  <2> QED BY <2>5, <2>6
<1>2. (results # <<>> => TimesOfKeyGrow)'
  BY ResultsStay DEF ResultInv
<1> QED BY <1>1, <1>2 DEF ResultInv

LEMMA NewTrialProper ==
  ASSUME ExperimentInv, ResultInv, NewTrial
  PROVE  ResultInv'
<1> DEFINE c == NextTrial
           i == Len(results) + 1
<1>1. /\ Idle /\ config' = c /\ UNCHANGED <<events, queries, tool, results, uStar>>
  BY DEF NewTrial, BeginTrial, workVars
<1>2. /\ Len(results) \in Nat /\ DOMAIN results = 1..Len(results) /\ uStar \in Nat
      /\ \A j \in 1..Len(results) : Proper(results[j].config, j)
  BY DEF ExperimentInv, ResultsBounded, IsList, ResultInv
<1>3. Len(PilotPlan) \in Nat /\ Len(Tuning) \in Nat
  BY PilotTyped, TuningTyped
<1>4. Len(results) < Trials
  BY <1>1 DEF Idle
<1>5. Proper(c, i)
  <2>1. CASE tool = "pilot"
    <3>1. i \in 1..Len(PilotPlan) /\ c = PilotPlan[i]
      BY <1>2, <1>3, <1>4, <2>1 DEF Trials, NextTrial
    <3> QED BY <2>1, <3>1, PilotTyped DEF Proper
  <2>2. CASE tool # "pilot"
    <3>1. /\ i <= Len(Tuning) + 6
          /\ c = IF i <= Len(Tuning) THEN Tuning[i] ELSE SuiteTrial(i - Len(Tuning))
      BY <1>2, <1>3, <1>4, <2>2 DEF Trials, NextTrial
    <3> HIDE DEF c
    <3>2. PICK n : n = i
      OBVIOUS
    <3>3. Proper(IF n <= Len(Tuning) THEN Tuning[n] ELSE SuiteTrial(n - Len(Tuning)), n)
      BY <1>2, <2>2, <3>1, <3>2, SuiteProper
    <3> QED BY <3>1, <3>2, <3>3
  <2> QED BY <2>1, <2>2
<1>6. Proper(config, Len(results) + 1)'
  BY <1>1, <1>5 DEF Proper
<1> QED BY <1>1, <1>2, <1>6, ResultsRest

LEMMA StudyStart == Init => StudyInv
<1> SUFFICES ASSUME Init PROVE StudyInv
  OBVIOUS
<1>1. config = <<>> /\ results = <<>> /\ uStar = 0 /\ stage = "loading"
  BY DEF Init, TrialInit, WorkInit
<1>2. TracedInv /\ TrialInv
  BY <1>1 DEF TracedInv, TrialInv
<1>3. ResultInv
  BY <1>1, EmptySeq DEF ResultInv
<1> QED BY <1>2, <1>3, ScheduleStarts, ExperimentStart DEF StudyInv

LEMMA StudySteps == StudyInv /\ [Next]_vars => StudyInv'
<1> SUFFICES ASSUME StudyInv, [Next]_vars PROVE StudyInv'
  OBVIOUS
<1>i. LoadedInv /\ ScheduleInv /\ TracedInv /\ ExperimentInv /\ TrialInv /\ ResultInv
  BY DEF StudyInv
<1>e. ExperimentInv'
  BY <1>i, ExperimentSteps
<1>1. CASE WorkNext /\ UNCHANGED <<trialVars, tool, uStar, output>>
  <2>1. UNCHANGED <<config, results, tool, uStar>>
    BY <1>1 DEF trialVars
  <2>2. stage \in {"loading", "scheduling"}
    BY <1>1 DEF WorkNext, ReadSource, SourceRead, SchedulePhase, Scheduled
  <2>3. config = <<>> /\ results = <<>>
    BY <1>i, <2>2 DEF ExperimentInv, NoTrialYet
  <2>4. LoadedInv'
    BY <1>1, <1>i, LoadSteps
  <2>5. CASE SchedulePhase
    <3>1. ScheduleInv'
      BY <1>i, <2>5, ScheduleAdded
    <3>2. stage' = "scheduling"
      BY <2>5 DEF SchedulePhase
    <3>3. TracedInv' /\ TrialInv'
      BY <2>1, <2>3, <3>2 DEF TracedInv, TrialInv
    <3>4. ResultInv'
      BY <1>i, <2>1, <2>3, EmptySeq DEF ResultInv
    <3> QED BY <1>e, <2>4, <3>1, <3>3, <3>4 DEF StudyInv
  <2>6. CASE ~SchedulePhase
    <3>1. /\ UNCHANGED <<phase, start, events, queries>>
          /\ stage' \in {"loading", "failed", "scheduling"} \/ (stage' = "scheduled" /\ phase \notin Phases)
      BY <1>1, <2>6 DEF WorkNext, ReadSource, SourceRead, Scheduled
    <3>2. ScheduleInv'
      BY <1>i, <3>1, ScheduleStays
    <3>3. phase \notin Phases => WholeTrace
      BY <1>i, PhaseFacts DEF WholeTrace, ScheduleInv
    <3>4. TracedInv' /\ TrialInv'
      BY <2>1, <2>3, <3>1, <3>3 DEF TracedInv, TrialInv, WholeTrace
    <3>5. ResultInv'
      BY <1>i, <2>1, <2>3, EmptySeq DEF ResultInv
    <3> QED BY <1>e, <2>4, <3>2, <3>4, <3>5 DEF StudyInv
  <2> QED BY <2>5, <2>6
<1>2. ASSUME UNCHANGED <<workVars, tool>>, stage' \in {"running", "written", "failed"}, stage = "running"
      PROVE  LoadedInv' /\ ScheduleInv' /\ TracedInv' /\ WholeTrace /\ UNCHANGED <<events, queries>>
  <2>1. UNCHANGED <<loaded, phase, start, events, queries>>
    BY <1>2 DEF workVars
  <2>2. WholeTrace
    BY <1>2, <1>i DEF TracedInv
  <2>3. TracedInv'
    BY <2>1, <2>2 DEF TracedInv, WholeTrace
  <2> QED BY <1>2, <1>i, <2>1, <2>2, <2>3, ScheduleStays, LoadedStays
<1>3. CASE stage = "running" /\ TrialNext /\ UNCHANGED <<stage, workVars, tool, uStar, output>>
  <2>1. /\ LoadedInv' /\ ScheduleInv' /\ TracedInv' /\ WholeTrace
        /\ UNCHANGED <<workVars, events, queries, tool, uStar>>
    BY <1>2, <1>3
  <2>2. config # <<>>
    BY <1>3 DEF TrialNext, TrialEvent, TrialQuery, EndTrial, Running
  <2>3. TrialAccounted /\ Proper(config, Len(results) + 1)
    BY <1>i, <2>2 DEF ExperimentInv, ResultInv
  <2>4. CASE EndTrial
    <3>1. TrialInv'
      BY <2>4, TrialRests DEF EndTrial
    <3>2. ResultInv'
      BY <1>i, <2>1, <2>4, EndResult
    <3> QED BY <1>e, <2>1, <3>1, <3>2 DEF StudyInv
  <2>5. CASE TrialEvent \/ TrialQuery
    <3>1. TrialInv'
      BY <1>i, <2>1, <2>3, <2>5, EventTrial, QueryTrial
    <3>2. UNCHANGED <<config, results>>
      BY <2>5 DEF TrialEvent, TrialQuery
    <3>3. Proper(config, Len(results) + 1)'
      BY <2>1, <2>3, <3>2 DEF Proper
    <3>4. ResultInv'
      BY <1>i, <2>1, <3>2, <3>3, ResultsRest DEF ResultInv
    <3> QED BY <1>e, <2>1, <3>1, <3>4 DEF StudyInv
  <2> QED BY <1>3, <2>4, <2>5 DEF TrialNext
<1>4. CASE Start
  <2>1. /\ stage = "scheduled" /\ stage' = "running" /\ UNCHANGED <<workVars, trialVars, uStar>>
    BY <1>4 DEF Start
  <2>2. /\ UNCHANGED <<loaded, phase, start, events, queries, config, results>>
    BY <2>1 DEF workVars, trialVars
  <2>3. config = <<>> /\ results = <<>> /\ WholeTrace
    BY <1>i, <2>1 DEF ExperimentInv, NoTrialYet, TracedInv
  <2>4. LoadedInv' /\ ScheduleInv'
    BY <1>i, <2>1, <2>2, ScheduleStays, LoadedStays
  <2>5. TracedInv' /\ TrialInv'
    BY <2>2, <2>3 DEF TracedInv, TrialInv, WholeTrace
  <2>6. ResultInv'
    BY <1>i, <2>1, <2>2, <2>3, EmptySeq DEF ResultInv
  <2> QED BY <1>e, <2>4, <2>5, <2>6 DEF StudyInv
<1>5. CASE ChooseCadence
  <2>1. /\ stage = "running" /\ stage' = stage /\ UNCHANGED <<workVars, trialVars, tool>>
        /\ \E i \in DOMAIN Candidates : uStar' = Candidates[i]
    BY <1>5 DEF ChooseCadence, Idle
  <2>2. LoadedInv' /\ ScheduleInv' /\ TracedInv' /\ UNCHANGED <<events, queries>>
    BY <1>2, <2>1
  <2>3. uStar' \in Nat
    BY <2>1, ExperimentsAssumption
  <2>4. UNCHANGED <<config, results>>
    BY <2>1 DEF trialVars
  <2>5. config' # <<>> => Proper(config, Len(results) + 1)'
    BY <1>i, <2>1, <2>4 DEF ResultInv, Proper
  <2>6. ResultInv'
    BY <1>i, <2>1, <2>2, <2>3, <2>4, <2>5, ResultsRest
  <2>7. TrialInv'
    BY <1>i, <2>1, <2>2, TrialRests
  <2> QED BY <1>e, <2>2, <2>6, <2>7 DEF StudyInv
<1>6. CASE NewTrial
  <2>1. /\ stage = "running" /\ stage' = stage /\ UNCHANGED <<workVars, tool>>
    BY <1>6 DEF NewTrial, Idle
  <2>2. LoadedInv' /\ ScheduleInv' /\ TracedInv' /\ WholeTrace
    BY <1>2, <2>1
  <2> QED BY <1>e, <1>i, <1>6, <2>2, NewTrialBegins, NewTrialProper DEF StudyInv
<1>7. CASE ToolFails \/ WriteOutput
  <2>1. /\ stage = "running" /\ stage' \in {"failed", "written"}
        /\ UNCHANGED <<workVars, trialVars, tool, uStar>>
    BY <1>7 DEF ToolFails, WriteOutput
  <2>2. LoadedInv' /\ ScheduleInv' /\ TracedInv' /\ UNCHANGED <<events, queries>>
    BY <1>2, <2>1
  <2>3. UNCHANGED <<config, results, uStar>>
    BY <2>1 DEF trialVars
  <2>4. ResultInv'
    <3>1. config' # <<>> => Proper(config, Len(results) + 1)'
      BY <1>i, <2>1, <2>3 DEF ResultInv, Proper
    <3>2. uStar' \in Nat
      BY <1>i, <2>3 DEF ResultInv
    <3> QED BY <1>i, <2>1, <2>2, <2>3, <3>1, <3>2, ResultsRest
  <2>5. TrialInv'
    BY <1>i, <2>1, <2>2, TrialRests
  <2> QED BY <1>e, <2>2, <2>4, <2>5 DEF StudyInv
<1>8. CASE UNCHANGED vars
  <2>1. UNCHANGED <<stage, loaded, phase, start, events, queries, trialVars, tool, uStar, config, results>>
    BY <1>8 DEF vars, workVars, trialVars
  <2>2. LoadedInv' /\ TracedInv'
    BY <1>i, <2>1 DEF LoadedInv, TracedInv, WholeTrace
  <2>3. ScheduleInv'
    BY <1>i, <2>1, ScheduleStays
  <2>4. ResultInv'
    <3>1. config' # <<>> => Proper(config, Len(results) + 1)'
      BY <1>i, <2>1 DEF ResultInv, Proper
    <3>2. uStar' \in Nat
      BY <1>i, <2>1 DEF ResultInv
    <3> QED BY <1>i, <2>1, <3>1, <3>2, ResultsRest
  <2>5. TrialInv'
    BY <1>i, <2>1, TrialRests
  <2> QED BY <1>e, <2>2, <2>3, <2>4, <2>5 DEF StudyInv
<1> QED BY <1>1, <1>3, <1>4, <1>5, <1>6, <1>7, <1>8 DEF Next
-----------------------------------------------------------------------------
(* What is written was so when it was.                                    *)
WrittenInv ==
  stage = "written" => /\ Len(results) = Trials
                       /\ output.conserved /\ (tool = "suite" => output.matched)

LEMMA BudgetsMatch ==
  ASSUME StudyInv, tool = "suite", Len(results) = Trials
  PROVE  Within1Percent
<1> DEFINE a == results[Len(Tuning) + 2]
           b == results[Len(Tuning) + 4]
<1>1. /\ Len(results) \in Nat /\ DOMAIN results = 1..Len(results)
      /\ \A i \in 1..Len(results) : Proper(results[i].config, i) /\ Fulfilled(results[i])
  BY DEF StudyInv, ExperimentInv, ResultsBounded, IsList, ResultInv
<1>2. Len(Tuning) \in Nat /\ Len(results) = Len(Tuning) + 6
  BY TuningTyped DEF Trials
<1>3. Published("joint_adaptive") = a.published /\ Published("budget_matched") = b.published
  BY <1>1, <1>2, NameFound
<1>4. Len(Tuning) + 2 \in 1..Len(results) /\ Len(Tuning) + 4 \in 1..Len(results)
  BY <1>2
<1>5. b.config.policy = Quota(a.published) /\ Fulfilled(a) /\ Fulfilled(b)
  BY <1>1, <1>4 DEF Proper
<1>6. b.published = a.published
  <2>1. IsQuota(b.config.policy) /\ b.config.policy.target = a.published
    BY <1>5 DEF IsQuota, Quota
  <2> QED BY <1>5, <2>1 DEF Fulfilled
<1>7. a.published \in Nat
  BY <1>5 DEF Fulfilled
<1> HIDE DEF a, b
<1> QED BY <1>3, <1>6, <1>7 DEF Within1Percent

LEMMA WrittenStart == Init => WrittenInv
BY DEF Init, WorkInit, WrittenInv

LEMMA WrittenSteps == StudyInv /\ WrittenInv /\ [Next]_vars => WrittenInv'
<1> SUFFICES ASSUME StudyInv, WrittenInv, [Next]_vars PROVE WrittenInv'
  OBVIOUS
<1>1. CASE WriteOutput
  <2>1. /\ Len(results) = Trials /\ UNCHANGED <<trialVars, tool>>
        /\ output' = IF tool = "pilot"
                     THEN [conserved |-> \A i \in DOMAIN results : results[i].verified,
                           actuator |-> ActuatorSignVerified, matched |-> FALSE]
                     ELSE [conserved |-> \A i \in DOMAIN results : results[i].verified,
                           actuator |-> FALSE, matched |-> Within1Percent]
    BY <1>1 DEF WriteOutput
  <2>2. UNCHANGED <<results, tool>> /\ Trials' = Trials
    BY <2>1 DEF trialVars, Trials
  <2>3. \A i \in DOMAIN results : results[i].verified
    BY DEF StudyInv, ExperimentInv, ResultsBounded, IsList, ResultInv, Fulfilled
  <2>4. output'.conserved
    BY <2>1, <2>3
  <2>5. tool = "suite" => output'.matched
    <3>1. tool = "suite" => Within1Percent
      BY <2>1, BudgetsMatch
    <3> QED BY <2>1, <3>1
  <2> QED BY <2>1, <2>2, <2>4, <2>5 DEF WrittenInv
<1>2. CASE ~WriteOutput /\ UNCHANGED vars
  <2>1. UNCHANGED <<stage, results, tool, output>> /\ Trials' = Trials
    BY <1>2 DEF vars, trialVars, Trials
  <2> QED BY <2>1 DEF WrittenInv
<1>3. CASE ~WriteOutput /\ Next
  <2>1. stage' # "written"
    <3>1. CASE WorkNext
      BY <3>1 DEF WorkNext, ReadSource, SourceRead, SchedulePhase, Scheduled
    <3>2. CASE stage = "running" /\ UNCHANGED stage
      BY <3>2
    <3>3. CASE Start \/ ChooseCadence \/ NewTrial \/ ToolFails
      BY <3>3 DEF Start, ChooseCadence, NewTrial, ToolFails, Idle
    <3> QED BY <1>3, <3>1, <3>2, <3>3 DEF Next
  <2> QED BY <2>1 DEF WrittenInv
<1> QED BY <1>1, <1>2, <1>3

LEMMA ComparableFollows == StudyInv /\ WrittenInv => OutputComparable
<1> SUFFICES ASSUME StudyInv, WrittenInv, stage = "written"
             PROVE  /\ output.conserved /\ (tool = "suite" => output.matched)
                    /\ TimesOfKeyGrow /\ PlayedByPhases
                    /\ \A i, j \in DOMAIN results :
                         LET c == results[i].config
                             d == results[j].config
                         IN  c.policy = d.policy /\ c.order = d.order =>
                               /\ results[i].published = results[j].published
                               /\ results[i].staleness = results[j].staleness
  BY DEF OutputComparable
<1>1. output.conserved /\ (tool = "suite" => output.matched) /\ Len(results) = Trials
  BY DEF WrittenInv
<1>2. /\ DOMAIN results = 1..Len(results)
      /\ \A i \in 1..Len(results) : Fulfilled(results[i])
      /\ ScheduleInv /\ WholeTrace /\ (results # <<>> => TimesOfKeyGrow)
  BY DEF StudyInv, ExperimentInv, ResultsBounded, IsList, ResultInv, TracedInv
<1>3. results # <<>>
  <2>1. Len(PilotPlan) \in Nat \ {0} /\ Len(Tuning) \in Nat
    BY PilotTyped, TuningTyped
  <2>2. Len(results) # 0
    BY <1>1, <2>1 DEF Trials
  <2> QED BY <2>2, EmptySeq
<1>4. ASSUME NEW i \in DOMAIN results, NEW j \in DOMAIN results,
             results[i].config.policy = results[j].config.policy,
             results[i].config.order = results[j].config.order
      PROVE  /\ results[i].published = results[j].published
             /\ results[i].staleness = results[j].staleness
  <2> DEFINE c == results[i].config
             d == results[j].config
  <2>1. TraceOf(c) = TraceOf(d)
    BY <1>4 DEF TraceOf
  <2>2. CoreOf(c, Len(TraceOf(c))) = CoreOf(d, Len(TraceOf(d)))
    BY <1>4, <2>1 DEF CoreOf
  <2> QED BY <1>2, <2>2 DEF Fulfilled
<1> QED BY <1>1, <1>2, <1>3, <1>4, PhasesInTurn

(* A study writes output only if every trial played the whole open-loop   *)
(* trace conserving it, the budgets match, and every two trials of one    *)
(* policy agree on everything.                                            *)
THEOREM StudiesAreComparable == Spec => []OutputComparable
<1>1. Spec => [](StudyInv /\ WrittenInv)
  BY StudyStart, StudySteps, WrittenStart, WrittenSteps, PTL DEF Spec
<1> QED BY <1>1, ComparableFollows, PTL
-----------------------------------------------------------------------------
(* One key under two cadences, v a multiple of u: the pending counts      *)
(* differ by a multiple of u.                                             *)
Pace(u, p) == IF p + 1 >= u THEN 0 ELSE p + 1

InStep(u, v, p, q) ==
  /\ p \in Nat /\ q \in Nat /\ p < u /\ q < v
  /\ \E a \in Nat : q = a * u + p

LEMMA InStepFacts ==
  ASSUME NEW u \in Nat \ {0}, NEW v, NEW p, NEW q, InStep(u, v, p, q)
  PROVE  p <= q /\ (u = 1 => p = 0)
<1>1. p \in Nat /\ q \in Nat /\ p < u
  BY DEF InStep
<1>2. PICK a \in Nat : q = a * u + p
  BY DEF InStep
<1>3. a * u >= 0 /\ a * u \in Int
  OBVIOUS
<1> QED BY <1>1, <1>2, <1>3

LEMMA CadenceStep ==
  ASSUME NEW u \in Nat \ {0}, NEW v \in Nat \ {0}, NEW m \in Nat, v = m * u,
         NEW p, NEW q, InStep(u, v, p, q)
  PROVE  (q + 1 >= v => p + 1 >= u) /\ InStep(u, v, Pace(u, p), Pace(v, q))
<1>1. p \in Nat /\ q \in Nat /\ p < u /\ q < v
  BY DEF InStep
<1>2. PICK a \in Nat : q = a * u + p
  BY DEF InStep
<1>3. a * u \in Nat /\ (a + 1) * u = a * u + u /\ 0 * u = 0 /\ m * u \in Nat
  OBVIOUS
<1>4. ASSUME q + 1 >= v PROVE p + 1 >= u
  <2> SUFFICES ASSUME p + 1 < u PROVE FALSE
    BY <1>1
  <2>1. m * u = a * u + (p + 1)
    BY <1>1, <1>2, <1>4
  <2>2. ~(m <= a)
    <3>1. m <= a => m * u <= a * u
      OBVIOUS
    <3> QED BY <1>1, <1>3, <2>1, <3>1
  <2>3. ~(a + 1 <= m)
    <3>1. a + 1 <= m => (a + 1) * u <= m * u
      OBVIOUS
    <3> QED BY <1>1, <1>3, <2>1, <3>1
  <2> QED BY <2>2, <2>3
<1>5. CASE q + 1 >= v
  <2>1. Pace(u, p) = 0 /\ Pace(v, q) = 0
    BY <1>4, <1>5 DEF Pace
  <2>2. InStep(u, v, 0, 0)
    <3>1. 0 = 0 * u + 0 /\ 0 < u /\ 0 < v
      OBVIOUS
    <3> QED BY <3>1 DEF InStep
  <2> QED BY <1>4, <2>1, <2>2
<1>6. CASE ~(q + 1 >= v) /\ p + 1 >= u
  <2>1. Pace(u, p) = 0 /\ Pace(v, q) = q + 1 /\ p + 1 = u
    BY <1>1, <1>6 DEF Pace
  <2>2. q + 1 = (a + 1) * u + 0 /\ q + 1 \in Nat /\ q + 1 < v /\ a + 1 \in Nat
    BY <1>1, <1>2, <1>3, <1>6, <2>1
  <2>3. InStep(u, v, 0, q + 1)
    <3>1. 0 \in Nat /\ 0 < u
      OBVIOUS
    <3> QED BY <2>2, <3>1 DEF InStep
  <2> QED BY <1>6, <2>1, <2>3
<1>7. CASE ~(q + 1 >= v) /\ ~(p + 1 >= u)
  <2>1. Pace(u, p) = p + 1 /\ Pace(v, q) = q + 1
    BY <1>7 DEF Pace
  <2>2. q + 1 = a * u + (p + 1) /\ q + 1 \in Nat /\ p + 1 \in Nat /\ q + 1 < v /\ p + 1 < u
    BY <1>1, <1>2, <1>3, <1>7
  <2>3. InStep(u, v, p + 1, q + 1)
    BY <2>2 DEF InStep
  <2> QED BY <1>7, <2>1, <2>3
<1> QED BY <1>5, <1>6, <1>7

LEMMA MultipleOf ==
  ASSUME NEW u \in Nat \ {0}, NEW v \in Nat, v % u = 0
  PROVE  \E m \in Nat : v = m * u
<1> DEFINE m == v \div u
<1>1. m \in Nat
  OBVIOUS
<1>2. \A a \in Nat \ {0}, b \in Nat : b % a = 0 => b = (b \div a) * a
  OBVIOUS
<1>3. v = m * u
  BY <1>2
<1> QED BY <1>1, <1>3
-----------------------------------------------------------------------------
(* A policy with a cadence publishes when it is reached.                  *)
Slower(u, v, x, y) ==
  /\ \A k \in SimKeys : InStep(u, v, x.pending[k], y.pending[k])
  /\ x.published \in Int /\ y.published \in Int /\ y.published <= x.published
  /\ x.answers \in Seq(Nat) /\ y.answers \in Seq(Nat) /\ Len(x.answers) = Len(y.answers)
  /\ \A q \in 1..Len(x.answers) : /\ x.answers[q] <= y.answers[q]
                                  /\ u = 1 => x.answers[q] = 0

LEMMA CadencePublishes ==
  ASSUME NEW pol, PolicyTyped(pol), CadenceOf(pol) > 0, NEW ord, NEW o, NEW core,
         core.pending[o.key] \in Nat
  PROVE  /\ CadenceOf(pol) \in Nat \ {0} /\ pol.type # "QuotaMatched"
         /\ Publishes(pol, ord, o, core) <=> core.pending[o.key] + 1 >= CadenceOf(pol)
<1>1. pol.type \in {"ExactFresh", "FixedCadence"}
  BY DEF PolicyTyped, CadenceOf
<1>2. CASE pol.type = "ExactFresh"
  <2>1. CadenceOf(pol) = 1 /\ Publishes(pol, ord, o, core)
    BY <1>2 DEF CadenceOf, Publishes
  <2> QED BY <1>2, <2>1
<1>3. CASE pol.type = "FixedCadence"
  <2>1. CadenceOf(pol) = pol.cadence /\ pol.cadence \in Nat
    BY <1>3 DEF CadenceOf, PolicyTyped
  <2>2. Publishes(pol, ord, o, core) <=> core.pending[o.key] + 1 >= pol.cadence
    BY <1>3 DEF Publishes
  <2> QED BY <1>3, <2>1, <2>2
<1> QED BY <1>1, <1>2, <1>3

(* The core of a cadence after an event.                                  *)
EventPaced(u, o, x, z) ==
  /\ \A k \in SimKeys : z.pending[k] = IF k = o.key THEN Pace(u, x.pending[k]) ELSE x.pending[k]
  /\ z.published = IF x.pending[o.key] + 1 >= u THEN x.published + 1 ELSE x.published
  /\ z.answers = x.answers

LEMMA EventIsPaced ==
  ASSUME NEW pol, PolicyTyped(pol), CadenceOf(pol) > 0, NEW ord, NEW o, o.key \in SimKeys, NEW x,
         x.pending[o.key] \in Nat
  PROVE  EventPaced(CadenceOf(pol), o, x, AfterEvent(pol, ord, o, x))
<1> DEFINE yes == Publishes(pol, ord, o, x)
           z == AfterEvent(pol, ord, o, x)
           u == CadenceOf(pol)
<1>1. yes <=> x.pending[o.key] + 1 >= u
  BY CadencePublishes
<1>2. /\ z.pending = [k \in SimKeys |-> IF k # o.key THEN x.pending[k]
                                        ELSE IF yes THEN 0 ELSE x.pending[k] + 1]
      /\ z.published = IF yes THEN x.published + 1 ELSE x.published
      /\ z.answers = x.answers
  BY DEF AfterEvent
<1> HIDE DEF yes, z, u
<1>3. ASSUME NEW k \in SimKeys
      PROVE  z.pending[k] = IF k = o.key THEN Pace(u, x.pending[k]) ELSE x.pending[k]
  <2>1. CASE k = o.key
    BY <1>1, <1>2, <2>1 DEF Pace
  <2>2. CASE k # o.key
    BY <1>2, <2>2
  <2> QED BY <2>1, <2>2
<1> QED BY <1>1, <1>2, <1>3 DEF EventPaced, z, u

LEMMA EventKeepsSlower ==
  ASSUME NEW u \in Nat \ {0}, NEW v \in Nat \ {0}, NEW m \in Nat, v = m * u,
         NEW o, o.key \in SimKeys, NEW x, NEW y, Slower(u, v, x, y),
         NEW z, NEW w, EventPaced(u, o, x, z), EventPaced(v, o, y, w)
  PROVE  Slower(u, v, z, w)
<1>1. ASSUME NEW k \in SimKeys PROVE InStep(u, v, z.pending[k], w.pending[k])
  <2>1. InStep(u, v, x.pending[k], y.pending[k])
    BY DEF Slower
  <2>2. InStep(u, v, Pace(u, x.pending[k]), Pace(v, y.pending[k]))
    <3> DEFINE p == x.pending[k]
               q == y.pending[k]
    <3>1. InStep(u, v, p, q)
      BY <2>1
    <3> HIDE DEF p, q
    <3>2. InStep(u, v, Pace(u, p), Pace(v, q))
      BY <3>1, CadenceStep
    <3> QED BY <3>2 DEF p, q
  <2>3. /\ z.pending[k] = IF k = o.key THEN Pace(u, x.pending[k]) ELSE x.pending[k]
        /\ w.pending[k] = IF k = o.key THEN Pace(v, y.pending[k]) ELSE y.pending[k]
    BY DEF EventPaced
  <2> QED BY <2>1, <2>2, <2>3
<1>2. z.published \in Int /\ w.published \in Int /\ w.published <= z.published
  <2>1. InStep(u, v, x.pending[o.key], y.pending[o.key])
    BY DEF Slower
  <2>2. y.pending[o.key] + 1 >= v => x.pending[o.key] + 1 >= u
    <3> DEFINE p == x.pending[o.key]
               q == y.pending[o.key]
    <3>1. InStep(u, v, p, q)
      BY <2>1
    <3> HIDE DEF p, q
    <3>2. q + 1 >= v => p + 1 >= u
      BY <3>1, CadenceStep
    <3> QED BY <3>2 DEF p, q
  <2>3. x.published \in Int /\ y.published \in Int /\ y.published <= x.published
    BY DEF Slower
  <2>4. /\ z.published = IF x.pending[o.key] + 1 >= u THEN x.published + 1 ELSE x.published
        /\ w.published = IF y.pending[o.key] + 1 >= v THEN y.published + 1 ELSE y.published
    BY DEF EventPaced
  <2> QED BY <2>2, <2>3, <2>4
<1>3. z.answers = x.answers /\ w.answers = y.answers
  BY DEF EventPaced
<1> QED BY <1>1, <1>2, <1>3 DEF Slower

LEMMA QueryKeepsSlower ==
  ASSUME NEW u \in Nat \ {0}, NEW v \in Nat \ {0}, NEW o, o.key \in SimKeys,
         NEW x, NEW y, Slower(u, v, x, y)
  PROVE  Slower(u, v, AfterQuery(o, x), AfterQuery(o, y))
<1> DEFINE z == AfterQuery(o, x)
           w == AfterQuery(o, y)
           p == x.pending[o.key]
           q == y.pending[o.key]
<1>1. /\ z.pending = x.pending /\ w.pending = y.pending
      /\ z.published = x.published /\ w.published = y.published
      /\ z.answers = Append(x.answers, p) /\ w.answers = Append(y.answers, q)
  BY DEF AfterQuery
<1>2. InStep(u, v, p, q)
  BY DEF Slower
<1>3. p \in Nat /\ q \in Nat /\ p <= q /\ (u = 1 => p = 0)
  BY <1>2, InStepFacts DEF InStep
<1>4. /\ x.answers \in Seq(Nat) /\ y.answers \in Seq(Nat) /\ Len(x.answers) = Len(y.answers)
      /\ \A i \in 1..Len(x.answers) : /\ x.answers[i] <= y.answers[i]
                                      /\ u = 1 => x.answers[i] = 0
  BY DEF Slower
<1> HIDE DEF z, w, p, q
<1> DEFINE a == x.answers
           b == y.answers
<1> HIDE DEF a, b
<1>5. /\ a \in Seq(Nat) /\ b \in Seq(Nat) /\ Len(a) = Len(b) /\ Len(a) \in Nat
      /\ \A i \in 1..Len(a) : a[i] <= b[i] /\ (u = 1 => a[i] = 0)
      /\ z.answers = Append(a, p) /\ w.answers = Append(b, q)
  BY <1>1, <1>4 DEF a, b
<1>6. /\ Append(a, p) \in Seq(Nat) /\ Append(b, q) \in Seq(Nat)
      /\ Len(Append(a, p)) = Len(a) + 1 /\ Len(Append(b, q)) = Len(a) + 1
      /\ \A i \in 1..Len(a) : Append(a, p)[i] = a[i] /\ Append(b, q)[i] = b[i]
      /\ Append(a, p)[Len(a) + 1] = p /\ Append(b, q)[Len(a) + 1] = q
  BY <1>3, <1>5, AppendProperties
<1>7. ASSUME NEW i \in 1..Len(a) + 1
      PROVE  Append(a, p)[i] <= Append(b, q)[i] /\ (u = 1 => Append(a, p)[i] = 0)
  <2>1. CASE i = Len(a) + 1
    BY <1>3, <1>6, <2>1
  <2>2. CASE i # Len(a) + 1
    <3>1. i \in 1..Len(a)
      BY <1>5, <2>2
    <3> QED BY <1>5, <1>6, <3>1
  <2> QED BY <2>1, <2>2
<1>8. /\ z.answers \in Seq(Nat) /\ w.answers \in Seq(Nat) /\ Len(z.answers) = Len(w.answers)
      /\ \A i \in 1..Len(z.answers) : /\ z.answers[i] <= w.answers[i]
                                      /\ u = 1 => z.answers[i] = 0
  BY <1>5, <1>6, <1>7
<1>9. /\ \A k \in SimKeys : InStep(u, v, z.pending[k], w.pending[k])
      /\ z.published \in Int /\ w.published \in Int /\ w.published <= z.published
  BY <1>1 DEF Slower
<1>10. Slower(u, v, z, w)
  BY <1>8, <1>9 DEF Slower
<1> QED BY <1>10 DEF z, w
-----------------------------------------------------------------------------
(* Two trials of one trace whose cadences are multiples, side by side.    *)
LEMMA CadenceTyped ==
  ASSUME NEW pol, PolicyTyped(pol), CadenceOf(pol) > 0
  PROVE  CadenceOf(pol) \in Nat \ {0}
<1>1. pol.type \in {"ExactFresh", "FixedCadence"}
  BY DEF PolicyTyped, CadenceOf
<1>2. CadenceOf(pol) \in Nat
  BY <1>1 DEF PolicyTyped, CadenceOf
<1> QED BY <1>2

LEMMA EventsStaySlower ==
  ASSUME NEW c, PolicyTyped(c.policy), CadenceOf(c.policy) > 0,
         NEW d, PolicyTyped(d.policy), CadenceOf(d.policy) > 0,
         NEW m \in Nat, CadenceOf(d.policy) = m * CadenceOf(c.policy),
         NEW o, o.key \in SimKeys, NEW x, NEW y,
         Slower(CadenceOf(c.policy), CadenceOf(d.policy), x, y)
  PROVE  Slower(CadenceOf(c.policy), CadenceOf(d.policy),
                After(c.policy, c.order, o, x), After(d.policy, d.order, o, y))
<1> DEFINE u == CadenceOf(c.policy)
           v == CadenceOf(d.policy)
<1>1. u \in Nat \ {0} /\ v \in Nat \ {0}
  BY CadenceTyped
<1>2. x.pending[o.key] \in Nat /\ y.pending[o.key] \in Nat
  BY DEF Slower, InStep
<1>3. /\ EventPaced(u, o, x, AfterEvent(c.policy, c.order, o, x))
      /\ EventPaced(v, o, y, AfterEvent(d.policy, d.order, o, y))
  BY <1>2, EventIsPaced
<1>4. Slower(u, v, x, y) /\ v = m * u
  OBVIOUS
<1> HIDE DEF u, v
<1>5. Slower(u, v, AfterEvent(c.policy, c.order, o, x), AfterEvent(d.policy, d.order, o, y))
  BY <1>1, <1>3, <1>4, EventKeepsSlower
<1>6. Slower(u, v, AfterQuery(o, x), AfterQuery(o, y))
  BY <1>1, <1>4, QueryKeepsSlower
<1>7. Slower(u, v, After(c.policy, c.order, o, x), After(d.policy, d.order, o, y))
  BY <1>5, <1>6 DEF After
<1> QED BY <1>7 DEF u, v

LEMMA StartsSlower ==
  ASSUME NEW u \in Nat \ {0}, NEW v \in Nat \ {0}
  PROVE  Slower(u, v, Before1st, Before1st)
<1>1. InStep(u, v, 0, 0)
  <2>1. 0 = 0 * u + 0 /\ 0 < u /\ 0 < v /\ 0 \in Nat
    OBVIOUS
  <2> QED BY <2>1 DEF InStep
<1>2. /\ \A k \in SimKeys : Before1st.pending[k] = 0
      /\ Before1st.published = 0 /\ Before1st.answers = <<>>
  BY DEF Before1st
<1>3. <<>> \in Seq(Nat) /\ Len(<<>>) = 0
  OBVIOUS
<1> QED BY <1>1, <1>2, <1>3 DEF Slower

LEMMA TrialsStaySlower ==
  ASSUME ScheduleInv, WholeTrace,
         NEW c, PolicyTyped(c.policy), CadenceOf(c.policy) > 0,
         NEW d, PolicyTyped(d.policy), CadenceOf(d.policy) > 0,
         NEW m \in Nat, CadenceOf(d.policy) = m * CadenceOf(c.policy), TraceOf(c) = TraceOf(d)
  PROVE  Slower(CadenceOf(c.policy), CadenceOf(d.policy),
                CoreOf(c, Len(TraceOf(c))), CoreOf(d, Len(TraceOf(d))))
<1> DEFINE n == Len(TraceOf(c))
           Good(i) == Slower(CadenceOf(c.policy), CadenceOf(d.policy), CoreOf(c, i), CoreOf(d, i))
           S == {i \in 0..n : Good(i)}
<1>1. TraceOf(c) \in Seq(Ops) /\ n \in Nat
  BY TraceInterleaved
<1>2. /\ CoreOf(c, 0) = Before1st /\ CoreOf(d, 0) = Before1st
      /\ \A i \in 1..n : /\ CoreOf(c, i) = After(c.policy, c.order, TraceOf(c)[i], CoreOf(c, i - 1))
                         /\ CoreOf(d, i) = After(d.policy, d.order, TraceOf(c)[i], CoreOf(d, i - 1))
  BY <1>1, CoreSteps
<1>3. Good(0)
  BY <1>2, CadenceTyped, StartsSlower
<1>4. ASSUME NEW i \in 0..(n - 1), Good(i) PROVE Good(i + 1)
  <2>1. i + 1 \in 1..n /\ (i + 1) - 1 = i
    BY <1>1
  <2>2. TraceOf(c)[i + 1].key \in SimKeys
    BY <1>1, <2>1, OpsTyped
  <2>3. /\ CoreOf(c, i + 1) = After(c.policy, c.order, TraceOf(c)[i + 1], CoreOf(c, i))
        /\ CoreOf(d, i + 1) = After(d.policy, d.order, TraceOf(c)[i + 1], CoreOf(d, i))
    <3>1. /\ CoreOf(c, i + 1) = After(c.policy, c.order, TraceOf(c)[i + 1], CoreOf(c, (i + 1) - 1))
          /\ CoreOf(d, i + 1) = After(d.policy, d.order, TraceOf(c)[i + 1], CoreOf(d, (i + 1) - 1))
      BY <1>2, <2>1
    <3> QED BY <2>1, <3>1
  <2> DEFINE o == TraceOf(c)[i + 1]
             x == CoreOf(c, i)
             y == CoreOf(d, i)
  <2>4. o.key \in SimKeys /\ Slower(CadenceOf(c.policy), CadenceOf(d.policy), x, y)
    BY <1>4, <2>2
  <2> HIDE DEF o, x, y
  <2>5. Slower(CadenceOf(c.policy), CadenceOf(d.policy),
               After(c.policy, c.order, o, x), After(d.policy, d.order, o, y))
    BY <2>4, EventsStaySlower
  <2> QED BY <2>3, <2>5 DEF o, x, y
<1>5. 0 \in S /\ \A i \in 0..(n - 1) : i \in S => i + 1 \in S
  <2> HIDE DEF Good, n
  <2> QED BY <1>1, <1>3, <1>4
<1>6. \A i \in 0..n : i \in S
  <2> HIDE DEF S
  <2> QED BY <1>1, <1>5, UpTo
<1>7. Good(n)
  <2> HIDE DEF Good, n
  <2> QED BY <1>1, <1>6
<1> QED BY <1>7

LEMMA SignFollows == StudyInv => ActuatorSign
<1> SUFFICES ASSUME StudyInv, config = <<>>, NEW i \in DOMAIN results, NEW j \in DOMAIN results,
                    CadenceOf(results[i].config.policy) > 0,
                    CadenceOf(results[j].config.policy) > 0,
                    CadenceOf(results[j].config.policy) % CadenceOf(results[i].config.policy) = 0,
                    results[i].config.order = results[j].config.order
             PROVE  /\ results[i].published >= results[j].published
                    /\ \A q \in DOMAIN queries :
                         /\ results[i].staleness[q] <= results[j].staleness[q]
                         /\ CadenceOf(results[i].config.policy) = 1
                              => results[i].staleness[q] = 0
  BY DEF ActuatorSign
<1> DEFINE r == results[i]
           s == results[j]
           c == r.config
           d == s.config
           u == CadenceOf(c.policy)
           v == CadenceOf(d.policy)
<1>1. /\ ScheduleInv /\ PolicyTyped(c.policy) /\ PolicyTyped(d.policy)
      /\ Fulfilled(r) /\ Fulfilled(s)
  BY DEF StudyInv, ExperimentInv, ResultsBounded, IsList, ResultInv, Proper
<1>2. WholeTrace /\ DOMAIN queries = 1..Len(queries)
  <2>1. WholeTrace
    BY DEF StudyInv, TracedInv
  <2> QED BY <1>1, <2>1, OpsCounted
<1>3. u > 0 /\ v > 0 /\ v % u = 0 /\ TraceOf(c) = TraceOf(d)
  BY DEF TraceOf
<1> HIDE DEF c, d, r, s
<1>4. u \in Nat \ {0} /\ v \in Nat \ {0}
  BY <1>1, <1>3, CadenceTyped
<1>5. PICK m \in Nat : v = m * u
  <2> HIDE DEF u, v
  <2> QED BY <1>3, <1>4, MultipleOf
<1>6. Slower(u, v, CoreOf(c, Len(TraceOf(c))), CoreOf(d, Len(TraceOf(d))))
  BY <1>1, <1>2, <1>3, <1>5, TrialsStaySlower
<1>7. /\ r.published = CoreOf(c, Len(TraceOf(c))).published
      /\ r.staleness = CoreOf(c, Len(TraceOf(c))).answers
      /\ s.published = CoreOf(d, Len(TraceOf(d))).published
      /\ s.staleness = CoreOf(d, Len(TraceOf(d))).answers
      /\ Len(r.staleness) = Len(queries)
      /\ r.published \in Nat /\ s.published \in Nat
  BY <1>1 DEF Fulfilled, c, d
<1> HIDE DEF u, v
<1>8. /\ s.published <= r.published
      /\ \A q \in 1..Len(r.staleness) : /\ r.staleness[q] <= s.staleness[q]
                                        /\ u = 1 => r.staleness[q] = 0
  BY <1>6, <1>7 DEF Slower
<1>9. /\ r.published >= s.published
      /\ \A q \in DOMAIN queries : /\ r.staleness[q] <= s.staleness[q]
                                   /\ u = 1 => r.staleness[q] = 0
  BY <1>2, <1>7, <1>8
<1> QED BY <1>9 DEF r, s, c, u

(* The sign of the actuator: of two trials on one trace whose cadences    *)
(* are multiples, the larger never publishes more and never answers any   *)
(* query with a smaller staleness; exact freshness has no staleness.      *)
THEOREM LargerCadenceIsStaler == Spec => []ActuatorSign
<1>1. Spec => []StudyInv
  BY StudyStart, StudySteps, PTL DEF Spec
<1> QED BY <1>1, SignFollows, PTL
=============================================================================
