--------------------------- MODULE PublicationProofs ---------------------------
(***************************************************************************)
(* Proofs about Publication, for every set of keys, word width, policy and *)
(* bound.  The strengthening of the invariants relates, key by key, the    *)
(* three tables of the coordinator, and bounds the cached keys by the known*)
(* ones.                                                                   *)
(***************************************************************************)
EXTENDS Publication, FiniteSetTheorems, TLAPS

(* The tables agree about every key.                                      *)
KeyInv ==
  \A k \in Keys :
    /\ tracking[k].pending + cache[k].features = users[k].count
    /\ fresh[k] = users[k].count
    /\ tracking[k].hasPublished <=> cache[k].version > 0
    /\ cache[k].version > 0 <=> cache[k].features > 0
    /\ cache[k].version = 0 => cache[k].ts = 0
    /\ tracking[k].lastTs = cache[k].ts
    /\ cache[k].ts <= users[k].lastNs \/ cache[k].version = 0

(* No key has more events, versions or a later number than the whole.     *)
BoundInv ==
  \A k \in Keys :
    /\ users[k].count <= acct.processed
    /\ cache[k].version <= total
    /\ cache[k].seq <= acct.processed

AcctInv ==
  /\ acct.processed = acct.published + acct.coalesced
  /\ total = acct.published
  /\ acct.served = acct.cold + acct.warm

(* The features are within the key budget, before the cache ever is.      *)
BudgetInv == Cardinality(KnownKeys) <= MaxKeys

IInv == TypeOK /\ KeyInv /\ BoundInv /\ AcctInv /\ BudgetInv /\ PolicyHonoured
-----------------------------------------------------------------------------
(* A pressure never asks for a cadence above cadence_max or below 1.      *)
LEMMA CadenceRange ==
  ASSUME NEW p \in Pressure, policy \in Policies
  PROVE  TargetCadence(p) \in 1..policy.cadenceMax
<1> DEFINE m == policy.cadenceMax - 1
           c == Clipped(p)
<1>1. m \in Nat /\ PressureUnit \in Nat \ {0}
  BY PublicationAssumption
<1>2. c \in 0..PressureUnit
  BY <1>1 DEF Clipped, Pressure
<1>3. (c * m) \div PressureUnit \in 0..m
  <2> HIDE DEF m, c
  <2>1. c * m \in Nat /\ c * m <= PressureUnit * m
    BY <1>1, <1>2
  <2>2. (PressureUnit * m) \div PressureUnit = m
    BY <1>1
  <2> QED
    BY <2>1, <2>2, <1>1
<1>4. TargetCadence(p) = 1 + (c * m) \div PressureUnit
  BY DEF TargetCadence
<1>5. policy.cadenceMax = m + 1
  BY PublicationAssumption
<1> HIDE DEF m, c
<1> QED
  BY <1>1, <1>3, <1>4, <1>5

(* Every initial state satisfies the strengthening.                       *)
LEMMA InitIInv == Init => IInv
<1> SUFFICES ASSUME Init PROVE IInv
  OBVIOUS
<1> USE PublicationAssumption
<1>1. TypeOK
  BY DEF Init, TypeOK, Unseen, Untracked, Cold, Time
<1>2. KeyInv /\ BoundInv /\ AcctInv
  BY DEF Init, KeyInv, BoundInv, AcctInv, Unseen, Untracked, Cold
<1>3. BudgetInv
  <2>1. KnownKeys = {}
    BY DEF Init, KnownKeys, Unseen
  <2> QED
    BY <2>1, FS_EmptySet DEF BudgetInv
<1>4. PolicyHonoured
  BY DEF Init, PolicyHonoured, Unseen, Untracked, Cold
<1> QED
  BY <1>1, <1>2, <1>3, <1>4 DEF IInv

(* An accepted event leaves at most MaxKeys known keys; so the cache has  *)
(* room for its key.                                                      *)
LEMMA BudgetStep ==
  ASSUME IInv, NEW k \in Keys, NEW ts \in Time, Accepted(k, ts),
         users' = [users EXCEPT ![k] = [count |-> @.count + 1, lastNs |-> ts]]
  PROVE  BudgetInv' /\ CacheHasRoom(k)
<1> USE DEF IInv, TypeOK
<1>1. IsFiniteSet(KnownKeys) /\ IsFiniteSet(CachedKeys)
  BY PublicationAssumption, FS_Subset DEF KnownKeys, CachedKeys
<1>2. KnownKeys' = KnownKeys \cup {k}
  BY PublicationAssumption DEF KnownKeys
<1>3. CachedKeys \subseteq KnownKeys
  BY PublicationAssumption DEF KeyInv, KnownKeys, CachedKeys
<1>4. k \in KnownKeys <=> users[k].count > 0
  BY DEF KnownKeys
<1>5. Cardinality(KnownKeys) \in Nat /\ Cardinality(CachedKeys) \in Nat
  BY <1>1, FS_CardinalityType
<1>6. BudgetInv'
  <2>1. CASE k \in KnownKeys
    BY <2>1, <1>2 DEF BudgetInv
  <2>2. CASE k \notin KnownKeys
    <3>1. users[k].count = 0
      BY <2>2, <1>4
    <3>2. Cardinality(KnownKeys) < MaxKeys
      BY <3>1 DEF Accepted
    <3>3. Cardinality(KnownKeys \cup {k}) = Cardinality(KnownKeys) + 1
      BY <2>2, <1>1, FS_AddElement
    <3> QED
      BY <3>2, <3>3, <1>2, <1>5, PublicationAssumption DEF BudgetInv
  <2> QED
    BY <2>1, <2>2
<1>7. CacheHasRoom(k)
  <2> SUFFICES ASSUME ~(cache[k].version > 0) PROVE Cardinality(CachedKeys) < MaxKeys
    BY DEF CacheHasRoom
  <2>1. k \notin CachedKeys
    BY DEF CachedKeys
  <2>2. Cardinality(CachedKeys \cup {k}) = Cardinality(CachedKeys) + 1
    BY <2>1, <1>1, FS_AddElement
  <2>3. CachedKeys \cup {k} \subseteq KnownKeys'
    BY <1>2, <1>3
  <2>4. IsFiniteSet(KnownKeys')
    BY <1>1, <1>2, FS_AddElement
  <2>5. Cardinality(CachedKeys \cup {k}) <= Cardinality(KnownKeys')
    BY <2>3, <2>4, FS_Subset
  <2>6. Cardinality(KnownKeys') \in Nat
    BY <2>4, FS_CardinalityType
  <2>7. Cardinality(KnownKeys') <= MaxKeys
    BY <1>6 DEF BudgetInv
  <2> QED
    BY <2>2, <2>5, <2>6, <2>7, <1>5, PublicationAssumption
<1> QED
  BY <1>6, <1>7

(* What the strengthening says of the key of an accepted event.           *)
LEMMA EventFacts ==
  ASSUME IInv, NEW k \in Keys, acct.processed < MaxEvents
  PROVE  /\ users[k].count \in Nat /\ users[k].count + 1 \in 0..MaxEvents
         /\ tracking[k].pending \in Nat /\ tracking[k].pending + 1 \in 0..MaxEvents
         /\ cache[k].features \in Nat /\ cache[k].features <= users[k].count
         /\ cache[k].version \in Nat /\ cache[k].version + 1 \in 0..MaxEvents
         /\ total + 1 \in 0..MaxEvents /\ acct.processed + 1 \in 0..MaxEvents
         /\ acct.published + 1 \in 0..MaxEvents /\ acct.coalesced + 1 \in 0..MaxEvents
<1>1. /\ users[k] \in [count : 0..MaxEvents, lastNs : Time]
      /\ tracking[k].pending \in Nat
      /\ cache[k].features \in Nat /\ cache[k].version \in Nat
      /\ acct.processed \in Nat /\ acct.published \in Nat /\ acct.coalesced \in Nat
      /\ total \in Nat /\ MaxEvents \in Nat
  BY PublicationAssumption DEF IInv, TypeOK
<1>2. /\ tracking[k].pending + cache[k].features = users[k].count
      /\ users[k].count <= acct.processed /\ cache[k].version <= total
      /\ acct.processed = acct.published + acct.coalesced /\ total = acct.published
  BY DEF IInv, KeyInv, BoundInv, AcctInv
<1> QED
  BY <1>1, <1>2

(* A coalesced event keeps the strengthening: the policy did not ask for  *)
(* a publication, with or without a wrapped sum.                          *)
LEMMA CoalesceIInv ==
  ASSUME IInv, NEW k \in Keys, NEW ts \in Time, NEW p \in Pressure, ProcessEvent(k, ts, p),
         Coalesce(k), ~Wants(k, ts, p)
  PROVE  TypeOK' /\ KeyInv' /\ BoundInv' /\ AcctInv' /\ PolicyHonoured'
<1> USE PublicationAssumption DEF IInv
<1> acct.processed < MaxEvents
  BY DEF ProcessEvent
<1>1. TypeOK'
  <2>1. /\ policy' \in Policies /\ cache' = cache /\ total' = total
        /\ users' \in [Keys -> [count : 0..MaxEvents, lastNs : Time]]
        /\ fresh' \in [Keys -> 0..MaxEvents]
    BY EventFacts DEF ProcessEvent, Coalesce, TypeOK
  <2>2. tracking' \in [Keys -> [pending : 0..MaxEvents, lastTs : Time, lastSeq : 0..MaxEvents,
                                hasPublished : BOOLEAN]]
    BY EventFacts DEF Coalesce, TypeOK
  <2>3. acct' \in [processed : 0..MaxEvents, published : 0..MaxEvents,
                   coalesced : 0..MaxEvents, served : 0..MaxQueries,
                   cold : 0..MaxQueries, warm : 0..MaxQueries]
    BY EventFacts DEF Coalesce, TypeOK
  <2> QED
    BY <2>1, <2>2, <2>3 DEF TypeOK
<1>2. KeyInv'
  <2> SUFFICES ASSUME NEW j \in Keys
               PROVE  /\ tracking'[j].pending + cache'[j].features = users'[j].count
                      /\ fresh'[j] = users'[j].count
                      /\ tracking'[j].hasPublished <=> cache'[j].version > 0
                      /\ cache'[j].version > 0 <=> cache'[j].features > 0
                      /\ cache'[j].version = 0 => cache'[j].ts = 0
                      /\ tracking'[j].lastTs = cache'[j].ts
                      /\ cache'[j].ts <= users'[j].lastNs \/ cache'[j].version = 0
    BY DEF KeyInv
  <2>1. CASE j # k
    BY <2>1 DEF ProcessEvent, Coalesce, TypeOK, KeyInv
  <2>2. CASE j = k
    <3>1. /\ tracking'[k] = [tracking[k] EXCEPT !.pending = @ + 1]
          /\ cache'[k] = cache[k] /\ fresh'[k] = users[k].count + 1
          /\ users'[k] = [count |-> users[k].count + 1, lastNs |-> ts]
      BY DEF ProcessEvent, Coalesce, TypeOK
    <3>2. /\ tracking'[k].pending = tracking[k].pending + 1
          /\ tracking'[k].hasPublished = tracking[k].hasPublished
          /\ tracking'[k].lastTs = tracking[k].lastTs
      BY <3>1 DEF TypeOK
    <3>3. cache[k].ts <= ts \/ cache[k].version = 0
      <4>1. users[k].count > 0 => ts >= users[k].lastNs
        BY DEF ProcessEvent, Accepted
      <4>2. /\ users[k].lastNs \in Time /\ cache[k].ts \in Time
            /\ cache[k].version > 0 => users[k].count > 0
        BY EventFacts DEF TypeOK, KeyInv
      <4> QED
        BY <4>1, <4>2, EventFacts DEF KeyInv, Time
    <3>4. users'[k].count = users[k].count + 1 /\ users'[k].lastNs = ts
      BY <3>1
    <3> HIDE <1>1
    <3> QED
      BY <2>2, <3>1, <3>2, <3>3, <3>4, EventFacts DEF KeyInv
  <2> QED
    BY <2>1, <2>2
<1>3. BoundInv' /\ AcctInv'
  BY DEF ProcessEvent, Coalesce, TypeOK, BoundInv, AcctInv
<1>4. PolicyHonoured'
  <2> SUFFICES ASSUME NEW j \in Keys
               PROVE  LET pending == tracking'[j].pending IN
                      /\ policy.type = "ExactFresh" => pending = 0
                      /\ policy.type = "FixedCadence" => pending < policy.cadence
                      /\ policy.type = "AdaptivePressure" => pending < policy.cadenceMax
                      /\ policy.type = "ElapsedThreshold" /\ pending > 0 =>
                           /\ cache'[j].version > 0
                           /\ users'[j].lastNs - cache'[j].ts < policy.elapsed
    BY DEF PolicyHonoured, ProcessEvent
  <2>1. CASE j # k
    BY <2>1 DEF PolicyHonoured, ProcessEvent, Coalesce, TypeOK
  <2>2. CASE j = k
    <3>1. /\ tracking'[k].pending = tracking[k].pending + 1
          /\ users'[k].lastNs = ts /\ cache'[k] = cache[k]
      BY DEF ProcessEvent, Coalesce, TypeOK
    <3>2. /\ tracking[k].pending \in Nat /\ tracking[k].lastTs \in Time
          /\ policy.elapsed \in 0..(Word - 1) /\ policy.cadence \in Nat \ {0}
      BY DEF TypeOK
    <3>3. policy.type # "ExactFresh"
      BY DEF Wants
    <3>4. policy.type = "FixedCadence" => tracking[k].pending + 1 < policy.cadence
      BY <3>2 DEF Wants
    <3>5. policy.type = "AdaptivePressure" => tracking[k].pending + 1 < policy.cadenceMax
      BY <3>2, CadenceRange DEF Wants, TypeOK
    <3>6. policy.type = "ElapsedThreshold" =>
            /\ cache[k].version > 0
            /\ ts - cache[k].ts < policy.elapsed
      <4>1. (tracking[k].lastTs + policy.elapsed) % Word <= tracking[k].lastTs + policy.elapsed
        BY <3>2 DEF Time
      <4>2. (tracking[k].lastTs + policy.elapsed) % Word \in Int
        BY <3>2 DEF Time
      <4> QED
        BY <3>2, <4>1, <4>2 DEF Wants, KeyInv, Time
    <3> QED
      BY <2>2, <3>1, <3>3, <3>4, <3>5, <3>6
  <2> QED
    BY <2>1, <2>2
<1> QED
  BY <1>1, <1>2, <1>3, <1>4

(* A published event keeps the strengthening.                             *)
LEMMA PublishIInv ==
  ASSUME IInv, NEW k \in Keys, NEW ts \in Time, NEW p \in Pressure, ProcessEvent(k, ts, p),
         Publish(k, ts)
  PROVE  TypeOK' /\ KeyInv' /\ BoundInv' /\ AcctInv' /\ PolicyHonoured'
<1> USE PublicationAssumption DEF IInv, Publish, PublishCounting
<1> acct.processed < MaxEvents
  BY DEF ProcessEvent
<1>1. TypeOK'
  <2>1. /\ policy' \in Policies /\ total' \in 0..MaxEvents
        /\ users' \in [Keys -> [count : 0..MaxEvents, lastNs : Time]]
        /\ fresh' \in [Keys -> 0..MaxEvents]
    BY EventFacts DEF ProcessEvent, TypeOK
  <2>2. tracking' \in [Keys -> [pending : 0..MaxEvents, lastTs : Time, lastSeq : 0..MaxEvents,
                                hasPublished : BOOLEAN]]
    BY EventFacts DEF TypeOK
  <2>3. cache' \in [Keys -> [version : 0..MaxEvents, seq : 0..MaxEvents, ts : Time,
                             features : 0..MaxEvents]]
    BY EventFacts DEF TypeOK
  <2>4. acct' \in [processed : 0..MaxEvents, published : 0..MaxEvents,
                   coalesced : 0..MaxEvents, served : 0..MaxQueries,
                   cold : 0..MaxQueries, warm : 0..MaxQueries]
    BY EventFacts DEF TypeOK
  <2> QED
    BY <2>1, <2>2, <2>3, <2>4 DEF TypeOK
<1>2. KeyInv'
  BY DEF ProcessEvent, TypeOK, KeyInv, Time
<1>3. BoundInv' /\ AcctInv'
  BY DEF ProcessEvent, TypeOK, BoundInv, AcctInv
<1>4. PolicyHonoured'
  BY DEF ProcessEvent, TypeOK, PolicyHonoured
<1> QED
  BY <1>1, <1>2, <1>3, <1>4

(* The strengthening is inductive.                                        *)
LEMMA StepIInv == IInv /\ [Next]_vars => IInv'
<1> SUFFICES ASSUME IInv, [Next]_vars PROVE IInv'
  OBVIOUS
<1>1. ASSUME NEW k \in Keys, NEW ts \in Time, NEW p \in Pressure, ProcessEvent(k, ts, p)
      PROVE  IInv'
  <2>1. BudgetInv' /\ CacheHasRoom(k)
    BY <1>1, BudgetStep DEF ProcessEvent
  <2>2. CASE ~Wants(k, ts, p)
    BY <1>1, <2>1, <2>2, CoalesceIInv DEF ProcessEvent, IInv
  <2>3. CASE Wants(k, ts, p)
    BY <1>1, <2>1, <2>3, PublishIInv DEF ProcessEvent, IInv
  <2> QED
    BY <2>2, <2>3
<1>2. ASSUME NEW k \in Keys, Query(k)
      PROVE  IInv'
  <2> USE <1>2, PublicationAssumption DEF IInv, Query
  <2>1. TypeOK'
    <3>1. /\ acct.served + 1 \in 0..MaxQueries
          /\ acct.cold + 1 \in 0..MaxQueries /\ acct.warm + 1 \in 0..MaxQueries
      BY DEF TypeOK, AcctInv
    <3>2. acct' \in [processed : 0..MaxEvents, published : 0..MaxEvents,
                     coalesced : 0..MaxEvents, served : 0..MaxQueries,
                     cold : 0..MaxQueries, warm : 0..MaxQueries]
      BY <3>1 DEF TypeOK
    <3> QED
      BY <3>2 DEF TypeOK
  <2>4. AcctInv'
    BY DEF TypeOK, AcctInv
  <2>2. KeyInv' /\ BoundInv'
    BY DEF TypeOK, KeyInv, BoundInv
  <2>3. BudgetInv' /\ PolicyHonoured'
    BY DEF BudgetInv, KnownKeys, PolicyHonoured
  <2> QED
    BY <2>1, <2>2, <2>3, <2>4
<1>3. CASE UNCHANGED vars
  BY <1>3 DEF vars, IInv, TypeOK, KeyInv, BoundInv, AcctInv, BudgetInv, KnownKeys,
              PolicyHonoured
<1> QED
  BY <1>1, <1>2, <1>3 DEF Next

(* The strengthening is an invariant.                                     *)
LEMMA SpecIInv == Spec => []IInv
  BY InitIInv, StepIInv, PTL DEF Spec

(* Every table keeps its type, within the stated bounds.                  *)
THEOREM PublicationTypeCorrect == Spec => []TypeOK
<1>1. IInv => TypeOK
  BY DEF IInv
<1> QED
  BY <1>1, SpecIInv, PTL

(* The reported staleness is the number of events the cached features     *)
(* lack.                                                                  *)
THEOREM StalenessIsExact == Spec => []StalenessExact
<1>1. IInv => StalenessExact
  <2> SUFFICES ASSUME IInv, NEW k \in Keys, NEW t \in Time
               PROVE  /\ Answer(k, t).staleness = Answer(k, t).fresh - Answer(k, t).cached
                      /\ Answer(k, t).coldStart <=> Answer(k, t).cached = 0
    BY DEF StalenessExact
  <2>1. /\ Answer(k, t).staleness = tracking[k].pending
        /\ Answer(k, t).fresh = fresh[k] /\ Answer(k, t).cached = cache[k].features
        /\ Answer(k, t).coldStart <=> cache[k].version = 0
    BY DEF Answer
  <2>2. /\ tracking[k].pending \in Nat /\ cache[k].features \in Nat
        /\ cache[k].version \in Nat
    BY PublicationAssumption DEF IInv, TypeOK
  <2>3. /\ tracking[k].pending = fresh[k] - cache[k].features
        /\ cache[k].version = 0 <=> cache[k].features = 0
    BY <2>2, PublicationAssumption DEF IInv, KeyInv
  <2> HIDE DEF Answer
  <2> QED
    BY <2>1, <2>3, Zenon
<1> QED
  BY <1>1, SpecIInv, PTL

(* Every policy keeps its freshness promise, whatever the word width.     *)
THEOREM PoliciesHonoured == Spec => []PolicyHonoured
<1>1. IInv => PolicyHonoured
  BY DEF IInv
<1> QED
  BY <1>1, SpecIInv, PTL

(* Published and coalesced events account for all processed ones, and the *)
(* cache never runs out of keys before the features do.                   *)
THEOREM AccountingConserved == Spec => []Conserved
<1>1. IInv => Conserved
  BY DEF IInv, AcctInv, Conserved
<1> QED
  BY <1>1, SpecIInv, PTL

(* A cached version is only ever replaced by the next, later one.         *)
THEOREM CacheAdvances == Spec => VersionsAdvance
<1> DEFINE Advance == \A k \in Keys :
             \/ cache'[k] = cache[k]
             \/ /\ cache'[k].version = cache[k].version + 1
                /\ cache'[k].seq > cache[k].seq
                /\ cache'[k].ts >= cache[k].ts
                /\ cache'[k].features > cache[k].features
<1>1. IInv /\ [Next]_vars => [Advance]_cache
  <2> SUFFICES ASSUME IInv, [Next]_vars, cache' # cache PROVE Advance
    OBVIOUS
  <2>1. PICK k \in Keys, ts \in Time, p \in Pressure :
          ProcessEvent(k, ts, p) /\ Publish(k, ts)
    BY DEF Next, vars, Query, ProcessEvent, Coalesce, PublishThrows
  <2>2. /\ cache' = [cache EXCEPT ![k] = [version |-> @.version + 1, seq |-> acct.processed + 1,
                                          ts |-> ts, features |-> users[k].count + 1]]
        /\ Accepted(k, ts)
    BY <2>1 DEF ProcessEvent, Publish, PublishCounting
  <2>3. /\ cache[k].seq <= acct.processed /\ cache[k].features <= users[k].count
        /\ cache[k].ts <= ts
        /\ acct.processed \in Nat /\ users[k].count \in Nat
        /\ cache[k].seq \in Nat /\ cache[k].features \in Nat
    BY <2>2, PublicationAssumption DEF IInv, TypeOK, KeyInv, BoundInv, Accepted, Time
  <2> QED
    BY <2>2, <2>3, PublicationAssumption DEF IInv, TypeOK, Time
<1>2. Spec => [][Advance]_cache
  BY <1>1, SpecIInv, PTL DEF Spec
<1> QED
  BY <1>2 DEF VersionsAdvance
-----------------------------------------------------------------------------
(* The users table of the simulator, as the coordinator's tables show it. *)
User(k) == [count |-> users[k].count, lastNs |-> users[k].lastNs,
            pending |-> tracking[k].pending, hasPublished |-> tracking[k].hasPublished,
            versionId |-> cache[k].version, lastTs |-> tracking[k].lastTs,
            lastSeq |-> tracking[k].lastSeq]
Users == [j \in Keys |-> User(j)]

(* The thresholds that cannot wrap within the times of the run.           *)
NoWrap == \A q \in Policies : MaxTime + q.elapsed < Word

(* Both sides accept the same events.                                     *)
LEMMA SameAdmission ==
  ASSUME IInv, NEW k \in Keys, NEW ts \in Time
  PROVE  Accepted(k, ts) <=> Reference!Admissible(k, ts)
<1>1. users[k].count \in Nat
  BY PublicationAssumption DEF IInv, TypeOK
<1>2. Reference!KnownUsers = KnownKeys
  BY DEF Reference!KnownUsers, KnownKeys
<1>3. Reference!Admissible(k, ts) <=>
        IF users[k].count = 0 THEN Reference!Cardinality(KnownKeys) < MaxKeys
        ELSE ts >= users[k].lastNs
  BY <1>2 DEF Reference!Admissible
<1>4. Reference!Cardinality(KnownKeys) = Cardinality(KnownKeys)
  BY DEF Reference!Cardinality, Cardinality
<1> QED
  BY <1>1, <1>3, <1>4 DEF Accepted

(* Both sides decide alike when no sum wraps.                             *)
LEMMA SameDecision ==
  ASSUME IInv, NoWrap, NEW k \in Keys, NEW ts \in Time, NEW p \in Pressure
  PROVE  Wants(k, ts, p) <=> Reference!ShouldPublish(k, ts, p)
<1>1. /\ policy \in Policies /\ policy.elapsed \in Nat /\ policy.cadenceMax \in Nat \ {0}
      /\ tracking[k].lastTs \in 0..MaxTime /\ Word \in Nat /\ MaxTime \in Nat
  BY PublicationAssumption DEF IInv, TypeOK, Time
<1>2. (tracking[k].lastTs + policy.elapsed) % Word = tracking[k].lastTs + policy.elapsed
  <2>1. MaxTime + policy.elapsed < Word
    BY <1>1 DEF NoWrap
  <2>2. ASSUME NEW n \in Nat, NEW w \in Nat, n < w PROVE n % w = n
    BY <2>2
  <2>3. /\ tracking[k].lastTs + policy.elapsed \in Nat
        /\ tracking[k].lastTs + policy.elapsed < Word
    BY <1>1, <2>1
  <2> QED
    BY <1>1, <2>2, <2>3
<1>3. ts >= tracking[k].lastTs + policy.elapsed <=> ts - tracking[k].lastTs >= policy.elapsed
  BY <1>1 DEF Time
<1>4. TargetCadence(p) = Reference!TargetCadence(p)
  <2>1. Clipped(p) = Reference!InRange(p, 0, PressureUnit)
    BY DEF Clipped, Reference!InRange
  <2>2. TargetCadence(p) \in 1..policy.cadenceMax
    BY <1>1, CadenceRange
  <2>3. Reference!TargetCadence(p)
          = Reference!InRange(TargetCadence(p), 1, policy.cadenceMax)
    BY <2>1 DEF Reference!TargetCadence, TargetCadence
  <2>4. Reference!InRange(TargetCadence(p), 1, policy.cadenceMax) = TargetCadence(p)
    BY <2>2, <1>1 DEF Reference!InRange
  <2> QED
    BY <2>3, <2>4
<1>5. /\ Users[k].pending = tracking[k].pending /\ Users[k].lastTs = tracking[k].lastTs
      /\ Users[k].hasPublished <=> tracking[k].hasPublished
  BY DEF Users, User
<1>6. Reference!ShouldPublish(k, ts, p) <=>
        \/ policy.type = "ExactFresh"
        \/ policy.type = "FixedCadence" /\ Users[k].pending + 1 >= policy.cadence
        \/ /\ policy.type = "ElapsedThreshold"
           /\ ~Users[k].hasPublished \/ ts - Users[k].lastTs >= policy.elapsed
        \/ policy.type = "AdaptivePressure"
           /\ Users[k].pending + 1 >= Reference!TargetCadence(p)
  BY DEF Reference!ShouldPublish, Users, User
<1> QED
  BY <1>2, <1>3, <1>4, <1>5, <1>6 DEF Wants

(* A native step is a step of the simulator.                              *)
LEMMA StepMatches ==
  ASSUME IInv, NoWrap, [Next]_vars
  PROVE  [Reference!Next]_(Reference!vars)
<1> USE PublicationAssumption
<1>1. ASSUME NEW k \in Keys, NEW ts \in Time, NEW p \in Pressure, ProcessEvent(k, ts, p)
      PROVE  Reference!ProcessEvent(k, ts, p)
  <2> acct.processed < MaxEvents /\ Accepted(k, ts)
    BY <1>1 DEF ProcessEvent
  <2>1. CacheHasRoom(k)
    BY <1>1, BudgetStep DEF ProcessEvent
  <2>2. Reference!Admissible(k, ts)
    BY SameAdmission
  <2>3. ASSUME NEW j \in Keys, j # k PROVE User(j)' = User(j)
    BY <1>1, <2>1, <2>3 DEF ProcessEvent, Coalesce, Publish, PublishCounting, User,
                            IInv, TypeOK
  <2>4. CASE ~Wants(k, ts, p)
    <3>1. Coalesce(k)
      BY <1>1, <2>4 DEF ProcessEvent
    <3>2. User(k)' = [count |-> users[k].count + 1, lastNs |-> ts,
                      pending |-> tracking[k].pending + 1,
                      hasPublished |-> tracking[k].hasPublished,
                      versionId |-> cache[k].version, lastTs |-> tracking[k].lastTs,
                      lastSeq |-> tracking[k].lastSeq]
      <4>1. /\ users'[k] = [count |-> users[k].count + 1, lastNs |-> ts]
            /\ tracking'[k] = [tracking[k] EXCEPT !.pending = tracking[k].pending + 1]
            /\ cache' = cache
        BY <1>1, <3>1 DEF ProcessEvent, Coalesce, IInv, TypeOK
      <4>2. /\ tracking'[k].pending = tracking[k].pending + 1
            /\ tracking'[k].hasPublished = tracking[k].hasPublished
            /\ tracking'[k].lastTs = tracking[k].lastTs
            /\ tracking'[k].lastSeq = tracking[k].lastSeq
        BY <4>1 DEF IInv, TypeOK
      <4> QED
        BY <4>1, <4>2 DEF User
    <3>3. Users' = [Users EXCEPT ![k].count = @ + 1, ![k].lastNs = ts, ![k].pending = @ + 1]
      BY <2>3, <3>2 DEF Users, User
    <3>4. Reference!CoalesceUpdate(k, ts)
      BY <3>1, <3>3 DEF Reference!CoalesceUpdate, Coalesce, Users, User
    <3>5. ~Reference!ShouldPublish(k, ts, p)
      BY <2>4, SameDecision
    <3> QED
      BY <1>1, <2>2, <3>4, <3>5 DEF Reference!ProcessEvent, ProcessEvent, Users, User
  <2>5. CASE Wants(k, ts, p)
    <3>1. Publish(k, ts)
      BY <1>1, <2>1, <2>5 DEF ProcessEvent
    <3>2. User(k)' = [count |-> users[k].count + 1, lastNs |-> ts, pending |-> 0,
                      hasPublished |-> TRUE, versionId |-> cache[k].version + 1,
                      lastTs |-> ts, lastSeq |-> acct.processed + 1]
      BY <1>1, <3>1 DEF ProcessEvent, Publish, PublishCounting, User, IInv, TypeOK
    <3>3. Users' = [Users EXCEPT ![k] = [count |-> @.count + 1, lastNs |-> ts, pending |-> 0,
                      hasPublished |-> TRUE, versionId |-> cache[k].version + 1,
                      lastTs |-> ts, lastSeq |-> acct.processed + 1]]
      <4> DEFINE new == [count |-> users[k].count + 1, lastNs |-> ts, pending |-> 0,
                         hasPublished |-> TRUE, versionId |-> cache[k].version + 1,
                         lastTs |-> ts, lastSeq |-> acct.processed + 1]
      <4>1. User(k)' = new
        BY <3>2
      <4>2. Users[k].count = users[k].count
        BY DEF Users, User
      <4>3. Users' = [Users EXCEPT ![k] = new]
        <5> HIDE DEF new
        <5> QED
          BY <2>3, <4>1 DEF Users
      <4> QED
        BY <4>2, <4>3
    <3>4. Reference!PublishUpdate(k, ts)
      BY <3>1, <3>3 DEF Reference!PublishUpdate, Publish, PublishCounting, Users, User,
                        IInv, TypeOK
    <3>5. Reference!ShouldPublish(k, ts, p)
      BY <2>5, SameDecision
    <3> QED
      BY <1>1, <2>2, <3>4, <3>5 DEF Reference!ProcessEvent, ProcessEvent, Users, User
  <2> QED
    BY <2>4, <2>5
<1>2. ASSUME NEW k \in Keys, Query(k)
      PROVE  Reference!Query(k)
  <2>1. Users' = Users
    BY <1>2 DEF Query, Users, User
  <2>2. CASE cache[k].version = 0
    BY <1>2, <2>1, <2>2 DEF Query, Reference!Query, Users, User, IInv, TypeOK
  <2>3. CASE cache[k].version # 0
    BY <1>2, <2>1, <2>3 DEF Query, Reference!Query, Users, User, IInv, TypeOK
  <2> QED
    BY <2>2, <2>3
<1>3. CASE UNCHANGED vars
  BY <1>3 DEF vars, Reference!vars
<1> QED
  BY <1>1, <1>2, <1>3 DEF Next, Reference!Next, Time, Pressure

(* As long as no threshold can wrap, the native coordinator is an         *)
(* implementation of the Python simulator.                                *)
THEOREM NativeImplementsReference ==
  ASSUME NoWrap PROVE Spec => ImplementsReference
<1>1. Init => Reference!Init
  BY DEF Init, Reference!Init, Reference!NewUser, Unseen, Untracked, Cold
<1>2. IInv /\ [Next]_vars => [Reference!Next]_(Reference!vars)
  BY StepMatches
<1> QED
  BY <1>1, <1>2, SpecIInv, PTL DEF Spec, ImplementsReference, Reference!Spec

(* And both answer every query alike, even one older than the version.    *)
THEOREM AnswersAgree == Spec => []SameAnswers
<1>1. IInv => SameAnswers
  <2> SUFFICES ASSUME IInv, NEW k \in Keys, NEW t \in Time
               PROVE  Answer(k, t) = Reference!Answer(k, t)
    BY DEF SameAnswers
  <2>1. cache[k].ts \in Time
    BY DEF IInv, TypeOK
  <2>2. Age(k, t) = Reference!AgeAt(k, t)
    BY <2>1, PublicationAssumption DEF Age, Reference!AgeAt, Reference!InRange, Time
  <2> QED
    BY <2>2 DEF Answer, Reference!Answer
<1> QED
  BY <1>1, SpecIInv, PTL
=============================================================================
