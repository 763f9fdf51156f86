------------------------------ MODULE Publication ------------------------------
(***************************************************************************)
(* PublicationCoordinator and the VersionedCache behind it (source/include/*)
(* bpfeat/cache.hpp): every accepted event updates the features of its key *)
(* and a policy decides whether they are published as a new version or     *)
(* coalesced; queries are answered from the published versions.            *)
(*                                                                         *)
(* A feature vector is a function of the events of its key, so the vector  *)
(* after the n-th event of a key is represented by n.  Events are numbered *)
(* in the order in which they are accepted.  A rejected event throws before*)
(* anything is changed, which is a stuttering step.                        *)
(***************************************************************************)
EXTENDS Integers, FiniteSets

CONSTANTS Keys,          (* the keys events and queries may name           *)
          MaxKeys,       (* max_keys, of the features and of the cache     *)
          Word,          (* 2^64: unsigned sums are reduced modulo Word    *)
          Policies,      (* the policy configurations considered           *)
          PressureUnit,  (* a pressure is a multiple of 1 / PressureUnit   *)
          MaxTime,       (* bound: event and query times are 0..MaxTime    *)
          MaxEvents,     (* bound: accepted events                         *)
          MaxQueries     (* bound: queries                                 *)

PolicyTypes == {"ExactFresh", "FixedCadence", "ElapsedThreshold", "AdaptivePressure"}

(* The checks of the constructors and of cache_tool's options.            *)
ASSUME PublicationAssumption ==
  /\ IsFiniteSet(Keys) /\ MaxKeys \in Nat \ {0} /\ PressureUnit \in Nat \ {0}
  /\ MaxTime \in Nat /\ MaxEvents \in Nat /\ MaxQueries \in Nat
  /\ Word \in Nat /\ MaxTime < Word
  /\ Policies \subseteq [type : PolicyTypes, cadence : Nat \ {0}, elapsed : 0..(Word - 1),
                         cadenceMax : Nat \ {0}]

VARIABLES policy,    (* policy_                                            *)
          users,     (* features_: events folded in and time of the last   *)
          fresh,     (* latest_fresh_features_                             *)
          tracking,  (* key_tracking_                                      *)
          cache,     (* versions_; version 0: the key has none             *)
          total,     (* total_publications_                                *)
          acct       (* accounting_                                        *)

vars == <<policy, users, fresh, tracking, cache, total, acct>>
-----------------------------------------------------------------------------
Time == 0..MaxTime
Pressure == -1..(PressureUnit + 1)

Unseen == [count |-> 0, lastNs |-> 0]
Untracked == [pending |-> 0, lastTs |-> 0, lastSeq |-> 0, hasPublished |-> FALSE]
Cold == [version |-> 0, seq |-> 0, ts |-> 0, features |-> 0]

Init ==
  /\ policy \in Policies
  /\ users = [k \in Keys |-> Unseen]
  /\ fresh = [k \in Keys |-> 0]
  /\ tracking = [k \in Keys |-> Untracked]
  /\ cache = [k \in Keys |-> Cold]
  /\ total = 0
  /\ acct = [processed |-> 0, published |-> 0, coalesced |-> 0,
             served |-> 0, cold |-> 0, warm |-> 0]

KnownKeys == {k \in Keys : users[k].count > 0}
CachedKeys == {k \in Keys : cache[k].version > 0}

AcceptedPastBudget(k, ts) == users[k].count > 0 => ts >= users[k].lastNs

AcceptedAtAnyTime(k, ts) == users[k].count = 0 => Cardinality(KnownKeys) < MaxKeys

(* KeyedFeatures::update accepts the event: the key is within the budget  *)
(* and its time does not decrease.                                        *)
Accepted(k, ts) ==
  /\ users[k].count = 0 => Cardinality(KnownKeys) < MaxKeys
  /\ users[k].count > 0 => ts >= users[k].lastNs

Clipped(p) == IF p < 0 THEN 0 ELSE IF p > PressureUnit THEN PressureUnit ELSE p

(* The cadence the pressure asks for.                                     *)
TargetCadence(p) == 1 + (Clipped(p) * (policy.cadenceMax - 1)) \div PressureUnit

WantsAfterCadence(k, ts, p) == tracking[k].pending >= policy.cadence

(* should_publish; pending_updates already counts this event, and the sum *)
(* of the elapsed-time test is an unsigned 64-bit one.                    *)
Wants(k, ts, p) ==
  \/ policy.type = "ExactFresh"
  \/ policy.type = "FixedCadence" /\ tracking[k].pending + 1 >= policy.cadence
  \/ /\ policy.type = "ElapsedThreshold"
     /\ tracking[k].hasPublished => ts >= (tracking[k].lastTs + policy.elapsed) % Word
  \/ policy.type = "AdaptivePressure" /\ tracking[k].pending + 1 >= TargetCadence(p)

(* VersionedCache::publish finds the key or has room for it.              *)
CacheHasRoom(k) == cache[k].version > 0 \/ Cardinality(CachedKeys) < MaxKeys

(* All of a publication but the pending count.                            *)
PublishCounting(k, ts, pending) ==
  /\ cache' = [cache EXCEPT ![k] = [version |-> @.version + 1, seq |-> acct.processed + 1,
                                    ts |-> ts, features |-> users[k].count + 1]]
  /\ total' = total + 1
  /\ tracking' = [tracking EXCEPT ![k] = [pending |-> pending, lastTs |-> ts,
                                          lastSeq |-> acct.processed + 1,
                                          hasPublished |-> TRUE]]
  /\ acct' = [acct EXCEPT !.processed = @ + 1, !.published = @ + 1]

PublishWithoutReset(k, ts) == PublishCounting(k, ts, tracking[k].pending + 1)

PublishSubtracting(k, ts) == PublishCounting(k, ts, tracking[k].pending - policy.cadence)

Publish(k, ts) == PublishCounting(k, ts, 0)

(* publish() throws: the event is processed and pending, nothing else.    *)
PublishThrows(k) ==
  /\ tracking' = [tracking EXCEPT ![k].pending = @ + 1]
  /\ acct' = [acct EXCEPT !.processed = @ + 1]
  /\ UNCHANGED <<cache, total>>

Coalesce(k) ==
  /\ tracking' = [tracking EXCEPT ![k].pending = @ + 1]
  /\ acct' = [acct EXCEPT !.processed = @ + 1, !.coalesced = @ + 1]
  /\ UNCHANGED <<cache, total>>

(* process_event                                                          *)
ProcessEvent(k, ts, p) ==
  /\ acct.processed < MaxEvents
  /\ Accepted(k, ts)
  /\ users' = [users EXCEPT ![k] = [count |-> @.count + 1, lastNs |-> ts]]
  /\ fresh' = [fresh EXCEPT ![k] = users[k].count + 1]
  /\ IF ~Wants(k, ts, p) THEN Coalesce(k)
     ELSE IF CacheHasRoom(k) THEN Publish(k, ts) ELSE PublishThrows(k)
  /\ UNCHANGED policy

(* query, as far as it changes state.                                     *)
Query(k) ==
  /\ acct.served < MaxQueries
  /\ acct' = IF cache[k].version = 0
             THEN [acct EXCEPT !.served = @ + 1, !.cold = @ + 1]
             ELSE [acct EXCEPT !.served = @ + 1, !.warm = @ + 1]
  /\ UNCHANGED <<policy, users, fresh, tracking, cache, total>>

Next == \/ \E k \in Keys, ts \in Time, p \in Pressure : ProcessEvent(k, ts, p)
        \/ \E k \in Keys : Query(k)

Spec == Init /\ [][Next]_vars

AgeUnclipped(k, t) == (t - cache[k].ts) % Word

(* event_time_age_ns: a query may be older than the version it is given.  *)
Age(k, t) == IF cache[k].version = 0 THEN t
             ELSE IF t >= cache[k].ts THEN t - cache[k].ts ELSE 0

(* The result of query.                                                   *)
Answer(k, t) ==
  [coldStart |-> cache[k].version = 0, version |-> cache[k].version,
   seq |-> cache[k].seq, ts |-> cache[k].ts, age |-> Age(k, t),
   staleness |-> tracking[k].pending, cached |-> cache[k].features, fresh |-> fresh[k]]
-----------------------------------------------------------------------------
TypeOK ==
  /\ policy \in Policies
  /\ users \in [Keys -> [count : 0..MaxEvents, lastNs : Time]]
  /\ fresh \in [Keys -> 0..MaxEvents]
  /\ tracking \in [Keys -> [pending : 0..MaxEvents, lastTs : Time, lastSeq : 0..MaxEvents,
                            hasPublished : BOOLEAN]]
  /\ cache \in [Keys -> [version : 0..MaxEvents, seq : 0..MaxEvents, ts : Time,
                         features : 0..MaxEvents]]
  /\ total \in 0..MaxEvents
  /\ acct \in [processed : 0..MaxEvents, published : 0..MaxEvents, coalesced : 0..MaxEvents,
               served : 0..MaxQueries, cold : 0..MaxQueries, warm : 0..MaxQueries]

(* The staleness a query reports is exactly the number of events that the *)
(* fresh features of the key contain and the cached ones do not, for cold *)
(* keys too; so staleness 0 means feature error 0.                        *)
StalenessExact ==
  \A k \in Keys, t \in Time : LET a == Answer(k, t) IN
    /\ a.staleness = a.fresh - a.cached
    /\ a.coldStart <=> a.cached = 0

(* The freshness each policy stands for, at every moment.                 *)
PolicyHonoured ==
  \A k \in Keys : LET pending == tracking[k].pending IN
    /\ policy.type = "ExactFresh" => pending = 0
    /\ policy.type = "FixedCadence" => pending < policy.cadence
    /\ policy.type = "AdaptivePressure" => pending < policy.cadenceMax
    /\ policy.type = "ElapsedThreshold" /\ pending > 0 =>
         /\ cache[k].version > 0
         /\ users[k].lastNs - cache[k].ts < policy.elapsed

(* Nothing is dropped silently: every processed event is published or     *)
(* coalesced (is_conserved).  The two budgets are checked at different    *)
(* moments, so this also says that publish never runs out of keys.        *)
Conserved ==
  /\ acct.processed = acct.published + acct.coalesced
  /\ total = acct.published
  /\ acct.served = acct.cold + acct.warm

(* A key's cached version never goes back: it keeps its content or gets   *)
(* the next version number with later content.                            *)
VersionsAdvance ==
  [][\A k \in Keys : \/ cache'[k] = cache[k]
                     \/ /\ cache'[k].version = cache[k].version + 1
                        /\ cache'[k].seq > cache[k].seq
                        /\ cache'[k].ts >= cache[k].ts
                        /\ cache'[k].features > cache[k].features]_cache

Reference == INSTANCE PublicationReference WITH
  users <- [k \in Keys |-> [count |-> users[k].count, lastNs |-> users[k].lastNs,
                            pending |-> tracking[k].pending,
                            hasPublished |-> tracking[k].hasPublished,
                            versionId |-> cache[k].version,
                            lastTs |-> tracking[k].lastTs, lastSeq |-> tracking[k].lastSeq]]

(* The native coordinator decides, publishes and counts as the Python     *)
(* simulator does.                                                        *)
ImplementsReference == Reference!Spec

(* Both answer every query alike.                                         *)
SameAnswers == \A k \in Keys, t \in Time : Answer(k, t) = Reference!Answer(k, t)
=============================================================================
