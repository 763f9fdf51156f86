-------------------------- MODULE PublicationReference --------------------------
(***************************************************************************)
(* PublicationSimulator (tools/publication_reference.py): the single-      *)
(* threaded reference of the publication semantics, over Python's unbounded*)
(* integers.  Feature vectors are represented as in Publication.           *)
(***************************************************************************)
EXTENDS Integers, FiniteSets

CONSTANTS Keys, MaxKeys, PressureUnit, MaxTime, MaxEvents, MaxQueries, Policies

VARIABLES policy,   (* policy                                              *)
          users,    (* users: UserState of every key                       *)
          fresh,    (* latest_fresh_features                               *)
          cache,    (* cache._versions                                     *)
          total,    (* cache.total_publications                            *)
          acct      (* processed_updates ... warm_queries                  *)

vars == <<policy, users, fresh, cache, total, acct>>

NewUser == [count |-> 0, lastNs |-> 0, pending |-> 0, hasPublished |-> FALSE,
            versionId |-> 0, lastTs |-> 0, lastSeq |-> 0]

Init ==
  /\ policy \in Policies
  /\ users = [k \in Keys |-> NewUser]
  /\ fresh = [k \in Keys |-> 0]
  /\ cache = [k \in Keys |-> [version |-> 0, seq |-> 0, ts |-> 0, features |-> 0]]
  /\ total = 0
  /\ acct = [processed |-> 0, published |-> 0, coalesced |-> 0,
             served |-> 0, cold |-> 0, warm |-> 0]

InRange(p, low, high) == IF p < low THEN low ELSE IF p > high THEN high ELSE p

(* AdaptivePressurePolicy.target_cadence, with k_min = 1 as make_policy   *)
(* constructs it.                                                         *)
TargetCadence(p) ==
  InRange(1 + (InRange(p, 0, PressureUnit) * (policy.cadenceMax - 1)) \div PressureUnit,
          1, policy.cadenceMax)

(* should_publish of the four policies, before the event is counted.      *)
ShouldPublish(k, ts, p) ==
  \/ policy.type = "ExactFresh"
  \/ policy.type = "FixedCadence" /\ users[k].pending + 1 >= policy.cadence
  \/ /\ policy.type = "ElapsedThreshold"
     /\ ~users[k].hasPublished \/ ts - users[k].lastTs >= policy.elapsed
  \/ policy.type = "AdaptivePressure" /\ users[k].pending + 1 >= TargetCadence(p)

KnownUsers == {k \in Keys : users[k].count > 0}

Admissible(k, ts) ==
  IF users[k].count = 0 THEN Cardinality(KnownUsers) < MaxKeys ELSE ts >= users[k].lastNs

PublishUpdate(k, ts) ==
  LET seq == acct.processed + 1
      version == cache[k].version + 1
  IN  /\ cache' = [cache EXCEPT ![k] = [version |-> version, seq |-> seq, ts |-> ts,
                                        features |-> users[k].count + 1]]
      /\ users' = [users EXCEPT ![k] = [count |-> @.count + 1, lastNs |-> ts, pending |-> 0,
                                        hasPublished |-> TRUE, versionId |-> version,
                                        lastTs |-> ts, lastSeq |-> seq]]
      /\ total' = total + 1
      /\ acct' = [acct EXCEPT !.processed = seq, !.published = @ + 1]

CoalesceUpdate(k, ts) ==
  /\ users' = [users EXCEPT ![k].count = @ + 1, ![k].lastNs = ts, ![k].pending = @ + 1]
  /\ acct' = [acct EXCEPT !.processed = @ + 1, !.coalesced = @ + 1]
  /\ UNCHANGED <<cache, total>>

(* process_event                                                          *)
ProcessEvent(k, ts, p) ==
  /\ acct.processed < MaxEvents
  /\ Admissible(k, ts)
  /\ fresh' = [fresh EXCEPT ![k] = users[k].count + 1]
  /\ \/ ShouldPublish(k, ts, p) /\ PublishUpdate(k, ts)
     \/ ~ShouldPublish(k, ts, p) /\ CoalesceUpdate(k, ts)
  /\ UNCHANGED policy

(* query                                                                  *)
Query(k) ==
  /\ acct.served < MaxQueries
  /\ LET kind == IF cache[k].version = 0 THEN "cold" ELSE "warm"
     IN  acct' = [acct EXCEPT !.served = @ + 1, ![kind] = @ + 1]
  /\ UNCHANGED <<policy, users, fresh, cache, total>>

Next == \/ \E k \in Keys, ts \in 0..MaxTime, p \in -1..(PressureUnit + 1) : ProcessEvent(k, ts, p)
        \/ \E k \in Keys : Query(k)

Spec == Init /\ [][Next]_vars

(* event_time_age_ns = max(0, query time - event time), or the query time.*)
AgeAt(k, t) == LET age == t - cache[k].ts
               IN  IF cache[k].version = 0 THEN t ELSE InRange(age, 0, t)

Answer(k, t) ==
  [coldStart |-> cache[k].version = 0, version |-> cache[k].version,
   seq |-> cache[k].seq, ts |-> cache[k].ts, age |-> AgeAt(k, t),
   staleness |-> users[k].pending, cached |-> cache[k].features, fresh |-> fresh[k]]
=============================================================================
