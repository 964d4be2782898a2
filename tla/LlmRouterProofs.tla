-------------------------- MODULE LlmRouterProofs --------------------------
(***************************************************************************)
(* Proofs about the router for every set of providers, operations and      *)
(* configs: its types, the consistency and bound of escalations, that a    *)
(* restart after a successful write loses nothing, the order of every plan *)
(* it makes, that penalties are visits, and that it is a CircuitBreaker.   *)
(***************************************************************************)
EXTENDS LlmRouter, FiniteSetTheorems, WellFoundedInduction, TLAPS

-----------------------------------------------------------------------------
(* The record operations.                                                  *)

\* A cooldown is a natural number no longer than the hard cap.
LEMMA CooldownDurationBound ==
    ASSUME NEW policy \in HealthPolicy, NEW trips \in Nat
    PROVE  /\ CooldownDuration(policy, trips) \in Nat
           /\ CooldownDuration(policy, trips) <= HardCap
<1>1. Max2(1, Min2(trips, 11)) \in 1 .. 11
  BY DEF Max2, Min2
<1>2. \A k \in 1 .. 11 : Doubling[k] \in Nat
  BY DEF Doubling
<1>3. Doubling[Max2(1, Min2(trips, 11))] \in Nat
  BY <1>1, <1>2
<1>4. /\ policy.base * Doubling[Max2(1, Min2(trips, 11))] \in Nat
      /\ policy.cap \in Nat
  BY <1>3 DEF HealthPolicy
<1>5. Min2(policy.base * Doubling[Max2(1, Min2(trips, 11))], HardCap) \in 0 .. HardCap
  BY <1>4, HealthAssumption DEF Min2
<1>6. Max2(policy.cap, 1) \in Nat
  BY <1>4 DEF Max2
<1>7. QED
  BY <1>5, <1>6, HealthAssumption DEF CooldownDuration, Min2

\* A fresh record is a record.
LEMMA FreshRecordType ==
    ASSUME NEW t \in Nat
    PROVE  FreshRecord(t) \in HealthRecord
BY DEF FreshRecord, HealthRecord

\* A trip makes a record of a record, seen now, whose cooldown ends within the
\* bound counted from now unless it is the one that was running.
LEMMA TripRecord ==
    ASSUME NEW rec \in HealthRecord, NEW t \in Times, NEW op \in Ops,
           NEW policy \in HealthPolicy, NEW ra \in RetryAfters
    PROVE  /\ Trip(rec, t, op, policy, ra) \in HealthRecord
           /\ Trip(rec, t, op, policy, ra).seen = t
           /\ \/ Trip(rec, t, op, policy, ra).until = rec.until
              \/ Trip(rec, t, op, policy, ra).until <= t + MaxSuspension
           /\ rec.lastOp # op =>
                 /\ Trip(rec, t, op, policy, ra).trips = rec.trips + 1
                 /\ Trip(rec, t, op, policy, ra).lastOp = op
           /\ rec.lastOp = op =>
                 /\ Trip(rec, t, op, policy, ra).trips = rec.trips
                 /\ Trip(rec, t, op, policy, ra).lastOp = rec.lastOp
                 /\ Trip(rec, t, op, policy, ra).until = rec.until
<1>1. CASE rec.lastOp = op
  BY <1>1 DEF Trip, HealthRecord, Times
<1>2. CASE rec.lastOp # op
  <2> DEFINE wait == Max2(ra, CooldownDuration(policy, rec.trips + 1))
  <2>1. rec.trips + 1 \in Nat /\ ra \in Nat /\ ra <= MaxRetryAfter /\ t \in Nat
    BY HealthAssumption, RouterAssumption DEF HealthRecord, Times
  <2>2. wait \in Nat /\ wait <= MaxSuspension
    BY <2>1, CooldownDurationBound, HealthAssumption, RouterAssumption
       DEF Max2, MaxSuspension
  <2> HIDE DEF wait
  <2>3. t + wait \in Nat /\ t + wait <= t + MaxSuspension
    BY <2>1, <2>2, HealthAssumption, RouterAssumption DEF MaxSuspension, Max2
  <2>4. Trip(rec, t, op, policy, ra) =
          [rec EXCEPT !.failures[t] = @ + 1, !.trips = @ + 1, !.lastOp = op,
                      !.until = t + wait, !.seen = t]
    BY <1>2 DEF Trip, wait
  <2>5. Trip(rec, t, op, policy, ra) =
          [failures |-> [rec.failures EXCEPT ![t] = @ + 1], trips |-> rec.trips + 1,
           until |-> t + wait, lastOp |-> op, seen |-> t]
    BY <2>4 DEF HealthRecord
  <2>6. [rec.failures EXCEPT ![t] = @ + 1] \in [Times -> Nat]
    BY DEF HealthRecord
  <2>7. QED
    BY <1>2, <2>1, <2>3, <2>5, <2>6 DEF HealthRecord
<1>3. QED BY <1>1, <1>2

\* A recovery makes a record of a record.
LEMMA RecoverRecord ==
    ASSUME NEW rec \in HealthRecord, NEW t \in Nat
    PROVE  /\ Recover(rec, t) \in HealthRecord
           /\ Recover(rec, t).seen = t
           /\ Recover(rec, t).until = 0
           /\ Recover(rec, t).trips = 0
           /\ Recover(rec, t).lastOp = NoOp
BY DEF Recover, HealthRecord

\* Reconciliation makes a record of a record; it ends cooldowns but starts none,
\* and leaves the escalation alone.
LEMMA ReconcileRecordFacts ==
    ASSUME NEW rec \in HealthRecord, NEW t \in Nat, NEW policy \in HealthPolicy,
           NEW stamp \in Nat
    PROVE  /\ ReconcileRecord(rec, stamp, policy, t) \in HealthRecord
           /\ ReconcileRecord(rec, stamp, policy, t).trips = rec.trips
           /\ ReconcileRecord(rec, stamp, policy, t).lastOp = rec.lastOp
           /\ ReconcileRecord(rec, stamp, policy, t).until =
                 IF rec.until <= t THEN 0 ELSE rec.until
           /\ ReconcileRecord(rec, stamp, policy, t).seen = stamp
           /\ ReconcileRecord(rec, stamp, policy, t).failures =
                 [u \in Times |-> IF u > t - policy.window THEN rec.failures[u] ELSE 0]
BY DEF ReconcileRecord, PruneFailures, InWindow, HealthRecord

-----------------------------------------------------------------------------
(* The operations on maps of records.                                      *)

\* An entry is a record.
LEMMA EntryType ==
    ASSUME NEW hs, IsHealthMap(hs), NEW p \in Providers, NEW t \in Nat
    PROVE  EntryOrDefault(hs, p, t) \in HealthRecord
BY FreshRecordType DEF EntryOrDefault, IsHealthMap

\* Replacing or adding one record keeps a health map.
LEMMA WithRecordType ==
    ASSUME NEW hs, IsHealthMap(hs), NEW p \in Providers, NEW rec \in HealthRecord
    PROVE  /\ IsHealthMap(WithRecord(hs, p, rec))
           /\ DOMAIN WithRecord(hs, p, rec) = DOMAIN hs \cup {p}
           /\ WithRecord(hs, p, rec)[p] = rec
           /\ \A q \in DOMAIN hs : q # p => WithRecord(hs, p, rec)[q] = hs[q]
BY DEF WithRecord, IsHealthMap

\* What reconciliation does to a map of records.
LEMMA ReconcileFacts ==
    ASSUME NEW hs, IsHealthMap(hs), NEW live, NEW policy \in HealthPolicy, NEW t \in Nat
    PROVE  LET new == Reconcile(hs, live, policy, t)
           IN /\ IsHealthMap(new)
              /\ DOMAIN new = Retained(hs, live, policy, t)
              /\ \A p \in DOMAIN new :
                    /\ p \in DOMAIN hs
                    /\ hs[p] \in HealthRecord
                    /\ Stamp(hs, live, t, p) \in Nat
                    /\ new[p] = ReconcileRecord(hs[p], Stamp(hs, live, t, p), policy, t)
<1>1. \A p \in DOMAIN hs : hs[p] \in HealthRecord /\ Stamp(hs, live, t, p) \in Nat
  BY DEF IsHealthMap, HealthRecord, Stamp
<1>2. \A p \in DOMAIN hs : ReconcileRecord(hs[p], Stamp(hs, live, t, p), policy, t) \in HealthRecord
  BY <1>1, ReconcileRecordFacts
<1>3. QED
  BY <1>1, <1>2 DEF Reconcile, Retained, IsHealthMap

\* Reconciling twice with one config is reconciling at the later time: what
\* an earlier, unwritten reconciliation dropped would be dropped anyway.
LEMMA ReconcileCompose ==
    ASSUME NEW hs, IsHealthMap(hs), NEW live, NEW policy \in HealthPolicy,
           NEW t \in Nat, NEW u \in Nat, t <= u
    PROVE  Reconcile(Reconcile(hs, live, policy, t), live, policy, u)
             = Reconcile(hs, live, policy, u)
<1> DEFINE mid == Reconcile(hs, live, policy, t)
<1>1. /\ IsHealthMap(mid)
      /\ DOMAIN mid = Retained(hs, live, policy, t)
      /\ \A p \in DOMAIN mid : /\ p \in DOMAIN hs
                                /\ hs[p] \in HealthRecord
                                /\ Stamp(hs, live, t, p) \in Nat
                                /\ mid[p] = ReconcileRecord(hs[p], Stamp(hs, live, t, p), policy, t)
  BY ReconcileFacts
<1> HIDE DEF mid
<1>2. \A p \in DOMAIN mid : mid[p].seen = Stamp(hs, live, t, p)
  <2>1. ASSUME NEW rec \in HealthRecord, NEW stamp \in Nat
        PROVE  ReconcileRecord(rec, stamp, policy, t).seen = stamp
    BY DEF ReconcileRecord, PruneFailures, HealthRecord
  <2>2. QED BY <1>1, <2>1
<1>3. \A p \in DOMAIN hs : hs[p].seen \in Nat
  BY DEF IsHealthMap, HealthRecord
<1>4. Retained(mid, live, policy, u) = Retained(hs, live, policy, u)
  BY <1>1, <1>2, <1>3 DEF Retained, HealthPolicy, Stamp
<1>5. ASSUME NEW p \in Retained(hs, live, policy, u)
      PROVE  ReconcileRecord(mid[p], Stamp(mid, live, u, p), policy, u)
               = ReconcileRecord(hs[p], Stamp(hs, live, u, p), policy, u)
  <2>1. p \in DOMAIN mid /\ p \in DOMAIN hs /\ hs[p] \in HealthRecord /\ mid[p] \in HealthRecord
    BY <1>1, <1>4, <1>5 DEF Retained, IsHealthMap
  <2> DEFINE a == ReconcileRecord(mid[p], Stamp(mid, live, u, p), policy, u)
             b == ReconcileRecord(hs[p], Stamp(hs, live, u, p), policy, u)
  <2>2. /\ Stamp(mid, live, u, p) = Stamp(hs, live, u, p)
        /\ Stamp(hs, live, u, p) \in Nat
    BY <1>2, <1>3, <2>1 DEF Stamp
  <2>3. /\ mid[p].trips = hs[p].trips
        /\ mid[p].lastOp = hs[p].lastOp
        /\ mid[p].until = IF hs[p].until <= t THEN 0 ELSE hs[p].until
        /\ mid[p].failures = [v \in Times |-> IF v > t - policy.window
                                              THEN hs[p].failures[v] ELSE 0]
    BY <1>1, <2>1, ReconcileRecordFacts
  <2>4. /\ a \in HealthRecord
        /\ a.trips = mid[p].trips
        /\ a.lastOp = mid[p].lastOp
        /\ a.until = IF mid[p].until <= u THEN 0 ELSE mid[p].until
        /\ a.seen = Stamp(hs, live, u, p)
        /\ a.failures = [v \in Times |-> IF v > u - policy.window
                                        THEN mid[p].failures[v] ELSE 0]
    BY <2>1, <2>2, ReconcileRecordFacts
  <2>5. /\ b \in HealthRecord
        /\ b.trips = hs[p].trips
        /\ b.lastOp = hs[p].lastOp
        /\ b.until = IF hs[p].until <= u THEN 0 ELSE hs[p].until
        /\ b.seen = Stamp(hs, live, u, p)
        /\ b.failures = [v \in Times |-> IF v > u - policy.window
                                        THEN hs[p].failures[v] ELSE 0]
    BY <2>1, <2>2, ReconcileRecordFacts
  <2> HIDE DEF a, b
  <2>6. a.until = b.until
    <3>1. hs[p].until \in Nat
      BY <2>1 DEF HealthRecord
    <3>2. QED BY <2>3, <2>4, <2>5, <3>1
  <2>7. a.failures = b.failures
    <3>1. ASSUME NEW v \in Times, v > u - policy.window
          PROVE  mid[p].failures[v] = hs[p].failures[v]
      <4>1. policy.window \in Nat /\ v \in Int
        BY HealthAssumption DEF HealthPolicy, Times
      <4>2. v > t - policy.window
        BY <3>1, <4>1
      <4>3. QED BY <2>3, <4>2
    <3>2. QED BY <2>4, <2>5, <3>1
  <2>8. QED BY <2>3, <2>4, <2>5, <2>6, <2>7 DEF HealthRecord, a, b
<1>6. QED BY <1>4, <1>5 DEF Reconcile, mid

-----------------------------------------------------------------------------
(* The invariant.  A map of records is good at time t when its records are *)
(* well typed, their escalation is consistent and their cooldowns bounded. *)

Consistent(rec) ==
    /\ rec.trips > 0 <=> rec.lastOp # NoOp
    /\ rec.until # 0 => rec.trips > 0

Bounded(rec, t) == rec.seen <= t /\ rec.until <= rec.seen + MaxSuspension

GoodMap(hs, t) ==
    /\ IsHealthMap(hs)
    /\ \A p \in DOMAIN hs : Consistent(hs[p]) /\ Bounded(hs[p], t)

\* The bound on a suspension is a natural number.
LEMMA MaxSuspensionType == MaxSuspension \in Nat /\ HardCap <= MaxSuspension
BY HealthAssumption, RouterAssumption DEF MaxSuspension, Max2

\* A good map stays good as time passes.
LEMMA GoodMapLater ==
    ASSUME NEW hs, NEW t \in Nat, NEW u \in Nat, t <= u, GoodMap(hs, t)
    PROVE  GoodMap(hs, u)
BY DEF GoodMap, Bounded, IsHealthMap, HealthRecord

\* Reconciliation keeps a map good.
LEMMA ReconcileGood ==
    ASSUME NEW hs, NEW t \in Nat, GoodMap(hs, t), NEW live, NEW policy \in HealthPolicy
    PROVE  GoodMap(Reconcile(hs, live, policy, t), t)
<1> DEFINE new == Reconcile(hs, live, policy, t)
<1>1. /\ IsHealthMap(new)
      /\ \A p \in DOMAIN new : /\ p \in DOMAIN hs
                                /\ hs[p] \in HealthRecord
                                /\ Stamp(hs, live, t, p) \in Nat
                                /\ new[p] = ReconcileRecord(hs[p], Stamp(hs, live, t, p), policy, t)
  BY ReconcileFacts DEF GoodMap
<1> HIDE DEF new
<1>2. ASSUME NEW p \in DOMAIN new
      PROVE  Consistent(new[p]) /\ Bounded(new[p], t)
  <2>1. /\ p \in DOMAIN hs
        /\ hs[p] \in HealthRecord
        /\ Stamp(hs, live, t, p) \in Nat
        /\ new[p] = ReconcileRecord(hs[p], Stamp(hs, live, t, p), policy, t)
    BY <1>1, <1>2
  <2>2. /\ new[p].trips = hs[p].trips
        /\ new[p].lastOp = hs[p].lastOp
        /\ new[p].until = IF hs[p].until <= t THEN 0 ELSE hs[p].until
        /\ new[p].seen = Stamp(hs, live, t, p)
    BY <2>1 DEF ReconcileRecord, PruneFailures, HealthRecord
  <2>3. /\ hs[p].seen \in Nat /\ hs[p].until \in Nat /\ hs[p].trips \in Nat
        /\ Consistent(hs[p]) /\ Bounded(hs[p], t)
    BY <2>1 DEF GoodMap, HealthRecord
  <2>4. QED
    BY <2>2, <2>3, MaxSuspensionType DEF Stamp, Consistent, Bounded
<1>3. QED BY <1>1, <1>2 DEF GoodMap, new

\* Replacing a record by a good one keeps a map good.
LEMMA WithRecordGood ==
    ASSUME NEW hs, NEW t \in Nat, GoodMap(hs, t), NEW p \in Providers,
           NEW rec \in HealthRecord, Consistent(rec), Bounded(rec, t)
    PROVE  GoodMap(WithRecord(hs, p, rec), t)
<1>1. /\ IsHealthMap(WithRecord(hs, p, rec))
      /\ DOMAIN WithRecord(hs, p, rec) = DOMAIN hs \cup {p}
      /\ WithRecord(hs, p, rec)[p] = rec
      /\ \A q \in DOMAIN hs : q # p => WithRecord(hs, p, rec)[q] = hs[q]
  BY WithRecordType DEF GoodMap
<1>2. \A q \in DOMAIN hs \cup {p} : \/ WithRecord(hs, p, rec)[q] = rec
                                    \/ /\ q \in DOMAIN hs
                                       /\ WithRecord(hs, p, rec)[q] = hs[q]
  BY <1>1
<1>3. QED BY <1>1, <1>2 DEF GoodMap

\* The entry a report works on is good.
LEMMA EntryGood ==
    ASSUME NEW hs, NEW t \in Nat, GoodMap(hs, t), NEW p \in Providers
    PROVE  LET rec == EntryOrDefault(hs, p, t)
           IN rec \in HealthRecord /\ Consistent(rec) /\ Bounded(rec, t)
<1>1. FreshRecord(t) \in HealthRecord /\ Consistent(FreshRecord(t)) /\ Bounded(FreshRecord(t), t)
  BY FreshRecordType, MaxSuspensionType DEF FreshRecord, Consistent, Bounded
<1>2. QED BY <1>1 DEF EntryOrDefault, GoodMap, IsHealthMap

\* A trip reported on a good map leaves a good one.
LEMMA TripGood ==
    ASSUME NEW hs, NEW t \in Times, GoodMap(hs, t), NEW p \in Providers, NEW op \in Ops,
           NEW policy \in HealthPolicy, NEW ra \in RetryAfters
    PROVE  GoodMap(WithRecord(hs, p, Trip(EntryOrDefault(hs, p, t), t, op, policy, ra)), t)
<1> DEFINE rec == EntryOrDefault(hs, p, t)
           new == Trip(rec, t, op, policy, ra)
<1>0. t \in Nat
  BY HealthAssumption DEF Times
<1>1. rec \in HealthRecord /\ Consistent(rec) /\ Bounded(rec, t)
  BY <1>0, EntryGood
<1> HIDE DEF rec
<1>2. /\ new \in HealthRecord
      /\ new.seen = t
      /\ new.until = rec.until \/ new.until <= t + MaxSuspension
      /\ rec.lastOp # op => new.trips = rec.trips + 1 /\ new.lastOp = op
      /\ rec.lastOp = op => /\ new.trips = rec.trips
                            /\ new.lastOp = rec.lastOp
                            /\ new.until = rec.until
  BY <1>1, TripRecord
<1> HIDE DEF new
<1>3. rec.seen \in Nat /\ rec.until \in Nat /\ rec.trips \in Nat /\ new.until \in Nat
  BY <1>1, <1>2 DEF HealthRecord
<1>4. Bounded(new, t)
  BY <1>0, <1>1, <1>2, <1>3, MaxSuspensionType DEF Bounded
<1>5. Consistent(new)
  <2>1. CASE rec.lastOp = op
    BY <1>1, <1>2, <2>1 DEF Consistent
  <2>2. CASE rec.lastOp # op
    BY <1>2, <1>3, <2>2, HealthAssumption DEF Consistent
  <2>3. QED BY <2>1, <2>2
<1>6. QED BY <1>0, <1>2, <1>4, <1>5, WithRecordGood DEF rec, new

\* A success reported on a good map leaves a good one.
LEMMA RecoverGood ==
    ASSUME NEW hs, NEW t \in Nat, GoodMap(hs, t), NEW p \in Providers
    PROVE  GoodMap(WithRecord(hs, p, Recover(EntryOrDefault(hs, p, t), t)), t)
<1>1. EntryOrDefault(hs, p, t) \in HealthRecord
  BY EntryGood
<1>2. /\ Recover(EntryOrDefault(hs, p, t), t) \in HealthRecord
      /\ Consistent(Recover(EntryOrDefault(hs, p, t), t))
      /\ Bounded(Recover(EntryOrDefault(hs, p, t), t), t)
  <2>1. /\ Recover(EntryOrDefault(hs, p, t), t) \in HealthRecord
        /\ Recover(EntryOrDefault(hs, p, t), t).seen = t
        /\ Recover(EntryOrDefault(hs, p, t), t).until = 0
        /\ Recover(EntryOrDefault(hs, p, t), t).trips = 0
        /\ Recover(EntryOrDefault(hs, p, t), t).lastOp = NoOp
    BY <1>1, RecoverRecord
  <2>2. QED BY <2>1, MaxSuspensionType DEF Consistent, Bounded
<1>3. QED BY <1>2, WithRecordGood

-----------------------------------------------------------------------------
(* Every step keeps both maps good.                                        *)

RouterTypes ==
    /\ now \in Times
    /\ config \in Configs
    /\ generation \in 0 .. MaxGeneration
    /\ saved \in BOOLEAN
    /\ pc \in [Ops -> {"idle", "visiting", "done"}]
    /\ chain \in [Ops -> BOOLEAN]
    /\ DOMAIN plan = Ops

Inv == RouterTypes /\ GoodMap(health, now) /\ GoodMap(disk, now)

\* A config that may be installed has a health policy.
LEMMA PolicyType == \A c \in Configs : c.policy \in HealthPolicy
BY RouterAssumption DEF ValidConfig

\* The invariant holds initially.
LEMMA InitInv == Init => Inv
<1> SUFFICES ASSUME Init PROVE Inv
  OBVIOUS
<1>1. GoodMap(health, now)
  BY DEF Init, GoodMap, IsHealthMap
<1>2. RouterTypes
  BY HealthAssumption, RouterAssumption DEF Init, RouterTypes, Times
<1>3. QED BY <1>1, <1>2 DEF Init, Inv

\* Writing a good map to disk leaves a good map there.
LEMMA WriteGood ==
    ASSUME NEW hs, NEW t, GoodMap(hs, t), GoodMap(disk, t), WriteHealth(hs)
    PROVE  GoodMap(disk', t) /\ saved' \in BOOLEAN
BY DEF WriteHealth

\* Every step keeps the invariant.
LEMMA NextInv == Inv /\ [Next]_vars => Inv'
<1> SUFFICES ASSUME Inv, [Next]_vars PROVE Inv'
  OBVIOUS
<1>0. /\ now \in Times /\ now \in Nat /\ config \in Configs
      /\ GoodMap(health, now) /\ GoodMap(disk, now)
      /\ config.policy \in HealthPolicy
  BY PolicyType, HealthAssumption DEF Inv, RouterTypes, Times
<1>1. CASE Tick
  <2>1. now' \in Times /\ now' \in Nat /\ now <= now'
    BY <1>0, <1>1, HealthAssumption DEF Tick, Times
  <2>2. GoodMap(health, now') /\ GoodMap(disk, now')
    BY <1>0, <2>1, GoodMapLater
  <2>3. QED BY <1>1, <2>1, <2>2 DEF Tick, Inv, RouterTypes, opVars
<1>2. ASSUME NEW o \in Ops, OpNext(o)
      PROVE  Inv'
  <2>1. ASSUME NEW poolId \in DOMAIN config.pools, NEW allowed \in AllowedSets,
               PlanVisit(o, poolId, allowed)
        PROVE  Inv'
    <3>1. health' = Reconcile(health, config.live, config.policy, now)
      BY <2>1 DEF PlanVisit
    <3>2. GoodMap(health', now)
      BY <1>0, <3>1, ReconcileGood
    <3>3. RouterTypes'
      BY <2>1 DEF PlanVisit, Inv, RouterTypes
    <3>4. QED BY <1>0, <2>1, <3>2, <3>3 DEF PlanVisit, Inv
  <2>2. ASSUME NEW poolId \in DOMAIN config.pools, NEW allowed \in AllowedSets,
               PlanVisitUnbound(o, poolId, allowed)
        PROVE  Inv'
    BY <2>2 DEF PlanVisitUnbound, Inv, RouterTypes
  <2>3. ASSUME NEW p \in Providers, NEW ra \in RetryAfters, TripVisit(o, p, ra)
        PROVE  Inv'
    <3>1. GoodMap(health', now)
      BY <1>0, <2>3, TripGood DEF TripVisit
    <3>2. GoodMap(disk', now) /\ saved' \in BOOLEAN
      BY <1>0, <2>3, <3>1, WriteGood DEF TripVisit
    <3>3. RouterTypes'
      BY <2>3, <3>2 DEF TripVisit, NextProvider, Inv, RouterTypes
    <3>4. QED BY <2>3, <3>1, <3>2, <3>3 DEF TripVisit, Inv
  <2>4. ASSUME NEW p \in Providers, SucceedVisit(o, p)
        PROVE  Inv'
    <3>1. GoodMap(health', now)
      BY <1>0, <2>4, RecoverGood DEF SucceedVisit
    <3>2. GoodMap(disk', now) /\ saved' \in BOOLEAN
      BY <1>0, <2>4, <3>1, WriteGood DEF SucceedVisit
    <3>3. RouterTypes'
      BY <2>4, <3>2 DEF SucceedVisit, Inv, RouterTypes
    <3>4. QED BY <2>4, <3>1, <3>2, <3>3 DEF SucceedVisit, Inv
  <2>5. ASSUME NEW p \in Providers, SkipVisit(o, p)
        PROVE  Inv'
    BY <2>5 DEF SkipVisit, NextProvider, Inv, RouterTypes
  <2>6. ASSUME NEW p \in Providers, EndVisit(o, p)
        PROVE  Inv'
    BY <2>6 DEF EndVisit, Inv, RouterTypes
  <2>7. QED BY <1>2, <2>1, <2>2, <2>3, <2>4, <2>5, <2>6 DEF OpNext
<1>3. ASSUME NEW c \in Configs, UpdateConfig(c)
      PROVE  Inv'
  <2>1. GoodMap(health', now)
    BY <1>0, <1>3, PolicyType, ReconcileGood DEF UpdateConfig
  <2>2. GoodMap(disk', now) /\ saved' \in BOOLEAN
    BY <1>0, <1>3, <2>1, WriteGood DEF UpdateConfig
  <2>3. RouterTypes'
    BY <1>3, <2>2, RouterAssumption DEF UpdateConfig, Inv, RouterTypes, opVars
  <2>4. QED BY <1>3, <2>1, <2>2, <2>3 DEF UpdateConfig, Inv
<1>4. ASSUME NEW c \in Configs, Reopen(c)
      PROVE  Inv'
  <2>1. GoodMap(health', now)
    BY <1>0, <1>4, PolicyType, ReconcileGood DEF Reopen
  <2>2. GoodMap(disk', now) /\ saved' \in BOOLEAN
    BY <1>0, <1>4, <2>1, WriteGood DEF Reopen
  <2>3. RouterTypes'
    BY <1>4, <2>2, RouterAssumption DEF Reopen, Inv, RouterTypes
  <2>4. QED BY <1>4, <2>1, <2>2, <2>3 DEF Reopen, Inv
<1>5. CASE UNCHANGED vars
  BY <1>5 DEF vars, Inv, RouterTypes, GoodMap, IsHealthMap, Bounded
<1>6. QED BY <1>1, <1>2, <1>3, <1>4, <1>5 DEF Next

\* The invariant gives the types and the two health invariants of the runs.
LEMMA InvGivesProperties == Inv => TypeOK /\ EscalationConsistent /\ CooldownBounded
BY DEF Inv, RouterTypes, GoodMap, Consistent, Bounded, TypeOK, EscalationConsistent,
       CooldownBounded

LEMMA Invariance == Spec => []Inv
BY InitInv, NextInv, PTL DEF Spec

\* The router's state is always well typed.
THEOREM TypeCorrect == Spec => []TypeOK
BY Invariance, InvGivesProperties, PTL

\* Escalations are consistent, however the operations of any number of clients, config
\* replacements, restarts and failed writes interleave.
THEOREM EscalationSafe == Spec => []EscalationConsistent
BY Invariance, InvGivesProperties, PTL

\* No record, in memory or on disk, suspends its provider for longer than the
\* longest cooldown or the longest wait a provider asked for.
THEOREM CooldownSafe == Spec => []CooldownBounded
BY Invariance, InvGivesProperties, PTL

-----------------------------------------------------------------------------
(* Restart.  The property is inductive once the maps are good: planning    *)
(* reconciles memory alone, which by ReconcileCompose the next load makes  *)
(* up for, and every other change of memory is written.                    *)

\* Two maps that reconcile alike now reconcile alike later.
LEMMA ReconcileLater ==
    ASSUME NEW hs, IsHealthMap(hs), NEW gs, IsHealthMap(gs), NEW live,
           NEW policy \in HealthPolicy, NEW t \in Nat, NEW u \in Nat, t <= u,
           Reconcile(hs, live, policy, t) = Reconcile(gs, live, policy, t)
    PROVE  Reconcile(hs, live, policy, u) = Reconcile(gs, live, policy, u)
<1>1. Reconcile(hs, live, policy, u)
        = Reconcile(Reconcile(hs, live, policy, t), live, policy, u)
  BY ReconcileCompose
<1>2. Reconcile(gs, live, policy, u)
        = Reconcile(Reconcile(gs, live, policy, t), live, policy, u)
  BY ReconcileCompose
<1>3. QED BY <1>1, <1>2

\* A step that writes leaves memory and disk equal, or marks the file stale.
LEMMA WriteRestart ==
    ASSUME WriteHealth(health') PROVE RestartLosesNothing'
BY DEF WriteHealth, RestartLosesNothing

\* Every step keeps the property.
LEMMA NextRestart == Inv /\ RestartLosesNothing /\ [Next]_vars => RestartLosesNothing'
<1> SUFFICES ASSUME Inv, RestartLosesNothing, [Next]_vars PROVE RestartLosesNothing'
  OBVIOUS
<1>0. /\ now \in Nat
      /\ IsHealthMap(health) /\ IsHealthMap(disk)
      /\ config.policy \in HealthPolicy
  BY PolicyType, HealthAssumption DEF Inv, RouterTypes, GoodMap, Times
<1>1. CASE Tick
  <2>1. now' \in Nat /\ now <= now'
    BY <1>0, <1>1 DEF Tick
  <2>2. ASSUME saved
        PROVE  Reconcile(disk, config.live, config.policy, now')
                 = Reconcile(health, config.live, config.policy, now')
    <3>1. Reconcile(disk, config.live, config.policy, now)
            = Reconcile(health, config.live, config.policy, now)
      BY <2>2 DEF RestartLosesNothing
    <3>2. QED BY <1>0, <2>1, <3>1, ReconcileLater
  <2>3. QED BY <1>1, <2>2 DEF Tick, RestartLosesNothing
<1>2. ASSUME NEW o \in Ops, OpNext(o)
      PROVE  RestartLosesNothing'
  <2>1. ASSUME NEW poolId \in DOMAIN config.pools, NEW allowed \in AllowedSets,
               PlanVisit(o, poolId, allowed)
        PROVE  RestartLosesNothing'
    <3>1. Reconcile(Reconcile(health, config.live, config.policy, now),
                    config.live, config.policy, now)
            = Reconcile(health, config.live, config.policy, now)
      BY <1>0, ReconcileCompose
    <3>2. QED BY <2>1, <3>1 DEF PlanVisit, RestartLosesNothing
  <2>2. ASSUME NEW poolId \in DOMAIN config.pools, NEW allowed \in AllowedSets,
               PlanVisitUnbound(o, poolId, allowed)
        PROVE  RestartLosesNothing'
    BY <2>2 DEF PlanVisitUnbound, RestartLosesNothing
  <2>3. ASSUME NEW p \in Providers, NEW ra \in RetryAfters, TripVisit(o, p, ra)
        PROVE  RestartLosesNothing'
    BY <2>3, WriteRestart DEF TripVisit
  <2>4. ASSUME NEW p \in Providers, SucceedVisit(o, p)
        PROVE  RestartLosesNothing'
    BY <2>4, WriteRestart DEF SucceedVisit
  <2>5. ASSUME NEW p \in Providers, SkipVisit(o, p) \/ EndVisit(o, p)
        PROVE  RestartLosesNothing'
    BY <2>5 DEF SkipVisit, EndVisit, RestartLosesNothing
  <2>6. QED BY <1>2, <2>1, <2>2, <2>3, <2>4, <2>5 DEF OpNext
<1>3. ASSUME NEW c \in Configs, UpdateConfig(c) \/ Reopen(c)
      PROVE  RestartLosesNothing'
  BY <1>3, WriteRestart DEF UpdateConfig, Reopen
<1>4. CASE UNCHANGED vars
  BY <1>4 DEF vars, RestartLosesNothing
<1>5. QED BY <1>1, <1>2, <1>3, <1>4 DEF Next

\* After a successful write a crash at any point, including between a plan's
\* reconciliation and the next write, loses no health state.
THEOREM RestartSafe == Spec => []RestartLosesNothing
<1>1. Init => RestartLosesNothing
  BY DEF Init, RestartLosesNothing
<1>2. QED BY <1>1, NextRestart, Invariance, PTL DEF Spec

-----------------------------------------------------------------------------
(* Folds over finite sets.  The community modules fold with a recursive    *)
(* function on subsets: the function exists, and what each of its steps    *)
(* keeps, it keeps.                                                        *)

\* Induction on the naturals, over a set instead of a predicate.
LEMMA SetInduction ==
    ASSUME NEW S \in SUBSET Nat, 0 \in S, \A n \in S : n + 1 \in S
    PROVE  S = Nat
<1> SUFFICES ASSUME Nat \ S # {} PROVE FALSE
  OBVIOUS
<1> DEFINE T == Nat \ S
<1>1. T \subseteq Nat /\ T # {}
  OBVIOUS
<1> HIDE DEF T
<1>2. PICK x \in T : \A y \in T : <<y, x>> \notin OpToRel(<, Nat)
  BY <1>1, NatLessThanWellFounded, WFMin
<1>3. x \in Nat /\ x \notin S
  BY <1>1 DEF T
<1>4. x - 1 \in Nat
  BY <1>3
<1>5. \A y \in Nat : <<y, x>> \notin OpToRel(<, Nat) => x <= y
  BY <1>3 DEF OpToRel
<1>6. \A y \in T : x <= y
  BY <1>1, <1>2, <1>5
<1>7. x - 1 \notin T
  BY <1>3, <1>4, <1>6
<1>8. QED
  BY <1>3, <1>4, <1>7 DEF T

\* g is defined on the subsets of I by a recursion that takes their elements away
\* one by one, picking them with pick.
Picks(pick, I) == \A s \in SUBSET I : s # {} => pick[s] \in s
Steps(step, I, V) == step \in [I -> [V -> V]]
Recurses(g, I, base, pick, step) ==
    \A s \in SUBSET I : g[s] = IF s = {} THEN base ELSE step[pick[s]][g[s \ {pick[s]}]]

\* A recursion that takes the elements of a finite set away one by one has a solution.
LEMMA SetRecursion ==
    ASSUME NEW I, IsFiniteSet(I), NEW V, NEW base \in V,
           NEW pick, Picks(pick, I), NEW step, Steps(step, I, V)
    PROVE  \E g \in [SUBSET I -> V] : Recurses(g, I, base, pick, step)
<1> DEFINE Up(n) == {s \in SUBSET I : Cardinality(s) <= n}
           Solves(g, n) == \A s \in Up(n) :
              g[s] = IF s = {} THEN base ELSE step[pick[s]][g[s \ {pick[s]}]]
           N == {n \in Nat : \E g \in [Up(n) -> V] : Solves(g, n)}
<1>a. step \in [I -> [V -> V]] /\ \A s \in SUBSET I : s # {} => pick[s] \in s
  BY DEF Steps, Picks
<1>0. \A s \in SUBSET I : IsFiniteSet(s) /\ Cardinality(s) \in Nat
  BY FS_Subset, FS_CardinalityType
<1>1. 0 \in N
  <2>1. \A s \in Up(0) : s = {}
    BY <1>0, FS_EmptySet
  <2>2. [s \in Up(0) |-> base] \in [Up(0) -> V]
    OBVIOUS
  <2>3. Solves([s \in Up(0) |-> base], 0)
    BY <2>1
  <2>4. QED BY <2>2, <2>3
<1>2. ASSUME NEW n \in N
      PROVE  n + 1 \in N
  <2>0. n \in Nat
    OBVIOUS
  <2>1. PICK g \in [Up(n) -> V] : Solves(g, n)
    OBVIOUS
  <2> DEFINE h == [s \in Up(n + 1) |->
                     IF s \in Up(n) THEN g[s] ELSE step[pick[s]][g[s \ {pick[s]}]]]
  <2>2. ASSUME NEW s \in Up(n + 1), s \notin Up(n)
        PROVE  s # {} /\ pick[s] \in s /\ s \ {pick[s]} \in Up(n)
    <3>1. s \in SUBSET I /\ Cardinality(s) = n + 1
      <4>1. s \in SUBSET I /\ Cardinality(s) <= n + 1 /\ ~(Cardinality(s) <= n)
        BY <2>2
      <4>2. QED BY <1>0, <2>0, <4>1
    <3>2. s # {}
      <4>1. Cardinality(s) # 0
        BY <2>0, <3>1
      <4>2. QED BY <4>1, FS_EmptySet
    <3>3. pick[s] \in s
      BY <1>a, <3>1, <3>2
    <3>4. Cardinality(s \ {pick[s]}) = n
      <4>1. Cardinality(s \ {pick[s]}) = Cardinality(s) - 1
        BY <1>0, <3>1, <3>3, FS_RemoveElement
      <4>2. QED BY <2>0, <3>1, <4>1
    <3>5. QED BY <3>2, <3>3, <3>4
  <2>3. ASSUME NEW s \in Up(n), s # {}
        PROVE  pick[s] \in s /\ s \ {pick[s]} \in Up(n)
    <3>1. pick[s] \in s
      BY <1>a, <2>3
    <3>2. Cardinality(s \ {pick[s]}) = Cardinality(s) - 1
      BY <1>0, <3>1, FS_RemoveElement
    <3>3. Cardinality(s) \in Nat /\ Cardinality(s) <= n /\ n \in Nat
      BY <1>0
    <3>4. QED BY <3>1, <3>2, <3>3
  <2>4. \A s \in Up(n) : s \in Up(n + 1)
    BY <1>0
  <2>5. h \in [Up(n + 1) -> V]
    <3>1. ASSUME NEW s \in Up(n + 1)
          PROVE  (IF s \in Up(n) THEN g[s] ELSE step[pick[s]][g[s \ {pick[s]}]]) \in V
      <4>1. CASE s \in Up(n)
        BY <2>1, <4>1
      <4>2. CASE s \notin Up(n)
        <5>1. pick[s] \in s /\ s \ {pick[s]} \in Up(n)
          BY <2>2, <4>2
        <5>2. pick[s] \in I /\ g[s \ {pick[s]}] \in V
          BY <2>1, <5>1
        <5>3. step[pick[s]] \in [V -> V]
          BY <1>a, <5>2
        <5>4. QED BY <4>2, <5>2, <5>3
      <4>3. QED BY <4>1, <4>2
    <3>2. QED BY <3>1
  <2>6. Solves(h, n + 1)
    <3>1. ASSUME NEW s \in Up(n + 1)
          PROVE  h[s] = IF s = {} THEN base ELSE step[pick[s]][h[s \ {pick[s]}]]
      <4>1. CASE s \in Up(n)
        <5>1. h[s] = g[s] /\ g[s] = IF s = {} THEN base ELSE step[pick[s]][g[s \ {pick[s]}]]
          BY <2>1, <4>1
        <5>2. s # {} => h[s \ {pick[s]}] = g[s \ {pick[s]}]
          BY <2>3, <2>4, <4>1
        <5>3. QED BY <5>1, <5>2
      <4>2. CASE s \notin Up(n)
        <5>1. h[s \ {pick[s]}] = g[s \ {pick[s]}] /\ s # {}
          BY <2>2, <2>4, <4>2
        <5>2. QED BY <4>2, <5>1
      <4>3. QED BY <4>1, <4>2
    <3>2. QED BY <3>1
  <2>7. \E f \in [Up(n + 1) -> V] : Solves(f, n + 1)
    <3> HIDE DEF h, Solves, Up
    <3>1. QED BY <2>5, <2>6
  <2>8. n + 1 \in Nat
    BY <2>0
  <2>9. QED BY <2>7, <2>8
<1>3. N = Nat
  <2>1. N \in SUBSET Nat
    OBVIOUS
  <2> HIDE DEF N
  <2>2. QED BY <1>1, <1>2, <2>1, SetInduction
<1>4. Cardinality(I) \in N
  BY <1>0, <1>3
<1>5. PICK g \in [Up(Cardinality(I)) -> V] : Solves(g, Cardinality(I))
  BY <1>4
<1>6. Up(Cardinality(I)) = SUBSET I
  BY <1>0, FS_Subset
<1>7. QED BY <1>5, <1>6 DEF Recurses

\* What holds of the empty set, and of a set when it does of the set without the
\* element picked from it, holds of every finite set.
LEMMA SetFoldInduction ==
    ASSUME NEW I, IsFiniteSet(I), NEW V, NEW h,
           NEW pick, Picks(pick, I),
           h[{}] \in V,
           \A s \in SUBSET I : s # {} /\ h[s \ {pick[s]}] \in V => h[s] \in V
    PROVE  \A s \in SUBSET I : h[s] \in V
<1> DEFINE N == {n \in Nat : \A s \in SUBSET I : Cardinality(s) = n => h[s] \in V}
<1>0. \A s \in SUBSET I : IsFiniteSet(s) /\ Cardinality(s) \in Nat
  BY FS_Subset, FS_CardinalityType
<1>1. 0 \in N
  BY <1>0, FS_EmptySet
<1>2. ASSUME NEW n \in N
      PROVE  n + 1 \in N
  <2>0. n \in Nat /\ n + 1 \in Nat
    OBVIOUS
  <2>1. ASSUME NEW s \in SUBSET I, Cardinality(s) = n + 1
        PROVE  h[s] \in V
    <3>1. s # {}
      <4>1. Cardinality(s) # 0
        BY <2>0, <2>1
      <4>2. QED BY <4>1, FS_EmptySet
    <3>2. pick[s] \in s
      BY <3>1 DEF Picks
    <3>3. Cardinality(s \ {pick[s]}) = Cardinality(s) - 1
      BY <1>0, <3>2, FS_RemoveElement
    <3>4. Cardinality(s \ {pick[s]}) = n
      BY <2>0, <2>1, <3>3
    <3>5. s \ {pick[s]} \in SUBSET I
      OBVIOUS
    <3>6. h[s \ {pick[s]}] \in V
      BY <3>4, <3>5
    <3>7. QED BY <3>1, <3>6
  <2>2. QED BY <2>0, <2>1
<1>3. N = Nat
  <2>1. N \in SUBSET Nat
    OBVIOUS
  <2> HIDE DEF N
  <2>2. QED BY <1>1, <1>2, <2>1, SetInduction
<1>4. QED BY <1>0, <1>3

\* A sum of naturals over a finite set is a natural.
LEMMA SumType ==
    ASSUME NEW I, IsFiniteSet(I), NEW fun, \A i \in I : fun[i] \in Nat
    PROVE  Fun!SumFunctionOnSet(fun, I) \in Nat
<1> DEFINE pick == [s \in SUBSET I |-> CHOOSE x \in s : TRUE]
           step == [i \in I |-> [v \in Nat |-> fun[i] + v]]
           Solves(h) == h = [s \in SUBSET I |-> IF s = {} THEN 0
                              ELSE fun[CHOOSE x \in s : TRUE]
                                     + h[s \ {CHOOSE x \in s : TRUE}]]
           iter == CHOOSE h : Solves(h)
<1>1. \A s \in SUBSET I : s # {} => pick[s] \in s
  OBVIOUS
<1>2. step \in [I -> [Nat -> Nat]]
  OBVIOUS
<1>3. \E h : Solves(h)
  <2>1. PICK g \in [SUBSET I -> Nat] : \A s \in SUBSET I :
           g[s] = IF s = {} THEN 0 ELSE step[pick[s]][g[s \ {pick[s]}]]
    <3> HIDE DEF step, pick
    <3>1. Picks(pick, I) /\ Steps(step, I, Nat) /\ 0 \in Nat
      BY <1>1, <1>2 DEF Picks, Steps
    <3>2. \E g \in [SUBSET I -> Nat] : Recurses(g, I, 0, pick, step)
      BY <3>1, SetRecursion
    <3>3. QED BY <3>2 DEF Recurses
  <2>2. ASSUME NEW s \in SUBSET I, s # {}
        PROVE  step[pick[s]][g[s \ {pick[s]}]]
                 = fun[CHOOSE x \in s : TRUE] + g[s \ {CHOOSE x \in s : TRUE}]
    <3>1. pick[s] = (CHOOSE x \in s : TRUE) /\ pick[s] \in I
      BY <2>2, <1>1
    <3>2. g[s \ {pick[s]}] \in Nat
      BY <2>1
    <3>3. step[pick[s]][g[s \ {pick[s]}]] = fun[pick[s]] + g[s \ {pick[s]}]
      BY <3>1, <3>2
    <3>4. QED BY <3>1, <3>3
  <2>3. Solves(g)
    BY <2>1, <2>2
  <2>4. QED BY <2>3
<1>4. Solves(iter)
  <2> HIDE DEF Solves
  <2> QED BY <1>3
<1>5. \A s \in SUBSET I : iter[s] \in Nat
  <2> HIDE DEF iter
  <2>1. ASSUME NEW s \in SUBSET I
        PROVE  iter[s] = IF s = {} THEN 0 ELSE fun[CHOOSE x \in s : TRUE]
                                     + iter[s \ {CHOOSE x \in s : TRUE}]
    BY <1>4
  <2>2. iter[{}] \in Nat
    <3>1. {} \in SUBSET I
      OBVIOUS
    <3>2. iter[{}] = 0
      BY <2>1, <3>1
    <3>3. QED BY <3>2
  <2>3. ASSUME NEW s \in SUBSET I, s # {}, iter[s \ {pick[s]}] \in Nat
        PROVE  iter[s] \in Nat
    <3>1. pick[s] = (CHOOSE x \in s : TRUE) /\ pick[s] \in I
      BY <2>3, <1>1
    <3>2. fun[pick[s]] \in Nat
      BY <3>1
    <3>3. iter[s] = fun[pick[s]] + iter[s \ {pick[s]}]
      BY <2>1, <2>3, <3>1
    <3>4. QED BY <2>3, <3>2, <3>3
  <2>4. Picks(pick, I)
    BY <1>1 DEF Picks
  <2> HIDE DEF pick
  <2>5. QED BY <2>2, <2>3, <2>4, SetFoldInduction
<1>6. Fun!SumFunctionOnSet(fun, I) = iter[I]
  BY DEF Fun!SumFunctionOnSet, Fun!FoldFunctionOnSet, Fun!MapThenFoldSet
<1>7. QED BY <1>5, <1>6

-----------------------------------------------------------------------------
(* Ranking.  A set ranked by distinct keys of one length becomes a sequence*)
(* in the order of its keys, which are compared lexicographically.         *)

\* A function on a finite set that is not empty takes a greatest value.
LEMMA FiniteGreatest ==
    ASSUME NEW S, IsFiniteSet(S), S # {}, NEW f \in [S -> Int]
    PROVE  \E x \in S : \A y \in S : f[x] >= f[y]
<1> DEFINE Has(T) == \E x \in T : \A y \in T : f[x] >= f[y]
           N == {n \in Nat : \A T \in SUBSET S : Cardinality(T) = n => T = {} \/ Has(T)}
<1>0. \A T \in SUBSET S : IsFiniteSet(T) /\ Cardinality(T) \in Nat
  BY FS_Subset, FS_CardinalityType
<1>1. 0 \in N
  BY <1>0, FS_EmptySet
<1>2. ASSUME NEW n \in N
      PROVE  n + 1 \in N
  <2>0. n \in Nat /\ n + 1 \in Nat
    OBVIOUS
  <2>1. ASSUME NEW T \in SUBSET S, Cardinality(T) = n + 1, T # {}
        PROVE  Has(T)
    <3>1. PICK z \in T : TRUE
      BY <2>1
    <3>2. Cardinality(T \ {z}) = Cardinality(T) - 1
      BY <1>0, FS_RemoveElement
    <3>3. Cardinality(T \ {z}) = n /\ T \ {z} \in SUBSET S
      BY <2>0, <2>1, <3>2
    <3>4. T \ {z} = {} \/ Has(T \ {z})
      BY <3>3
    <3>5. CASE T \ {z} = {}
      <4>1. \A y \in T : y = z
        BY <3>5
      <4>2. f[z] \in Int
        OBVIOUS
      <4>3. \A y \in T : f[z] >= f[y]
        BY <4>1, <4>2
      <4>4. QED BY <3>1, <4>3
    <3>6. CASE Has(T \ {z})
      <4>1. PICK x \in T \ {z} : \A y \in T \ {z} : f[x] >= f[y]
        BY <3>6
      <4>2. f[x] \in Int /\ f[z] \in Int /\ \A y \in T : f[y] \in Int
        OBVIOUS
      <4>3. CASE f[x] >= f[z]
        <5>1. \A y \in T : f[x] >= f[y]
          BY <4>1, <4>3
        <5>2. QED BY <5>1
      <4>4. CASE f[z] > f[x]
        <5>1. \A y \in T : f[z] >= f[y]
          BY <4>1, <4>2, <4>4
        <5>2. QED BY <3>1, <5>1
      <4>5. QED BY <4>2, <4>3, <4>4
    <3>7. QED BY <3>4, <3>5, <3>6
  <2>2. QED BY <2>0, <2>1
<1>3. N = Nat
  <2>1. N \in SUBSET Nat
    OBVIOUS
  <2> HIDE DEF N
  <2>2. QED BY <1>1, <1>2, <2>1, SetInduction
<1>4. Has(S)
  BY <1>0, <1>3
<1>5. QED BY <1>4

-----------------------------------------------------------------------------
(* Keys of one length are totally ordered.                                 *)

Keys(n) == [1 .. n -> Int]

\* Two keys that differ have a first place where they do.
LEMMA FirstDifference ==
    ASSUME NEW n \in Nat, NEW j \in Keys(n), NEW k \in Keys(n), j # k
    PROVE  \E i \in 1 .. n : j[i] # k[i] /\ \A h \in 1 .. i - 1 : j[h] = k[h]
<1> DEFINE D == {i \in 1 .. n : j[i] # k[i]}
<1>1. D # {}
  BY DEF Keys
<1>2. D \in SUBSET Nat
  OBVIOUS
<1>3. \E x \in D : \A y \in D : <<y, x>> \notin OpToRel(<, Nat)
  <2> HIDE DEF D
  <2> QED BY <1>1, <1>2, NatLessThanWellFounded, WFMin
<1>4. \A x, y \in D : <<y, x>> \notin OpToRel(<, Nat) => x <= y
  BY <1>2 DEF OpToRel
<1>5. PICK x \in D : \A y \in D : x <= y
  <2> HIDE DEF D
  <2> QED BY <1>3, <1>4
<1>6. ASSUME NEW h \in 1 .. x - 1
      PROVE  j[h] = k[h]
  <2>1. h \in 1 .. n /\ ~(x <= h)
    OBVIOUS
  <2>2. h \notin D
    BY <1>5, <2>1
  <2>3. QED BY <2>1, <2>2
<1>7. QED BY <1>6

LEMMA LexTotal ==
    ASSUME NEW n \in Nat, NEW j \in Keys(n), NEW k \in Keys(n), j # k
    PROVE  LexLess(j, k) \/ LexLess(k, j)
<1>1. PICK i \in 1 .. n : j[i] # k[i] /\ \A h \in 1 .. i - 1 : j[h] = k[h]
  BY FirstDifference
<1>2. j[i] \in Int /\ k[i] \in Int /\ DOMAIN j = 1 .. n /\ DOMAIN k = 1 .. n
  BY DEF Keys
<1>3. j[i] < k[i] \/ k[i] < j[i]
  BY <1>1, <1>2
<1>4. QED BY <1>1, <1>2, <1>3 DEF LexLess

LEMMA LexIrreflexive ==
    ASSUME NEW n \in Nat, NEW j \in Keys(n)
    PROVE  ~LexLess(j, j)
BY DEF LexLess, Keys

LEMMA LexTransitive ==
    ASSUME NEW n \in Nat, NEW j \in Keys(n), NEW k \in Keys(n), NEW l \in Keys(n),
           LexLess(j, k), LexLess(k, l)
    PROVE  LexLess(j, l)
<1>1. PICK a \in 1 .. n : j[a] < k[a] /\ \A h \in 1 .. a - 1 : j[h] = k[h]
  BY DEF LexLess, Keys
<1>2. PICK b \in 1 .. n : k[b] < l[b] /\ \A h \in 1 .. b - 1 : k[h] = l[h]
  BY DEF LexLess, Keys
<1>3. \A h \in 1 .. n : j[h] \in Int /\ k[h] \in Int /\ l[h] \in Int
  BY DEF Keys
<1>4. \E c \in 1 .. n : j[c] < l[c] /\ \A h \in 1 .. c - 1 : j[h] = l[h]
  <2>1. CASE a < b
    <3>1. k[a] = l[a] /\ \A h \in 1 .. a - 1 : k[h] = l[h]
      BY <1>2, <2>1
    <3>2. QED BY <1>1, <3>1
  <2>2. CASE b < a
    <3>1. j[b] = k[b] /\ \A h \in 1 .. b - 1 : j[h] = k[h]
      BY <1>1, <2>2
    <3>2. QED BY <1>2, <3>1
  <2>3. CASE a = b
    <3>1. j[a] < l[a]
      BY <1>1, <1>2, <1>3, <2>3
    <3>2. QED BY <1>1, <1>2, <2>3, <3>1
  <2>4. QED BY <2>1, <2>2, <2>3
<1>5. QED BY <1>4 DEF LexLess, Keys

\* Keys of n places, no two of them equal.
DistinctKeys(S, K, n) == /\ K \in [S -> Keys(n)]
                         /\ \A x, y \in S : x # y => K[x] # K[y]

\* An element has fewer below it than an element with a greater key.
LEMMA RankMonotone ==
    ASSUME NEW S, IsFiniteSet(S), NEW n \in Nat, NEW K, DistinctKeys(S, K, n),
           NEW x \in S, NEW y \in S, LexLess(K[x], K[y])
    PROVE  Cardinality(Below(S, K, x)) < Cardinality(Below(S, K, y))
<1>1. K[x] \in Keys(n) /\ K[y] \in Keys(n) /\ \A z \in S : K[z] \in Keys(n)
  BY DEF DistinctKeys
<1>2. Below(S, K, x) \in SUBSET Below(S, K, y)
  <2>1. ASSUME NEW z \in S, LexLess(K[z], K[x])
        PROVE  LexLess(K[z], K[y])
    BY <1>1, <2>1, LexTransitive
  <2>2. QED BY <2>1 DEF Below
<1>3. x \in Below(S, K, y) /\ x \notin Below(S, K, x)
  BY <1>1, LexIrreflexive DEF Below
<1>4. IsFiniteSet(Below(S, K, y)) /\ IsFiniteSet(Below(S, K, x))
  BY FS_Subset DEF Below
<1>5. /\ Cardinality(Below(S, K, x)) <= Cardinality(Below(S, K, y))
      /\ Cardinality(Below(S, K, x)) # Cardinality(Below(S, K, y))
  BY <1>2, <1>3, <1>4, FS_Subset
<1>6. QED
  BY <1>4, <1>5, FS_CardinalityType

\* Every place of the ranking has an element, and no element has two places.
LEMMA RankPlaces ==
    ASSUME NEW S, IsFiniteSet(S), NEW n \in Nat, NEW K, DistinctKeys(S, K, n)
    PROVE  /\ \A x \in S : Cardinality(Below(S, K, x)) \in 0 .. Cardinality(S) - 1
           /\ \A k \in 0 .. Cardinality(S) - 1 :
                 \E x \in S : Cardinality(Below(S, K, x)) = k
<1> DEFINE c == Cardinality(S)
           T == 0 .. c - 1
           r == [x \in S |-> Cardinality(Below(S, K, x))]
<1>0. c \in Nat
  BY FS_CardinalityType
<1>1. ASSUME NEW x \in S
      PROVE  Cardinality(Below(S, K, x)) \in T
  <2>1. Below(S, K, x) \in SUBSET (S \ {x})
    <3>1. K[x] \in Keys(n)
      BY DEF DistinctKeys
    <3>2. QED BY <3>1, LexIrreflexive DEF Below
  <2>2. IsFiniteSet(S \ {x}) /\ Cardinality(S \ {x}) = c - 1
    BY FS_RemoveElement
  <2>3. /\ IsFiniteSet(Below(S, K, x))
        /\ Cardinality(Below(S, K, x)) <= Cardinality(S \ {x})
    BY <2>1, <2>2, FS_Subset
  <2>4. Cardinality(Below(S, K, x)) \in Nat
    BY <2>3, FS_CardinalityType
  <2>5. QED BY <1>0, <2>2, <2>3, <2>4
<1>2. r \in Injection(S, T)
  <2>1. r \in [S -> T]
    BY <1>1
  <2>2. ASSUME NEW x \in S, NEW y \in S, x # y
        PROVE  r[x] # r[y]
    <3>1. K[x] \in Keys(n) /\ K[y] \in Keys(n) /\ K[x] # K[y]
      BY <2>2 DEF DistinctKeys
    <3>2. LexLess(K[x], K[y]) \/ LexLess(K[y], K[x])
      BY <3>1, LexTotal
    <3>3. r[x] < r[y] \/ r[y] < r[x]
      BY <3>2, RankMonotone
    <3>4. r[x] \in Int /\ r[y] \in Int
      BY <1>1
    <3>5. QED BY <3>3, <3>4
  <2> HIDE DEF r
  <2>3. \A x, y \in S : r[x] = r[y] => x = y
    BY <2>2
  <2>4. QED BY <2>1, <2>3 DEF Injection, IsInjective
<1>3. IsFiniteSet(T) /\ Cardinality(T) = c
  <2>1. 0 \in Int /\ c - 1 \in Int
    BY <1>0
  <2>2. /\ IsFiniteSet(0 .. c - 1)
        /\ Cardinality(0 .. c - 1) = IF 0 > c - 1 THEN 0 ELSE (c - 1) - 0 + 1
    BY <2>1, FS_Interval
  <2>3. QED BY <1>0, <2>2
<1>4. r \in Surjection(S, T)
  <2> HIDE DEF r, T
  <2> QED BY <1>2, <1>3, FS_Injection DEF c
<1>5. \A k \in T : \E x \in S : r[x] = k
  <2> HIDE DEF r, T
  <2> QED BY <1>4 DEF Surjection
<1>6. QED BY <1>1, <1>5

\* The ranking lists every element, once, by increasing key.
LEMMA RankSorts ==
    ASSUME NEW S, IsFiniteSet(S), NEW n \in Nat, NEW K, DistinctKeys(S, K, n)
    PROVE  /\ RankBy(S, K) \in [1 .. Cardinality(S) -> S]
           /\ \A i, j \in 1 .. Cardinality(S) : i < j =>
                 LexLess(K[RankBy(S, K)[i]], K[RankBy(S, K)[j]])
<1> DEFINE c == Cardinality(S)
           order == RankBy(S, K)
<1>0. c \in Nat
  BY FS_CardinalityType
<1>1. ASSUME NEW i \in 1 .. c
      PROVE  order[i] \in S /\ Cardinality(Below(S, K, order[i])) = i - 1
  <2>1. i - 1 \in 0 .. c - 1
    BY <1>0
  <2>2. \E x \in S : Cardinality(Below(S, K, x)) = i - 1
    BY <2>1, RankPlaces
  <2>3. order[i] = CHOOSE x \in S : Cardinality(Below(S, K, x)) = i - 1
    BY DEF RankBy
  <2>4. QED BY <2>2, <2>3
<1>2. order \in [1 .. c -> S]
  BY <1>1 DEF RankBy
<1>3. ASSUME NEW i \in 1 .. c, NEW j \in 1 .. c, i < j
      PROVE  LexLess(K[order[i]], K[order[j]])
  <2> DEFINE x == order[i]
             y == order[j]
  <2>1. /\ x \in S /\ Cardinality(Below(S, K, x)) = i - 1
        /\ y \in S /\ Cardinality(Below(S, K, y)) = j - 1
    BY <1>1
  <2> HIDE DEF x, y, order
  <2>2. ~LexLess(K[y], K[x])
    <3>1. SUFFICES ASSUME LexLess(K[y], K[x]) PROVE FALSE
      OBVIOUS
    <3>2. Cardinality(Below(S, K, y)) < Cardinality(Below(S, K, x))
      BY <2>1, <3>1, RankMonotone
    <3>3. QED BY <1>0, <1>3, <2>1, <3>2
  <2>3. x # y
    BY <1>0, <1>3, <2>1
  <2>4. K[x] \in Keys(n) /\ K[y] \in Keys(n) /\ K[x] # K[y]
    BY <2>1, <2>3 DEF DistinctKeys
  <2>5. LexLess(K[x], K[y])
    BY <2>2, <2>4, LexTotal
  <2>6. QED BY <2>5 DEF x, y
<1>4. QED BY <1>2, <1>3

-----------------------------------------------------------------------------
(* The visit order: plans have members of one pool, each once, those that may*)
(* be visited before those that are suppressed, and these in tiers.        *)

\* The members of a pool.
LEMMA PoolMembers ==
    ASSUME NEW pool, IsPool(pool)
    PROVE  /\ pool.failFast \in BOOLEAN
           /\ DOMAIN pool.members \subseteq Providers
           /\ \A p \in DOMAIN pool.members :
                 /\ p \in Nat
                 /\ pool.members[p].group \in Nat
                 /\ pool.members[p].score \in Int
                 /\ pool.members[p].order \in Nat
                 /\ pool.members[p].enabled \in BOOLEAN
                 /\ pool.members[p].tier \in Nat
BY HealthAssumption DEF IsPool, Member

\* A score is an integer.
LEMMA ScoreType ==
    ASSUME NEW pool, IsPool(pool), NEW hs, IsHealthMap(hs), NEW policy \in HealthPolicy,
           NEW t \in Nat, NEW p \in DOMAIN pool.members
    PROVE  ScoreOf(pool, hs, policy, t, p) \in Int
<1>1. pool.members[p].score \in Int
  BY PoolMembers
<1>2. ASSUME p \in DOMAIN hs
      PROVE  EffectiveScore(hs[p], pool.members[p].score, t, policy.window) \in Int
  <2> DEFINE I == {u \in Times : InWindow(u, t, policy.window)}
  <2>1. IsFiniteSet(I)
    <3>1. 0 \in Int /\ MaxTime \in Int
      BY HealthAssumption
    <3>2. IsFiniteSet(Times)
      BY <3>1, FS_Interval DEF Times
    <3>3. I \in SUBSET Times
      OBVIOUS
    <3>4. QED BY <3>2, <3>3, FS_Subset
  <2>2. \A u \in I : hs[p].failures[u] \in Nat
    BY <1>2 DEF IsHealthMap, HealthRecord
  <2>3. Fun!SumFunctionOnSet(hs[p].failures, I) \in Nat
    <3> HIDE DEF I
    <3> QED BY <2>1, <2>2, SumType
  <2>4. QED BY <1>1, <2>3 DEF EffectiveScore
<1>3. QED BY <1>1, <1>2 DEF ScoreOf

\* A group has a best score.
LEMMA GroupScoreType ==
    ASSUME NEW pool, IsPool(pool), NEW hs, IsHealthMap(hs), NEW policy \in HealthPolicy,
           NEW t \in Nat, NEW S \in SUBSET DOMAIN pool.members, IsFiniteSet(S), NEW p \in S
    PROVE  GroupScore(pool, hs, policy, t, S, p) \in Int
<1> DEFINE G == {r \in S : /\ pool.members[r].group = pool.members[p].group
                           /\ pool.members[r].tier = pool.members[p].tier}
           f == [q \in G |-> ScoreOf(pool, hs, policy, t, q)]
           scores == {ScoreOf(pool, hs, policy, t, q) : q \in G}
<1>1. IsFiniteSet(G) /\ G # {}
  BY FS_Subset
<1>2. f \in [G -> Int] /\ scores \in SUBSET Int
  BY ScoreType
<1>3. PICK x \in G : \A y \in G : f[x] >= f[y]
  <2> HIDE DEF G, f
  <2> QED BY <1>1, <1>2, FiniteGreatest
<1>4. \E m \in scores : \A y \in scores : m >= y
  BY <1>3
<1>5. FSE!Max(scores) \in scores
  <2> HIDE DEF scores
  <2> QED BY <1>4 DEF FSE!Max
<1>6. QED BY <1>2, <1>5 DEF GroupScore

\* A group has a lowest declared order.
LEMMA GroupOrderType ==
    ASSUME NEW pool, IsPool(pool), NEW S \in SUBSET DOMAIN pool.members, IsFiniteSet(S), NEW p \in S
    PROVE  GroupOrder(pool, S, p) \in Int
<1> DEFINE G == {r \in S : /\ pool.members[r].group = pool.members[p].group
                           /\ pool.members[r].tier = pool.members[p].tier}
           f == [q \in G |-> 0 - pool.members[q].order]
           orders == {pool.members[q].order : q \in G}
<1>1. IsFiniteSet(G) /\ G # {}
  BY FS_Subset
<1>2. f \in [G -> Int] /\ orders \in SUBSET Int /\ \A q \in G : pool.members[q].order \in Int
  BY PoolMembers
<1>3. PICK x \in G : \A y \in G : f[x] >= f[y]
  <2> HIDE DEF G, f
  <2> QED BY <1>1, <1>2, FiniteGreatest
<1>4. \E m \in orders : \A y \in orders : m =< y
  <2>1. \A y \in G : pool.members[x].order =< pool.members[y].order
    BY <1>2, <1>3
  <2>2. QED BY <2>1
<1>5. FSE!Min(orders) \in orders
  <2> HIDE DEF orders
  <2> QED BY <1>4 DEF FSE!Min
<1>6. QED BY <1>2, <1>5 DEF GroupOrder

\* The eligible are ranked by tier first.
LEMMA EligibleRanked ==
    ASSUME NEW pool, IsPool(pool), NEW hs, IsHealthMap(hs), NEW policy \in HealthPolicy,
           NEW t \in Nat, NEW S \in SUBSET DOMAIN pool.members, IsFiniteSet(S)
    PROVE  LET order == RankEligible(pool, hs, policy, t, S)
           IN /\ order \in [1 .. Cardinality(S) -> S]
              /\ \A i, j \in 1 .. Cardinality(S) : i < j =>
                    /\ order[i] # order[j]
                    /\ pool.members[order[i]].tier <= pool.members[order[j]].tier
<1> DEFINE K == [p \in S |-> <<pool.members[p].tier,
                    -GroupScore(pool, hs, policy, t, S, p), GroupOrder(pool, S, p),
                    pool.members[p].group, -ScoreOf(pool, hs, policy, t, p),
                    pool.members[p].order, p>>]
           order == RankEligible(pool, hs, policy, t, S)
<1>1. ASSUME NEW p \in S
      PROVE  K[p] \in Keys(7) /\ K[p][7] = p /\ K[p][1] = pool.members[p].tier
  <2> DEFINE a == pool.members[p].tier
             b == -GroupScore(pool, hs, policy, t, S, p)
             c == GroupOrder(pool, S, p)
             d == pool.members[p].group
             e == -ScoreOf(pool, hs, policy, t, p)
             f == pool.members[p].order
  <2>1. /\ a \in Int /\ b \in Int /\ c \in Int /\ d \in Int /\ e \in Int /\ f \in Int
        /\ p \in Int
    BY PoolMembers, GroupScoreType, GroupOrderType, ScoreType
  <2>2. K[p] = <<a, b, c, d, e, f, p>>
    OBVIOUS
  <2> HIDE DEF a, b, c, d, e, f, K
  <2>3. K[p] \in Keys(7)
    BY <2>1, <2>2 DEF Keys
  <2>4. QED BY <2>2, <2>3 DEF a
<1>2. order = RankBy(S, K)
  BY DEF RankEligible
<1> HIDE DEF K, order
<1>3. K \in [S -> Keys(7)]
  BY <1>1 DEF K
<1>4. DistinctKeys(S, K, 7) /\ 7 \in Nat
  BY <1>1, <1>3 DEF DistinctKeys
<1>5. /\ order \in [1 .. Cardinality(S) -> S]
      /\ \A i, j \in 1 .. Cardinality(S) : i < j => LexLess(K[order[i]], K[order[j]])
  BY <1>2, <1>4, RankSorts
<1>6. ASSUME NEW i \in 1 .. Cardinality(S), NEW j \in 1 .. Cardinality(S), i < j
      PROVE  /\ order[i] # order[j]
             /\ pool.members[order[i]].tier <= pool.members[order[j]].tier
  <2> DEFINE x == order[i]
             y == order[j]
  <2>1. x \in S /\ y \in S
    BY <1>5
  <2>2. LexLess(K[x], K[y])
    BY <1>5, <1>6
  <2> HIDE DEF x, y
  <2>3. /\ K[x] \in Keys(7) /\ K[y] \in Keys(7)
        /\ K[x][1] = pool.members[x].tier /\ K[y][1] = pool.members[y].tier
    BY <1>1, <2>1
  <2>4. x # y
    BY <2>2, <2>3, LexIrreflexive
  <2>5. K[x][1] <= K[y][1]
    <3>1. PICK h \in 1 .. 7 : K[x][h] < K[y][h] /\ \A g \in 1 .. h - 1 : K[x][g] = K[y][g]
      BY <2>2, <2>3 DEF LexLess, Keys
    <3>2. K[x][1] \in Int /\ K[y][1] \in Int
      BY <2>3 DEF Keys
    <3>3. QED BY <3>1, <3>2
  <2>6. QED BY <2>3, <2>4, <2>5 DEF x, y
<1>7. QED BY <1>5, <1>6 DEF order

\* The suppressed are ranked too, each once.
LEMMA ProbesRanked ==
    ASSUME NEW pool, IsPool(pool), NEW hs, IsHealthMap(hs), NEW policy \in HealthPolicy,
           NEW t \in Nat, NEW S \in SUBSET DOMAIN pool.members, IsFiniteSet(S)
    PROVE  LET order == RankProbeEarliest(pool, hs, policy, t, S)
           IN /\ order \in [1 .. Cardinality(S) -> S]
              /\ \A i, j \in 1 .. Cardinality(S) : i < j => order[i] # order[j]
<1> DEFINE K == [p \in S |-> <<pool.members[p].tier, Expiry(hs, t, p),
                    -ScoreOf(pool, hs, policy, t, p), pool.members[p].order, p>>]
           order == RankProbeEarliest(pool, hs, policy, t, S)
<1>1. ASSUME NEW p \in S
      PROVE  K[p] \in Keys(5) /\ K[p][5] = p
  <2> DEFINE a == pool.members[p].tier
             b == Expiry(hs, t, p)
             c == -ScoreOf(pool, hs, policy, t, p)
             d == pool.members[p].order
  <2>1. a \in Int /\ c \in Int /\ d \in Int /\ p \in Int
    BY PoolMembers, ScoreType
  <2>2. b \in Int
    BY DEF Expiry, IsHealthMap, HealthRecord
  <2>3. K[p] = <<a, b, c, d, p>>
    OBVIOUS
  <2> HIDE DEF a, b, c, d, K
  <2>4. K[p] \in Keys(5)
    BY <2>1, <2>2, <2>3 DEF Keys
  <2>5. QED BY <2>3, <2>4
<1>2. order = RankBy(S, K)
  BY DEF RankProbeEarliest
<1> HIDE DEF K, order
<1>3. K \in [S -> Keys(5)]
  BY <1>1 DEF K
<1>4. DistinctKeys(S, K, 5) /\ 5 \in Nat
  BY <1>1, <1>3 DEF DistinctKeys
<1>5. /\ order \in [1 .. Cardinality(S) -> S]
      /\ \A i, j \in 1 .. Cardinality(S) : i < j => LexLess(K[order[i]], K[order[j]])
  BY <1>2, <1>4, RankSorts
<1>6. ASSUME NEW i \in 1 .. Cardinality(S), NEW j \in 1 .. Cardinality(S), i < j
      PROVE  order[i] # order[j]
  <2>1. LexLess(K[order[i]], K[order[j]]) /\ K[order[i]] \in Keys(5)
    BY <1>3, <1>5, <1>6
  <2>2. QED BY <2>1, LexIrreflexive
<1>7. QED BY <1>5, <1>6 DEF order

\* The order of a plan: enabled members, each once, the eligible first and by tier,
\* and in a fail-fast pool nothing else.
OrderOk(pool, enabled, eligible, order) ==
    /\ order \in Seq(enabled)
    /\ \A i, j \in DOMAIN order : i < j =>
          /\ order[i] # order[j]
          /\ order[j] \in eligible =>
                /\ order[i] \in eligible
                /\ pool.members[order[i]].tier <= pool.members[order[j]].tier
    /\ pool.failFast => \A i \in DOMAIN order : order[i] \in eligible

LEMMA OrderOkType ==
    ASSUME NEW pool, IsPool(pool), NEW hs, IsHealthMap(hs), NEW policy \in HealthPolicy,
           NEW t \in Nat, IsFiniteSet(DOMAIN pool.members)
    PROVE  OrderOk(pool, EnabledMembers(pool), EligibleMembers(pool, hs, policy, t),
                   SelectVisitOrder(pool, hs, policy, t))
<1> DEFINE enabled  == EnabledMembers(pool)
           eligible == EligibleMembers(pool, hs, policy, t)
           rest     == enabled \ eligible
           first    == RankEligible(pool, hs, policy, t, eligible)
           probes   == RankProbeEarliest(pool, hs, policy, t, rest)
           last     == IF pool.failFast THEN <<>> ELSE probes
           m        == Cardinality(eligible)
           k        == Cardinality(rest)
<1>1. /\ enabled \subseteq DOMAIN pool.members
      /\ eligible \subseteq enabled
      /\ eligible \in SUBSET DOMAIN pool.members
      /\ rest \in SUBSET DOMAIN pool.members
  BY DEF EnabledMembers, EligibleMembers
<1> HIDE DEF enabled, eligible, rest
<1>2. IsFiniteSet(eligible) /\ IsFiniteSet(rest) /\ m \in Nat /\ k \in Nat
  BY <1>1, FS_Subset, FS_CardinalityType
<1>3. /\ first \in [1 .. m -> eligible]
      /\ \A i, j \in 1 .. m : i < j =>
            /\ first[i] # first[j]
            /\ pool.members[first[i]].tier <= pool.members[first[j]].tier
  BY <1>1, <1>2, EligibleRanked
<1>4. /\ probes \in [1 .. k -> rest]
      /\ \A i, j \in 1 .. k : i < j => probes[i] # probes[j]
  BY <1>1, <1>2, ProbesRanked
<1> HIDE DEF first, probes, m, k
<1>5. /\ first \in Seq(eligible) /\ Len(first) = m
      /\ last \in Seq(rest)
      /\ \A i, j \in 1 .. Len(last) : i < j => last[i] # last[j]
      /\ pool.failFast => last = <<>>
  BY <1>2, <1>3, <1>4
<1> HIDE DEF last
<1> DEFINE order == first \o last
<1>6. /\ order \in Seq(enabled)
      /\ DOMAIN order = 1 .. m + Len(last)
      /\ Len(last) \in Nat
      /\ \A i \in 1 .. m : order[i] = first[i] /\ order[i] \in eligible
      /\ \A i \in m + 1 .. m + Len(last) :
            order[i] = last[i - m] /\ order[i] \in rest /\ order[i] \notin eligible
  <2>1. first \in Seq(enabled) /\ last \in Seq(enabled)
    BY <1>1, <1>5 DEF rest
  <2>2. QED BY <1>2, <1>3, <1>5, <2>1 DEF rest
<1> HIDE DEF order
<1>7. ASSUME NEW i \in DOMAIN order, NEW j \in DOMAIN order, i < j
      PROVE  /\ order[i] # order[j]
             /\ order[j] \in eligible =>
                   /\ order[i] \in eligible
                   /\ pool.members[order[i]].tier <= pool.members[order[j]].tier
  <2>1. CASE j <= m
    BY <1>2, <1>3, <1>6, <1>7, <2>1
  <2>2. CASE j > m /\ i <= m
    BY <1>2, <1>6, <1>7, <2>2
  <2>3. CASE j > m /\ i > m
    <3>1. /\ i - m \in 1 .. Len(last) /\ j - m \in 1 .. Len(last) /\ i - m < j - m
          /\ order[i] = last[i - m] /\ order[j] = last[j - m] /\ order[j] \notin eligible
      BY <1>2, <1>6, <1>7, <2>3
    <3>2. QED BY <1>5, <3>1
  <2>4. QED BY <1>2, <1>6, <2>1, <2>2, <2>3
<1>8. ASSUME pool.failFast
      PROVE  \A i \in DOMAIN order : order[i] \in eligible
  <2>1. Len(last) = 0
    BY <1>5, <1>8
  <2>2. QED BY <1>2, <1>6, <2>1
<1>9. order = SelectVisitOrder(pool, hs, policy, t)
  BY DEF order, first, last, probes, rest, eligible, enabled, SelectVisitOrder
<1>10. OrderOk(pool, enabled, eligible, order)
  BY <1>6, <1>7, <1>8 DEF OrderOk
<1>11. QED BY <1>9, <1>10 DEF enabled, eligible

\* A pool as a client sees it that is bound to some of its members.
PartOf(part, pool) ==
    /\ DOMAIN part.members \subseteq DOMAIN pool.members
    /\ \A p \in DOMAIN part.members : part.members[p] = pool.members[p]

\* A member's score and eligibility do not depend on the members a client leaves out.
LEMMA EligibleOfPart ==
    ASSUME NEW pool, NEW part, NEW hs, NEW policy, NEW t, PartOf(part, pool)
    PROVE  /\ EnabledMembers(part) = EnabledMembers(pool) \cap DOMAIN part.members
           /\ EligibleMembers(part, hs, policy, t)
                = EligibleMembers(pool, hs, policy, t) \cap DOMAIN part.members
<1>0. /\ DOMAIN part.members \subseteq DOMAIN pool.members
      /\ \A p \in DOMAIN part.members : part.members[p] = pool.members[p]
  BY DEF PartOf
<1>1. EnabledMembers(part) = EnabledMembers(pool) \cap DOMAIN part.members
  BY <1>0 DEF EnabledMembers
<1>2. ASSUME NEW p \in DOMAIN part.members
      PROVE  ScoreOf(part, hs, policy, t, p) = ScoreOf(pool, hs, policy, t, p)
  BY <1>0 DEF ScoreOf
<1>3. QED
  BY <1>0, <1>1, <1>2 DEF EligibleMembers, EnabledMembers

\* What PlanPrefersEligible says of one operation.
PlanStep(o) ==
    \E k \in DOMAIN config.pools :
        LET pool     == config.pools[k]
            eligible == EligibleMembers(pool, health', config.policy, now)
            order    == plan'[o]
        IN /\ \A i \in DOMAIN order : order[i] \in EnabledMembers(pool)
           /\ \A i, j \in DOMAIN order : i < j =>
                 /\ order[i] # order[j]
                 /\ order[j] \in eligible =>
                       /\ order[i] \in eligible
                       /\ pool.members[order[i]].tier <= pool.members[order[j]].tier
           /\ pool.failFast => \A i \in DOMAIN order : order[i] \in eligible

\* What planning a visit makes of the plan.
LEMMA PlanVisitStep ==
    ASSUME Inv, NEW o \in Ops, NEW k \in DOMAIN config.pools, NEW allowed \in AllowedSets,
           PlanVisit(o, k, allowed)
    PROVE  PlanStep(o) /\ plan'[o] \in Seq(Providers)
<1> DEFINE pool    == config.pools[k]
           bound   == DOMAIN pool.members \cap allowed
           part    == [pool EXCEPT !.members = [p \in bound |-> pool.members[p]]]
           order   == SelectVisitOrder(part, health', config.policy, now)
<1>1. /\ config \in Configs /\ ValidConfig(config) /\ config.policy \in HealthPolicy
      /\ IsPool(pool) /\ DOMAIN pool.members \subseteq config.live
      /\ IsFiniteSet(config.live)
      /\ now \in Nat /\ IsHealthMap(health)
  BY RouterAssumption, HealthAssumption DEF ValidConfig, Inv, RouterTypes, GoodMap, Times
<1>2. health' = Reconcile(health, config.live, config.policy, now) /\ IsHealthMap(health')
  BY <1>1, ReconcileFacts DEF PlanVisit
<1>3. plan' = [plan EXCEPT ![o] = order]
  BY <1>2 DEF PlanVisit
<1>4. plan'[o] = order
  BY <1>3 DEF Inv, RouterTypes
<1>5. /\ part.members = [p \in bound |-> pool.members[p]]
      /\ part.failFast = pool.failFast
      /\ IsPool(part)
  <2>1. DOMAIN pool = {"members", "failFast"} /\ bound \subseteq DOMAIN pool.members
    BY <1>1 DEF IsPool
  <2> HIDE DEF pool, bound
  <2>2. /\ DOMAIN part = {"members", "failFast"}
        /\ part.members = [p \in bound |-> pool.members[p]]
        /\ part.failFast = pool.failFast
    BY <2>1
  <2>3. QED BY <1>1, <2>1, <2>2 DEF IsPool
<1>6. IsFiniteSet(DOMAIN part.members)
  <2>1. DOMAIN part.members \in SUBSET config.live
    BY <1>1, <1>5
  <2>2. QED BY <1>1, <2>1, FS_Subset
<1> HIDE DEF part, order, pool
<1>7. OrderOk(part, EnabledMembers(part), EligibleMembers(part, health', config.policy, now),
              order)
  BY <1>1, <1>2, <1>5, <1>6, OrderOkType DEF order
<1>8. /\ EnabledMembers(part) = EnabledMembers(pool) \cap bound
      /\ EligibleMembers(part, health', config.policy, now)
           = EligibleMembers(pool, health', config.policy, now) \cap bound
      /\ \A p \in bound : part.members[p] = pool.members[p]
  <2>1. DOMAIN part.members = bound /\ bound \subseteq DOMAIN pool.members
    BY <1>5 DEF bound
  <2>2. \A p \in DOMAIN part.members : part.members[p] = pool.members[p]
    BY <1>5, <2>1
  <2>3. /\ EnabledMembers(part) = EnabledMembers(pool) \cap DOMAIN part.members
        /\ EligibleMembers(part, health', config.policy, now)
             = EligibleMembers(pool, health', config.policy, now) \cap DOMAIN part.members
    <3>1. PartOf(part, pool)
      BY <2>1, <2>2 DEF PartOf
    <3>2. EnabledMembers(part) = EnabledMembers(pool) \cap DOMAIN part.members
      BY <3>1, EligibleOfPart
    <3>3. EligibleMembers(part, health', config.policy, now)
             = EligibleMembers(pool, health', config.policy, now) \cap DOMAIN part.members
      BY <3>1, EligibleOfPart
    <3>4. QED BY <3>2, <3>3
  <2>4. QED BY <2>1, <2>2, <2>3
<1> DEFINE eligible == EligibleMembers(pool, health', config.policy, now)
           some     == EligibleMembers(part, health', config.policy, now)
<1>9. \A i \in DOMAIN order : order[i] \in EnabledMembers(pool) /\ order[i] \in bound
  BY <1>7, <1>8 DEF OrderOk
<1>10. \A i \in DOMAIN order : order[i] \in eligible <=> order[i] \in some
  BY <1>8, <1>9
<1> HIDE DEF eligible, some
<1>11. \A i, j \in DOMAIN order : i < j =>
          /\ order[i] # order[j]
          /\ order[j] \in eligible =>
                /\ order[i] \in eligible
                /\ pool.members[order[i]].tier <= pool.members[order[j]].tier
  BY <1>7, <1>8, <1>9, <1>10 DEF OrderOk, some
<1>12. pool.failFast => \A i \in DOMAIN order : order[i] \in eligible
  BY <1>5, <1>7, <1>10 DEF OrderOk, some
<1>13. plan'[o] \in Seq(Providers)
  <2>1. EnabledMembers(part) \subseteq Providers
    BY <1>1, <1>8, PoolMembers DEF EnabledMembers
  <2>2. order \in Seq(EnabledMembers(part))
    BY <1>7 DEF OrderOk
  <2>3. QED BY <1>4, <2>1, <2>2
<1>14. QED
  BY <1>4, <1>9, <1>11, <1>12, <1>13 DEF PlanStep, pool, eligible

\* Only planning makes an idle operation visit.
LEMMA StartsByPlanning ==
    ASSUME Inv, [Next]_vars, NEW o \in Ops, pc[o] = "idle", pc'[o] = "visiting"
    PROVE  \E k \in DOMAIN config.pools, allowed \in AllowedSets : PlanVisit(o, k, allowed)
<1>0. pc \in [Ops -> {"idle", "visiting", "done"}]
  BY DEF Inv, RouterTypes
<1>1. \E q \in Ops, k \in DOMAIN config.pools, allowed \in AllowedSets : PlanVisit(q, k, allowed)
  BY <1>0 DEF Next, OpNext, Tick, PlanVisitUnbound, TripVisit, SucceedVisit, SkipVisit,
              EndVisit, NextProvider, UpdateConfig, Reopen, Visiting, vars, opVars
<1>2. QED BY <1>0, <1>1 DEF PlanVisit

\* A plan visits enabled members of its pool, each at most once, no suppressed
\* provider before an eligible one and no fallback tier before a lower one, for
\* any pool, any health records and any scores.
THEOREM PlansPreferEligible == Spec => PlanPrefersEligible
<1>1. ASSUME Inv, [Next]_vars, NEW o \in Ops, pc[o] = "idle", pc'[o] = "visiting"
      PROVE  PlanStep(o)
  BY <1>1, StartsByPlanning, PlanVisitStep
<1>2. Inv /\ [Next]_vars =>
        [\A o \in Ops : pc[o] = "idle" /\ pc'[o] = "visiting" => PlanStep(o)]_vars
  BY <1>1
<1>3. QED BY <1>2, Invariance, PTL DEF Spec, PlanPrefersEligible, PlanStep

-----------------------------------------------------------------------------
(* Penalties.                                                              *)

Trippers(vs, p, t) == {o \in Ops : <<o, p, t>> \in vs}
Recorded(hs, p, t) == IF p \in DOMAIN hs THEN hs[p].failures[t] ELSE 0

\* Every config still counts a failure stamped t, and keeps its record.
Fresh(t, u) == \A c \in Configs : InWindow(t, u, c.policy.window) /\ u - t < c.policy.retention

\* What a map of records says happened, did: each penalty and each last trip is
\* a visit in vs, and a record was seen since.
Attributed(hs, vs) ==
    \A p \in DOMAIN hs :
        /\ hs[p].lastOp # NoOp => \E t \in Times : <<hs[p].lastOp, p, t>> \in vs
        /\ \A t \in Times : /\ hs[p].failures[t] <= Cardinality(Trippers(vs, p, t))
                            /\ hs[p].failures[t] > 0 => t <= hs[p].seen

\* What happened of late is in the map.
Complete(hs, vs, u) ==
    \A p \in Providers, t \in Times :
        Fresh(t, u) => Recorded(hs, p, t) = Cardinality(Trippers(vs, p, t))

\* An operation trips no provider that is still in its plan, which has none twice.
PlansAhead ==
    /\ \A p \in Providers, t \in Times : IsFiniteSet(Trippers(visits, p, t))
    /\ \A o \in Ops :
          /\ plan[o] \in Seq(Providers)
          /\ pc[o] = "visiting" => plan[o] # <<>>
          /\ \A i, j \in DOMAIN plan[o] : i < j => plan[o][i] # plan[o][j]
          /\ \A i \in DOMAIN plan[o], t \in Times : <<o, plan[o][i], t>> \notin visits
          /\ pc[o] = "idle" => \A p \in Providers, t \in Times : <<o, p, t>> \notin visits

PenaltyInv ==
    /\ Inv
    /\ PlansAhead
    /\ \A hs \in {health, disk} :
          /\ Attributed(hs, visits)
          /\ ~WritesMayFail => Complete(hs, visits, now)

\* Reconciliation takes away penalties, but none that is fresh.
LEMMA ReconcilePenalties ==
    ASSUME NEW hs, NEW u \in Times, GoodMap(hs, u), NEW vs, Attributed(hs, vs),
           \A p \in Providers, t \in Times : IsFiniteSet(Trippers(vs, p, t)),
           NEW live, NEW c \in Configs
    PROVE  /\ Attributed(Reconcile(hs, live, c.policy, u), vs)
           /\ Complete(hs, vs, u) => Complete(Reconcile(hs, live, c.policy, u), vs, u)
<1> DEFINE new == Reconcile(hs, live, c.policy, u)
           policy == c.policy
<1>0. policy \in HealthPolicy /\ u \in Nat /\ policy.retention \in Nat /\ policy.window \in Nat
  BY PolicyType, HealthAssumption DEF Times, HealthPolicy
<1>1. /\ DOMAIN new = Retained(hs, live, policy, u)
      /\ \A p \in DOMAIN new : /\ p \in DOMAIN hs
                                /\ hs[p] \in HealthRecord
                                /\ Stamp(hs, live, u, p) \in Nat
                                /\ new[p] = ReconcileRecord(hs[p], Stamp(hs, live, u, p), policy, u)
  BY <1>0, ReconcileFacts DEF GoodMap
<1> HIDE DEF new, policy
<1>2. ASSUME NEW p \in DOMAIN new
      PROVE  /\ new[p].lastOp = hs[p].lastOp
             /\ new[p].seen = Stamp(hs, live, u, p)
             /\ new[p].failures = [v \in Times |-> IF v > u - policy.window
                                                   THEN hs[p].failures[v] ELSE 0]
  BY <1>0, <1>1, ReconcileRecordFacts
<1>3. \A p \in DOMAIN hs : /\ p \in Providers
                           /\ hs[p].seen \in Nat /\ hs[p].seen <= u
                           /\ \A t \in Times : hs[p].failures[t] \in Nat
  BY DEF GoodMap, Bounded, IsHealthMap, HealthRecord
<1>c. \A p \in Providers, t \in Times : Cardinality(Trippers(vs, p, t)) \in Nat
  BY FS_CardinalityType
<1>t. \A t \in Times : t \in Nat
  BY HealthAssumption DEF Times
<1>4. ASSUME NEW p \in DOMAIN new
      PROVE  /\ new[p].lastOp # NoOp => \E t \in Times : <<new[p].lastOp, p, t>> \in vs
             /\ \A t \in Times : /\ new[p].failures[t] <= Cardinality(Trippers(vs, p, t))
                                 /\ new[p].failures[t] > 0 => t <= new[p].seen
  <2>1. p \in DOMAIN hs
    BY <1>1
  <2>2. new[p].lastOp # NoOp => \E t \in Times : <<new[p].lastOp, p, t>> \in vs
    BY <1>2, <2>1 DEF Attributed
  <2>3. ASSUME NEW t \in Times
        PROVE  /\ new[p].failures[t] <= Cardinality(Trippers(vs, p, t))
               /\ new[p].failures[t] > 0 => t <= new[p].seen
    <3>1. /\ hs[p].failures[t] <= Cardinality(Trippers(vs, p, t))
          /\ hs[p].failures[t] > 0 => t <= hs[p].seen
      BY <2>1 DEF Attributed
    <3>2. CASE t > u - policy.window
      <4>1. new[p].failures[t] = hs[p].failures[t]
        BY <1>2, <3>2
      <4>2. /\ hs[p].seen \in Nat /\ hs[p].seen <= u
            /\ hs[p].seen = new[p].seen \/ new[p].seen = u
        BY <1>2, <1>3, <2>1 DEF Stamp
      <4>3. t <= hs[p].seen => t <= new[p].seen
        <5>1. CASE hs[p].seen = new[p].seen
          BY <5>1
        <5>2. CASE new[p].seen = u
          <6>1. t \in Nat /\ u \in Nat /\ hs[p].seen \in Nat /\ hs[p].seen <= u
            BY <1>0, <1>t, <4>2
          <6>2. t <= hs[p].seen => t <= u
            BY <6>1
          <6>3. QED BY <5>2, <6>2
        <5>3. QED BY <4>2, <5>1, <5>2
      <4>4. QED BY <3>1, <4>1, <4>3
    <3>3. CASE ~(t > u - policy.window)
      <4>1. new[p].failures[t] = 0
        BY <1>2, <3>3
      <4>2. p \in Providers
        BY <1>3, <2>1
      <4>3. QED BY <1>c, <4>1, <4>2
    <3>4. QED BY <3>2, <3>3
  <2>4. QED BY <2>2, <2>3
<1>5. Attributed(new, vs)
  BY <1>4 DEF Attributed
<1>6. ASSUME Complete(hs, vs, u), NEW p \in Providers, NEW t \in Times, Fresh(t, u)
      PROVE  Recorded(new, p, t) = Cardinality(Trippers(vs, p, t))
  <2>1. Recorded(hs, p, t) = Cardinality(Trippers(vs, p, t))
    BY <1>6 DEF Complete
  <2>2. t > u - policy.window /\ u - t < policy.retention
    BY <1>6 DEF Fresh, InWindow, policy
  <2>3. CASE p \in DOMAIN new
    <3>1. p \in DOMAIN hs /\ new[p].failures[t] = hs[p].failures[t]
      BY <1>1, <1>2, <2>2, <2>3
    <3>2. QED BY <2>1, <2>3, <3>1 DEF Recorded
  <2>4. CASE p \notin DOMAIN new /\ p \in DOMAIN hs
    <3>1. u - hs[p].seen >= policy.retention
      BY <1>0, <1>1, <1>3, <2>4 DEF Retained
    <3>2. ~(t <= hs[p].seen)
      BY <1>0, <1>3, <1>t, <2>2, <2>4, <3>1
    <3>3. hs[p].failures[t] = 0
      <4>1. hs[p].failures[t] \in Nat /\ ~(hs[p].failures[t] > 0)
        BY <1>3, <2>4, <3>2 DEF Attributed
      <4>2. QED BY <4>1
    <3>4. QED BY <2>1, <2>4, <3>3 DEF Recorded
  <2>5. CASE p \notin DOMAIN new /\ p \notin DOMAIN hs
    BY <2>1, <2>5 DEF Recorded
  <2>6. QED BY <2>3, <2>4, <2>5
<1>7. Complete(hs, vs, u) => Complete(new, vs, u)
  BY <1>6 DEF Complete
<1>8. QED BY <1>5, <1>7 DEF new, policy

\* One more tripper of one provider at one time.
LEMMA TrippersGrow ==
    ASSUME NEW vs, NEW o \in Ops, NEW p \in Providers, NEW t \in Times, <<o, p, t>> \notin vs,
           \A q \in Providers, v \in Times : IsFiniteSet(Trippers(vs, q, v))
    PROVE  LET more == vs \cup {<<o, p, t>>}
           IN /\ \A q \in Providers, v \in Times : IsFiniteSet(Trippers(more, q, v))
              /\ Cardinality(Trippers(more, p, t)) = Cardinality(Trippers(vs, p, t)) + 1
              /\ \A q \in Providers, v \in Times :
                    <<q, v>> # <<p, t>> => Trippers(more, q, v) = Trippers(vs, q, v)
<1> DEFINE more == vs \cup {<<o, p, t>>}
<1>1. Trippers(more, p, t) = Trippers(vs, p, t) \cup {o} /\ o \notin Trippers(vs, p, t)
  BY DEF Trippers
<1>2. \A q \in Providers, v \in Times :
         <<q, v>> # <<p, t>> => Trippers(more, q, v) = Trippers(vs, q, v)
  BY DEF Trippers
<1> HIDE DEF more
<1>3. /\ IsFiniteSet(Trippers(more, p, t))
      /\ Cardinality(Trippers(more, p, t)) = Cardinality(Trippers(vs, p, t)) + 1
  BY <1>1, FS_AddElement
<1>4. \A q \in Providers, v \in Times : IsFiniteSet(Trippers(more, q, v))
  BY <1>2, <1>3
<1>5. QED BY <1>2, <1>3, <1>4 DEF more

\* A trip adds one penalty, which is the visit it reports.
LEMMA TripPenalties ==
    ASSUME NEW hs, NEW u \in Times, GoodMap(hs, u), NEW vs, Attributed(hs, vs),
           \A p \in Providers, t \in Times : IsFiniteSet(Trippers(vs, p, t)),
           NEW o \in Ops, NEW p \in Providers, NEW policy \in HealthPolicy,
           NEW ra \in RetryAfters, \A t \in Times : <<o, p, t>> \notin vs
    PROVE  LET new  == WithRecord(hs, p, Trip(EntryOrDefault(hs, p, u), u, o, policy, ra))
               more == vs \cup {<<o, p, u>>}
           IN /\ Attributed(new, more)
              /\ Complete(hs, vs, u) => Complete(new, more, u)
<1> DEFINE rec  == EntryOrDefault(hs, p, u)
           one  == Trip(rec, u, o, policy, ra)
           new  == WithRecord(hs, p, one)
           more == vs \cup {<<o, p, u>>}
<1>0. u \in Nat /\ IsHealthMap(hs)
  BY HealthAssumption DEF Times, GoodMap
<1>1. /\ rec \in HealthRecord
      /\ rec.lastOp # o
      /\ \A t \in Times : rec.failures[t] = Recorded(hs, p, t)
      /\ rec.seen <= u
  <2>1. rec \in HealthRecord /\ rec.seen <= u
    BY <1>0, EntryGood DEF Bounded
  <2>2. CASE p \in DOMAIN hs
    BY <2>1, <2>2, HealthAssumption DEF EntryOrDefault, Recorded, Attributed
  <2>3. CASE p \notin DOMAIN hs
    BY <2>1, <2>3, HealthAssumption DEF EntryOrDefault, Recorded, FreshRecord
  <2>4. QED BY <2>1, <2>2, <2>3
<1>2. /\ one \in HealthRecord
      /\ one.seen = u
      /\ one.lastOp = o
      /\ one.failures = [rec.failures EXCEPT ![u] = @ + 1]
  <2>1. /\ one \in HealthRecord /\ one.seen = u /\ one.lastOp = o
    <3> HIDE DEF rec
    <3> QED BY <1>1, TripRecord
  <2>2. one.failures = [rec.failures EXCEPT ![u] = @ + 1]
    <3> HIDE DEF rec
    <3> QED BY <1>1 DEF Trip, HealthRecord
  <2>3. QED BY <2>1, <2>2
<1> HIDE DEF rec, one
<1>3. /\ DOMAIN new = DOMAIN hs \cup {p}
      /\ new[p] = one
      /\ \A q \in DOMAIN hs : q # p => new[q] = hs[q]
      /\ DOMAIN hs \subseteq Providers
  <2>1. DOMAIN hs \subseteq Providers
    BY <1>0 DEF IsHealthMap
  <2>2. one \in HealthRecord
    BY <1>2
  <2>3. QED BY <1>0, <2>1, <2>2, WithRecordType
<1>4. /\ \A q \in Providers, v \in Times : IsFiniteSet(Trippers(more, q, v))
      /\ Cardinality(Trippers(more, p, u)) = Cardinality(Trippers(vs, p, u)) + 1
      /\ \A q \in Providers, v \in Times :
            <<q, v>> # <<p, u>> => Trippers(more, q, v) = Trippers(vs, q, v)
  BY TrippersGrow
<1>5. \A q \in Providers, v \in Times : Cardinality(Trippers(vs, q, v)) \in Nat
  BY FS_CardinalityType
<1>6. <<o, p, u>> \in more /\ \A x \in vs : x \in more
  OBVIOUS
<1> HIDE DEF new, more
<1>7. \A t \in Times : /\ one.failures[t] = Recorded(hs, p, t) + (IF t = u THEN 1 ELSE 0)
                       /\ Recorded(hs, p, t) \in Nat
                       /\ t \in Nat
  <2>1. rec.failures \in [Times -> Nat] /\ \A t \in Times : t \in Nat
    BY <1>1, HealthAssumption DEF HealthRecord, Times
  <2>2. QED BY <1>1, <1>2, <2>1
<1>8. \A t \in Times : /\ Recorded(hs, p, t) <= Cardinality(Trippers(vs, p, t))
                       /\ Recorded(hs, p, t) > 0 => t <= u
  <2>1. CASE p \in DOMAIN hs
    <3>1. hs[p].seen \in Nat /\ hs[p].seen <= u
      BY <1>0, <2>1 DEF GoodMap, Bounded, IsHealthMap, HealthRecord
    <3>2. QED BY <1>0, <1>7, <2>1, <3>1 DEF Attributed, Recorded
  <2>2. CASE p \notin DOMAIN hs
    BY <1>5, <2>2 DEF Recorded
  <2>3. QED BY <2>1, <2>2
<1>9. ASSUME NEW q \in DOMAIN new
      PROVE  /\ new[q].lastOp # NoOp => \E t \in Times : <<new[q].lastOp, q, t>> \in more
             /\ \A t \in Times : /\ new[q].failures[t] <= Cardinality(Trippers(more, q, t))
                                 /\ new[q].failures[t] > 0 => t <= new[q].seen
  <2>1. CASE q = p
    <3>1. new[p].lastOp # NoOp => \E t \in Times : <<new[p].lastOp, p, t>> \in more
      BY <1>2, <1>3, <1>6
    <3>2. ASSUME NEW t \in Times
          PROVE  /\ new[p].failures[t] <= Cardinality(Trippers(more, p, t))
                 /\ new[p].failures[t] > 0 => t <= new[p].seen
      <4>1. CASE t = u
        <5>1. /\ new[p].failures[u] = Recorded(hs, p, u) + 1
              /\ Recorded(hs, p, u) \in Nat
              /\ Recorded(hs, p, u) <= Cardinality(Trippers(vs, p, u))
              /\ Cardinality(Trippers(vs, p, u)) \in Nat
              /\ new[p].seen = u
          BY <1>2, <1>3, <1>5, <1>7, <1>8
        <5>2. QED BY <1>0, <1>4, <4>1, <5>1
      <4>2. CASE t # u
        <5>1. Trippers(more, p, t) = Trippers(vs, p, t)
          BY <1>4, <4>2
        <5>2. one.failures[t] = Recorded(hs, p, t)
          BY <1>7, <4>2
        <5>3. QED BY <1>2, <1>3, <1>8, <5>1, <5>2
      <4>3. QED BY <4>1, <4>2
    <3>3. QED BY <2>1, <3>1, <3>2
  <2>2. CASE q # p
    <3>1. q \in DOMAIN hs /\ q \in Providers /\ new[q] = hs[q]
      BY <1>3, <2>2
    <3>2. \A t \in Times : Trippers(more, q, t) = Trippers(vs, q, t)
      BY <1>4, <2>2, <3>1
    <3>3. QED BY <1>6, <3>1, <3>2 DEF Attributed
  <2>3. QED BY <2>1, <2>2
<1>10. Attributed(new, more)
  BY <1>9 DEF Attributed
<1>11. ASSUME Complete(hs, vs, u), NEW q \in Providers, NEW t \in Times, Fresh(t, u)
       PROVE  Recorded(new, q, t) = Cardinality(Trippers(more, q, t))
  <2>1. Recorded(hs, q, t) = Cardinality(Trippers(vs, q, t))
    BY <1>11 DEF Complete
  <2>2. CASE q = p
    <3>1. Recorded(new, p, t) = Recorded(hs, p, t) + (IF t = u THEN 1 ELSE 0)
      BY <1>3, <1>7 DEF Recorded
    <3>2. CASE t = u
      BY <1>4, <1>5, <2>1, <2>2, <3>1, <3>2
    <3>3. CASE t # u
      <4>1. Trippers(more, p, t) = Trippers(vs, p, t)
        BY <1>4, <3>3
      <4>2. QED BY <1>7, <2>1, <2>2, <3>1, <3>3, <4>1
    <3>4. QED BY <3>2, <3>3
  <2>3. CASE q # p
    <3>1. Trippers(more, q, t) = Trippers(vs, q, t)
      BY <1>4, <2>3
    <3>2. Recorded(new, q, t) = Recorded(hs, q, t)
      BY <1>3, <2>3 DEF Recorded
    <3>3. QED BY <2>1, <3>1, <3>2
  <2>4. QED BY <2>2, <2>3
<1>12. Complete(hs, vs, u) => Complete(new, more, u)
  BY <1>11 DEF Complete
<1>13. QED BY <1>10, <1>12 DEF new, more, one, rec

\* A recovery keeps the penalties.
LEMMA RecoverPenalties ==
    ASSUME NEW hs, NEW u \in Times, GoodMap(hs, u), NEW vs, Attributed(hs, vs),
           \A p \in Providers, t \in Times : IsFiniteSet(Trippers(vs, p, t)),
           NEW p \in Providers
    PROVE  LET new == WithRecord(hs, p, Recover(EntryOrDefault(hs, p, u), u))
           IN /\ Attributed(new, vs)
              /\ Complete(hs, vs, u) => Complete(new, vs, u)
<1> DEFINE rec == EntryOrDefault(hs, p, u)
           one == Recover(rec, u)
           new == WithRecord(hs, p, one)
<1>0. u \in Nat /\ IsHealthMap(hs)
  BY HealthAssumption DEF Times, GoodMap
<1>1. /\ rec \in HealthRecord
      /\ \A t \in Times : rec.failures[t] = Recorded(hs, p, t)
  <2>1. rec \in HealthRecord
    BY <1>0, EntryType
  <2>2. QED
    BY <2>1 DEF EntryOrDefault, Recorded, FreshRecord
<1>2. /\ one \in HealthRecord
      /\ one.seen = u
      /\ one.lastOp = NoOp
      /\ one.failures = rec.failures
  <2> HIDE DEF rec
  <2> QED BY <1>0, <1>1 DEF Recover, HealthRecord
<1> HIDE DEF rec, one
<1>3. /\ DOMAIN new = DOMAIN hs \cup {p}
      /\ new[p] = one
      /\ \A q \in DOMAIN hs : q # p => new[q] = hs[q]
      /\ DOMAIN hs \subseteq Providers
  <2>1. DOMAIN hs \subseteq Providers
    BY <1>0 DEF IsHealthMap
  <2>2. one \in HealthRecord
    BY <1>2
  <2>3. QED BY <1>0, <2>1, <2>2, WithRecordType
<1> HIDE DEF new
<1>4. \A q \in Providers, t \in Times : Recorded(new, q, t) = Recorded(hs, q, t)
  BY <1>1, <1>2, <1>3 DEF Recorded
<1>5. \A q \in Providers, v \in Times : Cardinality(Trippers(vs, q, v)) \in Nat
  BY FS_CardinalityType
<1>6. ASSUME NEW q \in DOMAIN new
      PROVE  /\ new[q].lastOp # NoOp => \E t \in Times : <<new[q].lastOp, q, t>> \in vs
             /\ \A t \in Times : /\ new[q].failures[t] <= Cardinality(Trippers(vs, q, t))
                                 /\ new[q].failures[t] > 0 => t <= new[q].seen
  <2>1. CASE q = p /\ p \in DOMAIN hs
    <3>1. hs[p].seen \in Nat /\ hs[p].seen <= u /\ \A t \in Times : t \in Nat
      BY <1>0, <2>1, HealthAssumption DEF GoodMap, Bounded, IsHealthMap, HealthRecord, Times
    <3>2. \A t \in Times : new[p].failures[t] = hs[p].failures[t]
      BY <1>1, <1>2, <1>3, <2>1 DEF Recorded
    <3>3. QED BY <1>0, <1>2, <1>3, <2>1, <3>1, <3>2 DEF Attributed
  <2>2. CASE q = p /\ p \notin DOMAIN hs
    <3>1. \A t \in Times : new[p].failures[t] = 0
      BY <1>1, <1>2, <1>3, <2>2 DEF Recorded
    <3>2. QED BY <1>2, <1>3, <1>5, <2>2, <3>1
  <2>3. CASE q # p
    BY <1>3, <2>3 DEF Attributed
  <2>4. QED BY <2>1, <2>2, <2>3
<1>7. Attributed(new, vs)
  BY <1>6 DEF Attributed
<1>8. Complete(hs, vs, u) => Complete(new, vs, u)
  BY <1>4 DEF Complete
<1>9. QED BY <1>7, <1>8 DEF new, one, rec

\* The invariant holds initially.
LEMMA InitPenalty == Init => PenaltyInv
<1> SUFFICES ASSUME Init PROVE PenaltyInv
  OBVIOUS
<1>1. DOMAIN health = {} /\ disk = health /\ visits = {} /\ plan = [o \in Ops |-> <<>>]
  BY DEF Init
<1>2. \A p \in Providers, t \in Times : Trippers(visits, p, t) = {}
  BY <1>1 DEF Trippers
<1>3. \A hs \in {health, disk} : Attributed(hs, visits) /\ Complete(hs, visits, now)
  BY <1>1, <1>2, FS_EmptySet DEF Attributed, Complete, Recorded
<1>4. PlansAhead
  <2>1. \A p \in Providers, t \in Times : IsFiniteSet(Trippers(visits, p, t))
    BY <1>2, FS_EmptySet
  <2>2. \A o \in Ops : plan[o] = <<>> /\ pc[o] = "idle"
    BY <1>1 DEF Init
  <2>3. QED BY <1>1, <2>1, <2>2 DEF PlansAhead
<1>5. QED BY <1>3, <1>4, InitInv DEF PenaltyInv

\* What a config still counts later it counts now.
LEMMA FreshEarlier ==
    ASSUME NEW t \in Times, NEW u \in Nat, Fresh(t, u + 1)
    PROVE  Fresh(t, u)
<1>1. ASSUME NEW c \in Configs
      PROVE  InWindow(t, u, c.policy.window) /\ u - t < c.policy.retention
  <2>1. c.policy.window \in Nat /\ c.policy.retention \in Nat /\ t \in Nat
    BY PolicyType, HealthAssumption DEF HealthPolicy, Times
  <2>2. t > u + 1 - c.policy.window /\ u + 1 - t < c.policy.retention
    BY <2>1 DEF Fresh, InWindow
  <2>4. t > u - c.policy.window /\ u - t < c.policy.retention
    BY <2>1, <2>2
  <2>5. QED BY <2>4 DEF InWindow
<1>2. QED BY <1>1 DEF Fresh

\* Dropping the first provider of a plan leaves what is ahead of it.
LEMMA TailAhead ==
    ASSUME NEW s \in Seq(Providers), s # <<>>,
           \A i, j \in DOMAIN s : i < j => s[i] # s[j]
    PROVE  /\ Tail(s) \in Seq(Providers)
           /\ Len(s) # 1 => Tail(s) # <<>>
           /\ \A i, j \in DOMAIN Tail(s) : i < j => Tail(s)[i] # Tail(s)[j]
           /\ \A i \in DOMAIN Tail(s) :
                 /\ Tail(s)[i] # Head(s)
                 /\ \E k \in DOMAIN s : Tail(s)[i] = s[k]
<1>1. /\ Len(s) \in Nat \ {0} /\ DOMAIN s = 1 .. Len(s)
      /\ Tail(s) \in Seq(Providers) /\ Len(Tail(s)) = Len(s) - 1
      /\ DOMAIN Tail(s) = 1 .. Len(s) - 1
      /\ Head(s) = s[1]
      /\ \A i \in 1 .. Len(s) - 1 : Tail(s)[i] = s[i + 1]
  OBVIOUS
<1>2. ASSUME NEW i \in DOMAIN Tail(s)
      PROVE  /\ Tail(s)[i] # Head(s)
             /\ \E k \in DOMAIN s : Tail(s)[i] = s[k]
  <2>1. i + 1 \in DOMAIN s /\ 1 \in DOMAIN s /\ 1 < i + 1 /\ Tail(s)[i] = s[i + 1]
    BY <1>1
  <2>2. QED BY <1>1, <2>1
<1>3. ASSUME NEW i \in DOMAIN Tail(s), NEW j \in DOMAIN Tail(s), i < j
      PROVE  Tail(s)[i] # Tail(s)[j]
  <2>1. /\ i + 1 \in DOMAIN s /\ j + 1 \in DOMAIN s /\ i + 1 < j + 1
        /\ Tail(s)[i] = s[i + 1] /\ Tail(s)[j] = s[j + 1]
    BY <1>1, <1>3
  <2>2. QED BY <2>1
<1>4. Len(s) # 1 => Tail(s) # <<>>
  BY <1>1
<1>5. QED BY <1>1, <1>2, <1>3, <1>4

\* A plan of an operation that visits goes on to its next provider.
LEMMA NextAhead ==
    ASSUME Inv, PlansAhead, NEW o \in Ops, pc[o] = "visiting", NextProvider(o),
           visits' = visits \/ \E t \in Times : /\ visits' = visits \cup {<<o, Head(plan[o]), t>>}
                                                /\ <<o, Head(plan[o]), t>> \notin visits
    PROVE  PlansAhead'
<1> DEFINE s == plan[o]
<1>0. /\ pc \in [Ops -> {"idle", "visiting", "done"}] /\ DOMAIN plan = Ops
      /\ s \in Seq(Providers) /\ s # <<>>
      /\ \A i, j \in DOMAIN s : i < j => s[i] # s[j]
      /\ \A i \in DOMAIN s, t \in Times : <<o, s[i], t>> \notin visits
      /\ Head(s) \in Providers
  BY DEF Inv, RouterTypes, PlansAhead
<1>1. /\ plan'[o] = Tail(s)
      /\ \A q \in Ops : q # o => plan'[q] = plan[q] /\ pc'[q] = pc[q]
      /\ pc'[o] = IF Len(s) = 1 THEN "done" ELSE "visiting"
  BY <1>0 DEF NextProvider
<1> HIDE DEF s
<1>2. /\ Tail(s) \in Seq(Providers)
      /\ Len(s) # 1 => Tail(s) # <<>>
      /\ \A i, j \in DOMAIN Tail(s) : i < j => Tail(s)[i] # Tail(s)[j]
      /\ \A i \in DOMAIN Tail(s) :
            /\ Tail(s)[i] # Head(s)
            /\ \E k \in DOMAIN s : Tail(s)[i] = s[k]
  BY <1>0, TailAhead
<1>3. /\ visits \subseteq visits'
      /\ \A q \in Ops, p \in Providers, t \in Times :
            <<q, p, t>> \in visits' /\ <<q, p, t>> \notin visits => q = o /\ p = Head(s)
      /\ \A p \in Providers, t \in Times : IsFiniteSet(Trippers(visits', p, t))
  <2>1. CASE visits' = visits
    BY <2>1 DEF PlansAhead
  <2>2. ASSUME NEW t \in Times, visits' = visits \cup {<<o, Head(s), t>>},
               <<o, Head(s), t>> \notin visits
        PROVE  /\ visits \subseteq visits'
               /\ \A q \in Ops, p \in Providers, v \in Times :
                     <<q, p, v>> \in visits' /\ <<q, p, v>> \notin visits => q = o /\ p = Head(s)
               /\ \A p \in Providers, v \in Times : IsFiniteSet(Trippers(visits', p, v))
    <3>1. \A p \in Providers, v \in Times : IsFiniteSet(Trippers(visits, p, v))
      BY DEF PlansAhead
    <3>2. \A p \in Providers, v \in Times : IsFiniteSet(Trippers(visits', p, v))
      BY <1>0, <2>2, <3>1, TrippersGrow
    <3>3. QED BY <2>2, <3>2
  <2>3. QED BY <2>1, <2>2 DEF s
<1>4. ASSUME NEW q \in Ops
      PROVE  /\ plan'[q] \in Seq(Providers)
             /\ pc'[q] = "visiting" => plan'[q] # <<>>
             /\ \A i, j \in DOMAIN plan'[q] : i < j => plan'[q][i] # plan'[q][j]
             /\ \A i \in DOMAIN plan'[q], t \in Times : <<q, plan'[q][i], t>> \notin visits'
             /\ pc'[q] = "idle" => \A p \in Providers, t \in Times : <<q, p, t>> \notin visits'
  <2>1. CASE q = o
    <3>1. \A i \in DOMAIN Tail(s) : Tail(s)[i] \in Providers
      BY <1>2
    <3>2. ASSUME NEW i \in DOMAIN Tail(s), NEW t \in Times
          PROVE  <<o, Tail(s)[i], t>> \notin visits'
      <4>1. PICK k \in DOMAIN s : Tail(s)[i] = s[k]
        BY <1>2
      <4>2. <<o, Tail(s)[i], t>> \notin visits
        BY <1>0, <4>1
      <4>3. Tail(s)[i] # Head(s) /\ Tail(s)[i] \in Providers
        BY <1>2, <3>1
      <4>4. QED BY <1>3, <4>2, <4>3
    <3>3. plan'[q] = Tail(s)
      BY <1>1, <2>1
    <3>4. pc'[q] # "idle" /\ (pc'[q] = "visiting" => Tail(s) # <<>>)
      BY <1>1, <1>2, <2>1
    <3>5. \A i \in DOMAIN Tail(s), t \in Times : <<q, Tail(s)[i], t>> \notin visits'
      BY <2>1, <3>2
    <3>6. Tail(s) \in Seq(Providers)
      BY <1>2
    <3>7. \A i, j \in DOMAIN Tail(s) : i < j => Tail(s)[i] # Tail(s)[j]
      BY <1>2
    <3> HIDE DEF s
    <3>8. QED BY <3>3, <3>4, <3>5, <3>6, <3>7
  <2>2. CASE q # o
    <3>1. plan'[q] = plan[q] /\ pc'[q] = pc[q]
      BY <1>1, <2>2
    <3>2. \A i \in DOMAIN plan[q] : plan[q][i] \in Providers
      BY DEF PlansAhead
    <3>3. \A p \in Providers, t \in Times : <<q, p, t>> \in visits' => <<q, p, t>> \in visits
      BY <1>3, <2>2
    <3>4. QED BY <3>1, <3>2, <3>3 DEF PlansAhead
  <2>3. QED BY <2>1, <2>2
<1>5. QED BY <1>3, <1>4 DEF PlansAhead, Trippers

\* A plan that is given up leaves the others as they are.
LEMMA EndAhead ==
    ASSUME Inv, PlansAhead, NEW o \in Ops, visits' = visits,
           pc' = [pc EXCEPT ![o] = "done"], plan' \in {plan, [plan EXCEPT ![o] = <<>>]}
    PROVE  PlansAhead'
<1>0. pc \in [Ops -> {"idle", "visiting", "done"}] /\ DOMAIN plan = Ops
  BY DEF Inv, RouterTypes
<1>1. ASSUME NEW q \in Ops
      PROVE  /\ plan'[q] \in Seq(Providers)
             /\ pc'[q] = "visiting" => plan'[q] # <<>>
             /\ \A i, j \in DOMAIN plan'[q] : i < j => plan'[q][i] # plan'[q][j]
             /\ \A i \in DOMAIN plan'[q], t \in Times : <<q, plan'[q][i], t>> \notin visits'
             /\ pc'[q] = "idle" => \A p \in Providers, t \in Times : <<q, p, t>> \notin visits'
  <2>1. CASE q = o
    <3>1. pc'[q] = "done" /\ (plan'[q] = plan[q] \/ plan'[q] = <<>>)
      BY <1>0, <2>1
    <3>2. CASE plan'[q] = plan[q]
      BY <3>1, <3>2 DEF PlansAhead
    <3>3. CASE plan'[q] = <<>>
      BY <3>1, <3>3
    <3>4. QED BY <3>1, <3>2, <3>3
  <2>2. CASE q # o
    <3>1. pc'[q] = pc[q] /\ plan'[q] = plan[q]
      BY <1>0, <2>2
    <3>2. QED BY <3>1 DEF PlansAhead
  <2>3. QED BY <2>1, <2>2
<1>2. QED BY <1>1 DEF PlansAhead, Trippers

\* A captured plan has nothing in it that was tripped.
LEMMA PlannedAhead ==
    ASSUME Inv, PlansAhead, NEW o \in Ops, NEW k \in DOMAIN config.pools,
           NEW allowed \in AllowedSets, PlanVisit(o, k, allowed)
    PROVE  PlansAhead'
<1>0. /\ pc \in [Ops -> {"idle", "visiting", "done"}] /\ DOMAIN plan = Ops
      /\ pc[o] = "idle" /\ visits' = visits
  BY DEF Inv, RouterTypes, PlanVisit
<1>1. /\ plan'[o] \in Seq(Providers)
      /\ \A i, j \in DOMAIN plan'[o] : i < j => plan'[o][i] # plan'[o][j]
      /\ pc'[o] = "visiting" => plan'[o] # <<>>
      /\ pc'[o] # "idle"
      /\ \A q \in Ops : q # o => plan'[q] = plan[q] /\ pc'[q] = pc[q]
  <2>1. plan'[o] \in Seq(Providers) /\ PlanStep(o)
    BY PlanVisitStep
  <2>2. QED BY <1>0, <2>1 DEF PlanStep, PlanVisit
<1>2. ASSUME NEW q \in Ops
      PROVE  /\ plan'[q] \in Seq(Providers)
             /\ pc'[q] = "visiting" => plan'[q] # <<>>
             /\ \A i, j \in DOMAIN plan'[q] : i < j => plan'[q][i] # plan'[q][j]
             /\ \A i \in DOMAIN plan'[q], t \in Times : <<q, plan'[q][i], t>> \notin visits'
             /\ pc'[q] = "idle" => \A p \in Providers, t \in Times : <<q, p, t>> \notin visits'
  <2>1. CASE q = o
    <3>1. \A p \in Providers, t \in Times : <<o, p, t>> \notin visits'
      BY <1>0 DEF PlansAhead
    <3>2. \A i \in DOMAIN plan'[o] : plan'[o][i] \in Providers
      BY <1>1
    <3>3. QED BY <1>1, <2>1, <3>1, <3>2
  <2>2. CASE q # o
    <3>1. pc'[q] = pc[q] /\ plan'[q] = plan[q]
      BY <1>1, <2>2
    <3>2. QED BY <1>0, <3>1 DEF PlansAhead
  <2>3. QED BY <2>1, <2>2
<1>3. QED BY <1>0, <1>2 DEF PlansAhead, Trippers

\* A write puts the records there, or leaves the file as it was.
LEMMA WritePenalty ==
    ASSUME NEW hs, NEW vs, NEW u, Attributed(hs, vs), Attributed(disk, vs),
           ~WritesMayFail => Complete(hs, vs, u), WriteHealth(hs)
    PROVE  Attributed(disk', vs) /\ (~WritesMayFail => Complete(disk', vs, u))
BY DEF WriteHealth

\* Every step keeps the invariant.
LEMMA NextPenalty == PenaltyInv /\ [Next]_vars => PenaltyInv'
<1> SUFFICES ASSUME PenaltyInv, [Next]_vars PROVE PenaltyInv'
  OBVIOUS
<1>i. Inv' /\ Inv
  BY NextInv DEF PenaltyInv
<1>0. /\ now \in Times /\ now \in Nat /\ config \in Configs
      /\ GoodMap(health, now) /\ GoodMap(disk, now)
      /\ config.policy \in HealthPolicy
      /\ PlansAhead
      /\ \A p \in Providers, t \in Times : IsFiniteSet(Trippers(visits, p, t))
      /\ Attributed(health, visits) /\ (~WritesMayFail => Complete(health, visits, now))
      /\ Attributed(disk, visits) /\ (~WritesMayFail => Complete(disk, visits, now))
  BY PolicyType, HealthAssumption DEF PenaltyInv, PlansAhead, Inv, RouterTypes, Times
<1>1. CASE Tick
  <2>1. now' = now + 1 /\ health' = health /\ disk' = disk /\ visits' = visits
        /\ pc' = pc /\ plan' = plan
    BY <1>1 DEF Tick, opVars
  <2>2. ASSUME NEW hs, Complete(hs, visits, now)
        PROVE  Complete(hs, visits, now + 1)
    BY <1>0, <2>2, FreshEarlier DEF Complete
  <2>3. PlansAhead'
    BY <1>0, <2>1 DEF PlansAhead, Trippers
  <2>4. QED BY <1>0, <1>i, <2>1, <2>2, <2>3 DEF PenaltyInv
<1>2. ASSUME NEW o \in Ops, OpNext(o)
      PROVE  PenaltyInv'
  <2>1. ASSUME NEW poolId \in DOMAIN config.pools, NEW allowed \in AllowedSets,
               PlanVisit(o, poolId, allowed)
        PROVE  PenaltyInv'
    <3>1. /\ health' = Reconcile(health, config.live, config.policy, now)
          /\ disk' = disk /\ visits' = visits /\ now' = now
      BY <2>1 DEF PlanVisit
    <3>2. /\ Attributed(health', visits)
          /\ ~WritesMayFail => Complete(health', visits, now)
      BY <1>0, <3>1, ReconcilePenalties
    <3>3. PlansAhead'
      BY <1>0, <1>i, <2>1, PlannedAhead
    <3>4. QED BY <1>0, <1>i, <3>1, <3>2, <3>3 DEF PenaltyInv
  <2>2. ASSUME NEW poolId \in DOMAIN config.pools, NEW allowed \in AllowedSets,
               PlanVisitUnbound(o, poolId, allowed)
        PROVE  PenaltyInv'
    <3>1. PlansAhead'
      BY <1>0, <1>i, <2>2, EndAhead DEF PlanVisitUnbound
    <3>2. QED BY <1>0, <1>i, <2>2, <3>1 DEF PlanVisitUnbound, PenaltyInv
  <2>3. ASSUME NEW p \in Providers, NEW ra \in RetryAfters, TripVisit(o, p, ra)
        PROVE  PenaltyInv'
    <3>1. /\ health' = WithRecord(health, p,
                          Trip(EntryOrDefault(health, p, now), now, o, config.policy, ra))
          /\ WriteHealth(health')
          /\ visits' = visits \cup {<<o, p, now>>}
          /\ now' = now
          /\ pc[o] = "visiting" /\ p = Head(plan[o]) /\ NextProvider(o)
      BY <2>3 DEF TripVisit, Visiting
    <3>2. \A t \in Times : <<o, p, t>> \notin visits
      <4>1. /\ plan[o] \in Seq(Providers) /\ plan[o] # <<>>
            /\ \A i \in DOMAIN plan[o], t \in Times : <<o, plan[o][i], t>> \notin visits
        BY <1>0, <3>1 DEF PlansAhead
      <4>2. 1 \in DOMAIN plan[o] /\ p = plan[o][1]
        BY <3>1, <4>1
      <4>3. QED BY <4>1, <4>2
    <3>3. /\ Attributed(health', visits')
          /\ ~WritesMayFail => Complete(health', visits', now)
      BY <1>0, <3>1, <3>2, TripPenalties
    <3>4. PlansAhead'
      BY <1>0, <1>i, <3>1, <3>2, NextAhead
    <3>5. ~WritesMayFail => disk' = health'
      BY <3>1 DEF WriteHealth
    <3>6. Attributed(disk', visits')
      <4>1. CASE disk' = health'
        BY <3>3, <4>1
      <4>2. CASE disk' = disk
        <5>1. /\ \A q \in Providers, v \in Times :
                    /\ Cardinality(Trippers(visits, q, v)) \in Nat
                    /\ Cardinality(Trippers(visits', q, v)) >= Cardinality(Trippers(visits, q, v))
          <6>1. ASSUME NEW q \in Providers, NEW v \in Times
                PROVE  /\ Cardinality(Trippers(visits, q, v)) \in Nat
                       /\ Cardinality(Trippers(visits', q, v))
                            >= Cardinality(Trippers(visits, q, v))
            <7>1. Trippers(visits, q, v) \in SUBSET Trippers(visits', q, v)
              BY <3>1 DEF Trippers
            <7>2. IsFiniteSet(Trippers(visits', q, v))
              BY <3>4 DEF PlansAhead
            <7>3. /\ Cardinality(Trippers(visits, q, v)) \in Nat
                  /\ Cardinality(Trippers(visits', q, v)) \in Nat
                  /\ Cardinality(Trippers(visits, q, v)) <= Cardinality(Trippers(visits', q, v))
              BY <1>0, <7>1, <7>2, FS_Subset, FS_CardinalityType
            <7>4. QED BY <7>3
          <6>2. QED BY <6>1
        <5>2. \A q \in DOMAIN disk : /\ q \in Providers
                                     /\ \A v \in Times : disk[q].failures[v] \in Nat
          BY <1>0 DEF GoodMap, IsHealthMap, HealthRecord
        <5>3. ASSUME NEW q \in DOMAIN disk
              PROVE  /\ disk[q].lastOp # NoOp =>
                           \E t \in Times : <<disk[q].lastOp, q, t>> \in visits'
                     /\ \A t \in Times :
                          /\ disk[q].failures[t] <= Cardinality(Trippers(visits', q, t))
                          /\ disk[q].failures[t] > 0 => t <= disk[q].seen
          <6>1. /\ disk[q].lastOp # NoOp => \E t \in Times : <<disk[q].lastOp, q, t>> \in visits
                /\ \A t \in Times :
                     /\ disk[q].failures[t] <= Cardinality(Trippers(visits, q, t))
                     /\ disk[q].failures[t] > 0 => t <= disk[q].seen
            BY <1>0 DEF Attributed
          <6>2. ASSUME NEW t \in Times
                PROVE  disk[q].failures[t] <= Cardinality(Trippers(visits', q, t))
            <7>1. /\ disk[q].failures[t] \in Nat
                  /\ Cardinality(Trippers(visits, q, t)) \in Nat
                  /\ Cardinality(Trippers(visits', q, t)) >= Cardinality(Trippers(visits, q, t))
                  /\ disk[q].failures[t] <= Cardinality(Trippers(visits, q, t))
              BY <5>1, <5>2, <6>1
            <7>2. Cardinality(Trippers(visits', q, t)) \in Nat
              <8>1. IsFiniteSet(Trippers(visits', q, t))
                BY <3>4, <5>2 DEF PlansAhead
              <8>2. QED BY <8>1, FS_CardinalityType
            <7>3. QED BY <7>1, <7>2
          <6>3. QED BY <3>1, <6>1, <6>2
        <5>4. QED BY <4>2, <5>3 DEF Attributed
      <4>3. QED BY <3>1, <4>1, <4>2 DEF WriteHealth
    <3>7. QED BY <1>i, <3>1, <3>3, <3>4, <3>5, <3>6 DEF PenaltyInv
  <2>4. ASSUME NEW p \in Providers, SucceedVisit(o, p)
        PROVE  PenaltyInv'
    <3>1. /\ health' = WithRecord(health, p, Recover(EntryOrDefault(health, p, now), now))
          /\ WriteHealth(health') /\ visits' = visits /\ now' = now
      BY <2>4 DEF SucceedVisit
    <3>2. /\ Attributed(health', visits)
          /\ ~WritesMayFail => Complete(health', visits, now)
      BY <1>0, <3>1, RecoverPenalties
    <3>3. /\ Attributed(disk', visits)
          /\ ~WritesMayFail => Complete(disk', visits, now)
      BY <1>0, <3>1, <3>2, WritePenalty
    <3>4. PlansAhead'
      BY <1>0, <1>i, <2>4, EndAhead DEF SucceedVisit
    <3>5. QED BY <1>i, <3>1, <3>2, <3>3, <3>4 DEF PenaltyInv
  <2>5. ASSUME NEW p \in Providers, SkipVisit(o, p)
        PROVE  PenaltyInv'
    <3>1. PlansAhead'
      BY <1>0, <1>i, <2>5, NextAhead DEF SkipVisit, Visiting
    <3>2. QED BY <1>0, <1>i, <2>5, <3>1 DEF SkipVisit, PenaltyInv
  <2>6. ASSUME NEW p \in Providers, EndVisit(o, p)
        PROVE  PenaltyInv'
    <3>1. PlansAhead'
      BY <1>0, <1>i, <2>6, EndAhead DEF EndVisit
    <3>2. QED BY <1>0, <1>i, <2>6, <3>1 DEF EndVisit, PenaltyInv
  <2>7. QED BY <1>2, <2>1, <2>2, <2>3, <2>4, <2>5, <2>6 DEF OpNext
<1>3. ASSUME NEW c \in Configs, UpdateConfig(c)
      PROVE  PenaltyInv'
  <2>1. /\ health' = Reconcile(health, c.live, c.policy, now)
        /\ WriteHealth(health') /\ visits' = visits /\ now' = now
        /\ pc' = pc /\ plan' = plan
    BY <1>3 DEF UpdateConfig, opVars
  <2>2. /\ Attributed(health', visits)
        /\ ~WritesMayFail => Complete(health', visits, now)
    BY <1>0, <2>1, ReconcilePenalties
  <2>3. /\ Attributed(disk', visits)
        /\ ~WritesMayFail => Complete(disk', visits, now)
    BY <1>0, <2>1, <2>2, WritePenalty
  <2>4. PlansAhead'
    BY <1>0, <2>1 DEF PlansAhead, Trippers
  <2>5. QED BY <1>i, <2>1, <2>2, <2>3, <2>4 DEF PenaltyInv
<1>4. ASSUME NEW c \in Configs, Reopen(c)
      PROVE  PenaltyInv'
  <2>1. /\ health' = Reconcile(disk, c.live, c.policy, now)
        /\ WriteHealth(health') /\ visits' = visits /\ now' = now
        /\ \A o \in Ops : /\ plan'[o] = <<>>
                          /\ pc'[o] # "visiting"
                          /\ pc'[o] = "idle" => pc[o] = "idle"
    BY <1>4 DEF Reopen
  <2>2. /\ Attributed(health', visits)
        /\ ~WritesMayFail => Complete(health', visits, now)
    BY <1>0, <2>1, ReconcilePenalties
  <2>3. /\ Attributed(disk', visits)
        /\ ~WritesMayFail => Complete(disk', visits, now)
    BY <1>0, <2>1, <2>2, WritePenalty
  <2>4. PlansAhead'
    <3>1. ASSUME NEW o \in Ops
          PROVE  /\ plan'[o] \in Seq(Providers)
                 /\ pc'[o] = "visiting" => plan'[o] # <<>>
                 /\ \A i, j \in DOMAIN plan'[o] : i < j => plan'[o][i] # plan'[o][j]
                 /\ \A i \in DOMAIN plan'[o], t \in Times : <<o, plan'[o][i], t>> \notin visits'
                 /\ pc'[o] = "idle" => \A p \in Providers, t \in Times : <<o, p, t>> \notin visits'
      <4>1. plan'[o] = <<>> /\ pc'[o] # "visiting" /\ (pc'[o] = "idle" => pc[o] = "idle")
        BY <2>1
      <4>2. pc[o] = "idle" => \A p \in Providers, t \in Times : <<o, p, t>> \notin visits
        BY <1>0 DEF PlansAhead
      <4>3. QED BY <2>1, <4>1, <4>2
    <3>2. \A p \in Providers, t \in Times : Trippers(visits', p, t) = Trippers(visits, p, t)
      BY <2>1 DEF Trippers
    <3>3. \A p \in Providers, t \in Times : IsFiniteSet(Trippers(visits', p, t))
      BY <1>0, <3>2
    <3>4. QED BY <3>1, <3>3 DEF PlansAhead, Trippers
  <2>5. QED BY <1>i, <2>1, <2>2, <2>3, <2>4 DEF PenaltyInv
<1>5. CASE UNCHANGED vars
  <2>1. UNCHANGED <<now, health, disk, visits, pc, plan>>
    BY <1>5 DEF vars
  <2>2. PlansAhead'
    BY <1>0, <2>1 DEF PlansAhead, Trippers
  <2>3. QED BY <1>0, <1>i, <2>1, <2>2 DEF PenaltyInv
<1>6. QED BY <1>1, <1>2, <1>3, <1>4, <1>5 DEF Next

\* A provider has a penalty for each visit that tripped it, and no more.
THEOREM PenaltiesSafe == Spec => []PenaltiesAreVisits
<1>1. PenaltyInv => PenaltiesAreVisits
  <2> SUFFICES ASSUME PenaltyInv, NEW p \in Providers, NEW t \in Times
               PROVE  /\ Recorded(health, p, t) <= Cardinality(Trippers(visits, p, t))
                      /\ ~WritesMayFail /\ Fresh(t, now) =>
                            Recorded(health, p, t) = Cardinality(Trippers(visits, p, t))
    BY DEF PenaltiesAreVisits, Recorded, Trippers, Fresh
  <2>1. Cardinality(Trippers(visits, p, t)) \in Nat
    BY FS_CardinalityType DEF PenaltyInv, PlansAhead
  <2>2. Recorded(health, p, t) <= Cardinality(Trippers(visits, p, t))
    BY <2>1 DEF Recorded, PenaltyInv, Attributed
  <2>3. ~WritesMayFail /\ Fresh(t, now) =>
           Recorded(health, p, t) = Cardinality(Trippers(visits, p, t))
    BY DEF PenaltyInv, Complete
  <2>4. QED BY <2>2, <2>3
<1>2. QED BY <1>1, InitPenalty, NextPenalty, PTL DEF Spec

-----------------------------------------------------------------------------
(* The refinement of CircuitBreaker, when writes of the file succeed and   *)
(* no config forgets an absent provider sooner than its suspension ends.   *)

ReliableWrites == ~WritesMayFail
LongRetention  == \A c \in Configs : c.policy.retention >= MaxSuspension

\* The suspensions a map of records stands for at time t.
Suspensions(hs, t) ==
    [p \in Providers |-> IF CoolingIn(hs, t, p) THEN hs[p].until ELSE 0]

-----------------------------------------------------------------------------
\* Reconciliation neither starts, ends nor moves a suspension: a record that
\* is cooling was seen too recently to be dropped.
LEMMA ReconcileSuspensions ==
    ASSUME NEW hs, NEW t \in Nat, GoodMap(hs, t), NEW live,
           NEW policy \in HealthPolicy, policy.retention >= MaxSuspension
    PROVE  Suspensions(Reconcile(hs, live, policy, t), t) = Suspensions(hs, t)
<1> DEFINE new == Reconcile(hs, live, policy, t)
<1>1. /\ DOMAIN new = Retained(hs, live, policy, t)
      /\ \A p \in DOMAIN new : /\ p \in DOMAIN hs
                                /\ hs[p] \in HealthRecord
                                /\ Stamp(hs, live, t, p) \in Nat
                                /\ new[p] = ReconcileRecord(hs[p], Stamp(hs, live, t, p), policy, t)
  BY ReconcileFacts DEF GoodMap
<1> HIDE DEF new
<1>2. \A p \in DOMAIN hs : hs[p].until \in Nat /\ hs[p].seen \in Nat /\ Bounded(hs[p], t)
  BY DEF GoodMap, IsHealthMap, HealthRecord
<1>3. ASSUME NEW rec \in HealthRecord, NEW stamp \in Nat
      PROVE  ReconcileRecord(rec, stamp, policy, t).until = IF rec.until <= t THEN 0 ELSE rec.until
  BY DEF ReconcileRecord, PruneFailures, HealthRecord
<1>4. ASSUME NEW p \in Providers
      PROVE  (IF CoolingIn(new, t, p) THEN new[p].until ELSE 0)
               = (IF CoolingIn(hs, t, p) THEN hs[p].until ELSE 0)
  <2>1. CASE p \in DOMAIN new
    BY <1>1, <1>2, <1>3, <2>1 DEF CoolingIn, IsCooling
  <2>2. CASE p \notin DOMAIN new
    <3>1. ~CoolingIn(new, t, p)
      BY <2>2 DEF CoolingIn
    <3>2. ~CoolingIn(hs, t, p)
      <4>1. SUFFICES ASSUME p \in DOMAIN hs, hs[p].until > t PROVE FALSE
        BY DEF CoolingIn, IsCooling
      <4>2. t - hs[p].seen >= policy.retention
        BY <1>1, <1>2, <2>2, <4>1 DEF Retained, HealthPolicy
      <4>3. hs[p].until <= hs[p].seen + MaxSuspension
        BY <1>2, <4>1 DEF Bounded
      <4>4. policy.retention \in Nat
        BY DEF HealthPolicy
      <4>5. QED BY <1>2, <4>1, <4>2, <4>3, <4>4, MaxSuspensionType
    <3>3. QED BY <3>1, <3>2
  <2>3. QED BY <2>1, <2>2
<1>5. QED BY <1>4 DEF Suspensions, new

\* A report on one provider changes the suspension of that provider alone.
LEMMA WithRecordSuspensions ==
    ASSUME NEW hs, IsHealthMap(hs), NEW p \in Providers, NEW rec \in HealthRecord, NEW t \in Nat
    PROVE  Suspensions(WithRecord(hs, p, rec), t) =
             [Suspensions(hs, t) EXCEPT ![p] = IF rec.until > t THEN rec.until ELSE 0]
<1> DEFINE new == WithRecord(hs, p, rec)
<1>1. /\ DOMAIN new = DOMAIN hs \cup {p}
      /\ new[p] = rec
      /\ \A q \in DOMAIN hs : q # p => new[q] = hs[q]
  BY WithRecordType
<1> HIDE DEF new
<1>2. ASSUME NEW q \in Providers, q # p
      PROVE  CoolingIn(new, t, q) = CoolingIn(hs, t, q) /\ (q \in DOMAIN hs => new[q] = hs[q])
  BY <1>1, <1>2 DEF CoolingIn
<1>3. ASSUME NEW q \in Providers
      PROVE  Suspensions(new, t)[q] = [Suspensions(hs, t) EXCEPT
                ![p] = IF rec.until > t THEN rec.until ELSE 0][q]
  <2>1. CASE q = p
    BY <1>1, <2>1 DEF Suspensions, CoolingIn, IsCooling
  <2>2. CASE q # p
    BY <1>2, <2>2 DEF Suspensions, CoolingIn
  <2>3. QED BY <2>1, <2>2
<1>4. QED BY <1>3 DEF Suspensions, new

-----------------------------------------------------------------------------
(* The invariant: the file is current and suspends what memory suspends.   *)

RefineInv ==
    /\ Inv
    /\ RestartLosesNothing
    /\ saved = TRUE

\* With reliable writes the file is always current.
LEMMA RefineInvariance == ASSUME ReliableWrites PROVE Spec => []RefineInv
<1>1. Init => saved = TRUE
  BY DEF Init
<1>2. saved = TRUE /\ [Next]_vars => (saved = TRUE)'
  BY DEF Next, OpNext, Tick, PlanVisit, PlanVisitUnbound, TripVisit, SucceedVisit, SkipVisit,
         EndVisit, UpdateConfig, Reopen, WriteHealth, ReliableWrites, vars
<1>3. Spec => [](saved = TRUE)
  BY <1>1, <1>2, PTL DEF Spec
<1>4. QED BY <1>3, Invariance, RestartSafe, PTL DEF RefineInv

\* The file suspends what memory suspends.
LEMMA DiskSuspensions ==
    ASSUME RefineInv, LongRetention
    PROVE  Suspensions(disk, now) = Suspensions(health, now)
<1>1. /\ now \in Nat /\ GoodMap(health, now) /\ GoodMap(disk, now)
      /\ config \in Configs /\ config.policy \in HealthPolicy
      /\ config.policy.retention >= MaxSuspension
  BY PolicyType, HealthAssumption DEF RefineInv, Inv, RouterTypes, Times, LongRetention
<1>2. Suspensions(disk, now)
        = Suspensions(Reconcile(disk, config.live, config.policy, now), now)
  BY <1>1, ReconcileSuspensions
<1>3. Suspensions(health, now)
        = Suspensions(Reconcile(health, config.live, config.policy, now), now)
  BY <1>1, ReconcileSuspensions
<1>4. Reconcile(disk, config.live, config.policy, now)
        = Reconcile(health, config.live, config.policy, now)
  BY DEF RefineInv, RestartLosesNothing
<1>5. QED BY <1>2, <1>3, <1>4

\* Every step is a step of the circuit breaker, or leaves it alone.
LEMMA StepRefines ==
    ASSUME ReliableWrites, LongRetention, RefineInv, [Next]_vars
    PROVE  [Breaker!Next]_<<now, Suspended, Busy>>
<1>0. /\ now \in Times /\ now \in Nat
      /\ GoodMap(health, now) /\ GoodMap(disk, now)
      /\ config \in Configs /\ config.policy \in HealthPolicy
      /\ config.policy.retention >= MaxSuspension
      /\ pc \in [Ops -> {"idle", "visiting", "done"}]
  BY PolicyType, HealthAssumption DEF RefineInv, Inv, RouterTypes, Times, LongRetention
<1>s. /\ Suspended = Suspensions(health, now)
      /\ Suspended' = Suspensions(health', now')
  BY DEF Suspended, Suspensions
<1>1. CASE Tick
  <2>1. now' = now + 1 /\ health' = health
    BY <1>1 DEF Tick
  <2>2. \A p \in DOMAIN health : health[p].until \in Nat
    BY <1>0 DEF GoodMap, IsHealthMap, HealthRecord
  <2>3. ASSUME NEW p \in Providers
        PROVE  (IF CoolingIn(health, now + 1, p) THEN health[p].until ELSE 0)
                 = IF Suspended[p] > now + 1 THEN Suspended[p] ELSE 0
    BY <1>0, <2>2 DEF Suspended, CoolingIn, IsCooling
  <2>4. Suspended' = [p \in Providers |-> IF Suspended[p] > now + 1 THEN Suspended[p] ELSE 0]
    BY <1>s, <2>1, <2>3 DEF Suspensions
  <2>5. Busy' = Busy
    BY <1>1 DEF Tick, opVars, Busy
  <2>6. Breaker!Tick
    BY <2>1, <2>4, <2>5 DEF Breaker!Tick
  <2>7. QED BY <2>6 DEF Breaker!Next
<1>2. ASSUME NEW o \in Ops, OpNext(o)
      PROVE  [Breaker!Next]_<<now, Suspended, Busy>>
  <2>1. ASSUME NEW poolId \in DOMAIN config.pools, NEW allowed \in AllowedSets,
               PlanVisit(o, poolId, allowed)
        PROVE  Breaker!Begin(o) \/ Breaker!End
    <3>1. UNCHANGED <<now, Suspended>>
      BY <1>0, <1>s, <2>1, ReconcileSuspensions DEF PlanVisit
    <3>2. pc[o] = "idle" /\ pc' \in {[pc EXCEPT ![o] = "done"], [pc EXCEPT ![o] = "visiting"]}
      BY <2>1 DEF PlanVisit
    <3>3. Busy' = Busy \cup {o} \/ Busy' \subseteq Busy
      BY <1>0, <3>2 DEF Busy
    <3>4. QED BY <3>1, <3>3 DEF Breaker!Begin, Breaker!End
  <2>2. ASSUME NEW poolId \in DOMAIN config.pools, NEW allowed \in AllowedSets,
               PlanVisitUnbound(o, poolId, allowed)
        PROVE  Breaker!End
    BY <1>0, <1>s, <2>2 DEF PlanVisitUnbound, Busy, Breaker!End
  <2>3. ASSUME NEW p \in Providers, NEW ra \in RetryAfters, TripVisit(o, p, ra)
        PROVE  [Breaker!Next]_<<now, Suspended, Busy>>
    <3> DEFINE rec == EntryOrDefault(health, p, now)
               new == Trip(rec, now, o, config.policy, ra)
    <3>1. rec \in HealthRecord
      BY <1>0, EntryType DEF GoodMap
    <3>2. \A q \in DOMAIN health : health[q].until \in Nat
      BY <1>0 DEF GoodMap, IsHealthMap, HealthRecord
    <3>3. Suspended[p] = IF rec.until > now THEN rec.until ELSE 0
      BY <1>0 DEF Suspended, CoolingIn, IsCooling, EntryOrDefault, FreshRecord
    <3> HIDE DEF rec
    <3>4. /\ new \in HealthRecord
          /\ new.seen = now
          /\ new.until = rec.until \/ new.until <= now + MaxSuspension
          /\ rec.lastOp # o => new.trips = rec.trips + 1 /\ new.lastOp = o
          /\ rec.lastOp = o => /\ new.trips = rec.trips
                               /\ new.lastOp = rec.lastOp
                               /\ new.until = rec.until
      BY <1>0, <3>1, TripRecord
    <3>5. new.until \in Nat
      BY <3>4 DEF HealthRecord
    <3>6. now' = now /\ health' = WithRecord(health, p, new)
      BY <2>3 DEF TripVisit, rec
    <3> HIDE DEF new
    <3>7. Suspended' = [Suspended EXCEPT ![p] = IF new.until > now THEN new.until ELSE 0]
      BY <1>0, <1>s, <3>4, <3>6, WithRecordSuspensions DEF GoodMap
    <3>b. o \in Busy /\ Busy' \in {Busy, Busy \ {o}}
      BY <1>0, <2>3 DEF TripVisit, Visiting, NextProvider, Busy
    <3>8. CASE new.until = rec.until
      <4>1. Suspended' = Suspended
        BY <3>3, <3>7, <3>8 DEF Suspended
      <4>2. Breaker!End
        BY <3>6, <3>b, <4>1 DEF Breaker!End
      <4>3. QED BY <4>2 DEF Breaker!Next
    <3>9. CASE new.until <= now
      <4>1. (IF new.until > now THEN new.until ELSE 0) = 0
        BY <1>0, <3>5, <3>9
      <4>2. Suspended' = [Suspended EXCEPT ![p] = 0]
        BY <3>7, <4>1
      <4>3. Breaker!Suspend(o, p, 0)
        BY <1>0, <3>6, <3>b, <4>2 DEF Breaker!Suspend
      <4>4. 0 \in 0 .. MaxSuspension
        BY MaxSuspensionType
      <4>5. QED BY <4>3, <4>4 DEF Breaker!Next
    <3>10. CASE new.until > now /\ new.until <= now + MaxSuspension
      <4> DEFINE wait == new.until - now
      <4>1. wait \in 0 .. MaxSuspension /\ wait > 0 /\ new.until = now + wait
        BY <1>0, <3>5, <3>10, MaxSuspensionType
      <4>2. Suspended' = [Suspended EXCEPT ![p] = now + wait]
        BY <3>7, <3>10, <4>1
      <4>3. Breaker!Suspend(o, p, wait)
        BY <3>6, <3>b, <4>1, <4>2 DEF Breaker!Suspend
      <4>4. QED BY <4>1, <4>3 DEF Breaker!Next
    <3>11. QED BY <1>0, <3>4, <3>5, <3>8, <3>9, <3>10
  <2>4. ASSUME NEW p \in Providers, SucceedVisit(o, p)
        PROVE  Breaker!Restore(o, p)
    <3> DEFINE new == Recover(EntryOrDefault(health, p, now), now)
    <3>1. /\ EntryOrDefault(health, p, now) \in HealthRecord
          /\ now' = now /\ health' = WithRecord(health, p, new)
      BY <1>0, <2>4, EntryType DEF SucceedVisit, GoodMap
    <3>2. /\ new \in HealthRecord
          /\ new.seen = now
          /\ new.until = 0
          /\ new.trips = 0
          /\ new.lastOp = NoOp
      BY <1>0, <3>1, RecoverRecord
    <3> HIDE DEF new
    <3>3. Suspended' = [Suspended EXCEPT ![p] = IF new.until > now THEN new.until ELSE 0]
      BY <1>0, <1>s, <3>1, <3>2, WithRecordSuspensions DEF GoodMap
    <3>4. o \in Busy /\ Busy' = Busy \ {o}
      BY <1>0, <2>4 DEF SucceedVisit, Visiting, Busy
    <3>5. QED BY <1>0, <3>1, <3>2, <3>3, <3>4 DEF Breaker!Restore
  <2>5. ASSUME NEW p \in Providers, SkipVisit(o, p) \/ EndVisit(o, p)
        PROVE  Breaker!End
    <3>1. UNCHANGED <<now, Suspended>>
      BY <1>s, <2>5 DEF SkipVisit, EndVisit
    <3>2. Busy' \subseteq Busy
      BY <1>0, <2>5 DEF SkipVisit, EndVisit, NextProvider, Visiting, Busy
    <3>3. QED BY <3>1, <3>2 DEF Breaker!End
  <2>6. QED BY <1>2, <2>1, <2>2, <2>3, <2>4, <2>5 DEF OpNext, Breaker!Next
<1>3. ASSUME NEW c \in Configs, UpdateConfig(c)
      PROVE  Breaker!End
  <2>1. UNCHANGED <<now, Suspended>>
    BY <1>0, <1>s, <1>3, PolicyType, ReconcileSuspensions DEF UpdateConfig, LongRetention
  <2>2. Busy' = Busy
    BY <1>3 DEF UpdateConfig, opVars, Busy
  <2>3. QED BY <2>1, <2>2 DEF Breaker!End
<1>4. ASSUME NEW c \in Configs, Reopen(c)
      PROVE  Breaker!End
  <2>1. Suspensions(health', now) = Suspensions(disk, now)
    BY <1>0, <1>4, PolicyType, ReconcileSuspensions DEF Reopen, LongRetention
  <2>2. now' = now
    BY <1>4 DEF Reopen
  <2>3. Busy' \subseteq Busy
    BY <1>4 DEF Reopen, Busy
  <2>4. QED BY <1>s, <2>1, <2>2, <2>3, DiskSuspensions DEF Breaker!End
<1>5. CASE UNCHANGED vars
  BY <1>5 DEF vars, Suspended, CoolingIn, IsCooling, Busy
<1>6. QED BY <1>1, <1>2, <1>3, <1>4, <1>5 DEF Next, Breaker!Next

\* A router on a reliable disk that keeps absent providers long enough is a
\* circuit breaker: only an operation under way suspends or restores a provider,
\* or the passing of time, and restarts, config replacements, reconciliation
\* and the planning of other operations leave no trace.
THEOREM RouterIsBreaker ==
    ASSUME ReliableWrites, LongRetention PROVE Spec => BreakerSpec
<1>1. Init => Breaker!Init
  BY DEF Init, Breaker!Init, Suspended, CoolingIn, Busy
<1>2. RefineInv /\ [Next]_vars => [Breaker!Next]_<<now, Suspended, Busy>>
  BY StepRefines
<1>3. QED BY <1>1, <1>2, RefineInvariance, PTL DEF Spec, BreakerSpec, Breaker!Spec, Breaker!vars

=============================================================================
