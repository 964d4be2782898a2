----------------------------- MODULE LlmRouter -----------------------------
(***************************************************************************)
(* The shared LLM router (llm/router/mod.rs): routing config, provider     *)
(* health behind one lock, its snapshot on disk, and the operations of the *)
(* clients that visit providers along a captured plan and report back.     *)
(*                                                                         *)
(* Every router call holds the lock throughout, so each is one action.     *)
(* Operations interleave between calls; a process may die between any two  *)
(* and reopen the router from the file.  A write of the file may fail, and *)
(* its error is only logged; a crash between the temporary file and the    *)
(* rename leaves the old file, which is the same outcome.                  *)
(***************************************************************************)
EXTENDS RouterSelect

CONSTANTS Configs,        \* routing configs the host may install
          RetryAfters,    \* Retry-After hints a failure may carry, 0 for none
          MaxRetryAfter,  \* RETRY_AFTER_CAP: no hint is longer
          AllowedSets,    \* provider sets a client may be bound to
          WritesMayFail,  \* BOOLEAN: the snapshot write may fail
          MaxGeneration   \* bound on the number of config replacements

\* LlmRoutingConfig::validate: no pool is empty or names an unknown provider.
ValidConfig(c) ==
    /\ c.live \subseteq Providers
    /\ IsFiniteSet(c.live)
    /\ c.policy \in HealthPolicy
    /\ \A pool \in DOMAIN c.pools :
          /\ IsPool(c.pools[pool])
          /\ DOMAIN c.pools[pool].members \subseteq c.live
          /\ DOMAIN c.pools[pool].members # {}

ASSUME RouterAssumption ==
    /\ \A c \in Configs : ValidConfig(c)
    /\ Configs # {}
    /\ MaxRetryAfter \in Nat
    /\ RetryAfters \subseteq 0 .. MaxRetryAfter
    /\ WritesMayFail \in BOOLEAN
    /\ MaxGeneration \in Nat

VARIABLES now,         \* Utc::now()
          config,      \* RouterInner.config
          generation,  \* RouterInner.generation
          health,      \* RouterInner.health
          disk,        \* the records in health-v1.json
          saved,       \* the last write of the file succeeded
          pc,          \* per operation: "idle", "visiting", "done"
          plan,        \* providers still to visit, the current one first
          chain,       \* VisitPlan.chain_mode of the captured plan
          visits       \* history: the reported trips, <<op, provider, time>>

vars == <<now, config, generation, health, disk, saved, pc, plan, chain, visits>>
opVars == <<pc, plan, chain>>

-----------------------------------------------------------------------------
\* write_health: the file holds the new records, or stays as it was.
WriteHealth(hs) ==
    \/ disk' = hs /\ saved' = TRUE
    \/ WritesMayFail /\ disk' = disk /\ saved' = FALSE

\* LlmRouter::open on a root without a snapshot.
Init ==
    /\ now = 0
    /\ config \in Configs
    /\ generation = 0
    /\ health = [p \in {} |-> FreshRecord(0)]
    /\ disk = health
    /\ saved = TRUE
    /\ pc = [o \in Ops |-> "idle"]
    /\ plan = [o \in Ops |-> <<>>]
    /\ chain = [o \in Ops |-> FALSE]
    /\ visits = {}

Tick ==
    /\ now < MaxTime
    /\ now' = now + 1
    /\ UNCHANGED <<config, generation, health, disk, saved, opVars, visits>>

\* plan_visit_filtered_at with at least one bound member: reconcile, then rank.
\* Nothing is written.  An empty plan (fail-fast, or no enabled member) ends
\* the operation with an error.
PlanVisit(o, poolId, allowed) ==
    LET pool    == config.pools[poolId]
        bound   == DOMAIN pool.members \cap allowed
        usable  == [pool EXCEPT !.members = [p \in bound |-> pool.members[p]]]
        hs      == Reconcile(health, config.live, config.policy, now)
        order   == SelectVisitOrder(usable, hs, config.policy, now)
    IN /\ pc[o] = "idle"
       /\ bound # {}
       /\ health' = hs
       /\ plan' = [plan EXCEPT ![o] = order]
       /\ chain' = [chain EXCEPT ![o] = Len(order) > 1]
       /\ pc' = [pc EXCEPT ![o] = IF order = <<>> THEN "done" ELSE "visiting"]
       /\ UNCHANGED <<now, config, generation, disk, saved, visits>>

\* No bound member: PoolExhausted before anything is reconciled.
PlanVisitUnbound(o, poolId, allowed) ==
    /\ pc[o] = "idle"
    /\ DOMAIN config.pools[poolId].members \cap allowed = {}
    /\ pc' = [pc EXCEPT ![o] = "done"]
    /\ UNCHANGED <<now, config, generation, health, disk, saved, plan, chain, visits>>

Visiting(o, p) == pc[o] = "visiting" /\ p = Head(plan[o])

\* On to the next provider of the plan, or out of providers.
NextProvider(o) ==
    /\ plan' = [plan EXCEPT ![o] = Tail(@)]
    /\ pc' = [pc EXCEPT ![o] = IF Len(plan[o]) = 1 THEN "done" ELSE @]
    /\ chain' = chain

\* The visit failed over in chain mode: record_trip, then the next provider.
TripVisit(o, p, retryAfter) ==
    /\ Visiting(o, p)
    /\ chain[o]
    /\ health' = WithRecord(health, p,
                    Trip(EntryOrDefault(health, p, now), now, o, config.policy, retryAfter))
    /\ WriteHealth(health')
    /\ visits' = visits \cup {<<o, p, now>>}
    /\ NextProvider(o)
    /\ UNCHANGED <<now, config, generation>>

\* Faulty variant: a success is not written to disk.
SucceedUnwritten(o, p) ==
    /\ Visiting(o, p)
    /\ health' = WithRecord(health, p, Recover(EntryOrDefault(health, p, now), now))
    /\ disk' = disk /\ saved' = saved
    /\ pc' = [pc EXCEPT ![o] = "done"]
    /\ plan' = [plan EXCEPT ![o] = <<>>]
    /\ UNCHANGED <<now, config, generation, chain, visits>>

\* record_success: the operation is over.
SucceedVisit(o, p) ==
    /\ Visiting(o, p)
    /\ health' = WithRecord(health, p, Recover(EntryOrDefault(health, p, now), now))
    /\ WriteHealth(health')
    /\ pc' = [pc EXCEPT ![o] = "done"]
    /\ plan' = [plan EXCEPT ![o] = <<>>]
    /\ UNCHANGED <<now, config, generation, chain, visits>>

\* The provider is passed over without a visit (its tier or origin was given
\* up), or its request could not be built: no health is touched.
SkipVisit(o, p) ==
    /\ Visiting(o, p)
    /\ chain[o]
    /\ NextProvider(o)
    /\ UNCHANGED <<now, config, generation, health, disk, saved, visits>>

\* Veto, cancellation, or a failure of a single-provider plan: no health is
\* touched and the operation is over.
EndVisit(o, p) ==
    /\ Visiting(o, p)
    /\ pc' = [pc EXCEPT ![o] = "done"]
    /\ plan' = [plan EXCEPT ![o] = <<>>]
    /\ UNCHANGED <<now, config, generation, health, disk, saved, chain, visits>>

\* update_config: reconcile under the new config, which operations in flight
\* do not see.
UpdateConfig(c) ==
    /\ generation < MaxGeneration
    /\ health' = Reconcile(health, c.live, c.policy, now)
    /\ generation' = generation + 1
    /\ config' = c
    /\ WriteHealth(health')
    /\ UNCHANGED <<now, opVars, visits>>

\* The process dies with its operations, and LlmRouter::open loads the file,
\* reconciles it with the config the host installs, and flushes it.
Reopen(c) ==
    /\ health' = Reconcile(disk, c.live, c.policy, now)
    /\ WriteHealth(health')
    /\ config' = c
    /\ generation' = 0
    /\ pc' = [o \in Ops |-> IF pc[o] = "idle" THEN "idle" ELSE "done"]
    /\ plan' = [o \in Ops |-> <<>>]
    /\ chain' = [o \in Ops |-> FALSE]
    /\ UNCHANGED <<now, visits>>

OpNext(o) ==
    \/ \E poolId \in DOMAIN config.pools, allowed \in AllowedSets :
          PlanVisit(o, poolId, allowed) \/ PlanVisitUnbound(o, poolId, allowed)
    \/ \E p \in Providers :
          \/ \E ra \in RetryAfters : TripVisit(o, p, ra)
          \/ SucceedVisit(o, p)
          \/ SkipVisit(o, p)
          \/ EndVisit(o, p)

Next ==
    \/ Tick
    \/ \E o \in Ops : OpNext(o)
    \/ \E c \in Configs : UpdateConfig(c) \/ Reopen(c)

Spec == Init /\ [][Next]_vars

-----------------------------------------------------------------------------
\* Types of the router's state.
TypeOK ==
    /\ now \in Times
    /\ config \in Configs
    /\ generation \in 0 .. MaxGeneration
    /\ IsHealthMap(health)
    /\ IsHealthMap(disk)
    /\ saved \in BOOLEAN
    /\ pc \in [Ops -> {"idle", "visiting", "done"}]
    /\ chain \in [Ops -> BOOLEAN]
    /\ DOMAIN plan = Ops

\* A record is escalated exactly when it names the operation that last tripped
\* it, and only an escalated record has a cooldown.  Trips of one operation and
\* successes of another interleave on the same record; were the last-trip id to
\* survive a recovery, the next failure of that operation would go unpunished.
EscalationConsistent ==
    \A hs \in {health, disk} : \A p \in DOMAIN hs :
        /\ hs[p].trips > 0 <=> hs[p].lastOp # NoOp
        /\ hs[p].until # 0 => hs[p].trips > 0

\* The longest suspension one trip can cause.
MaxSuspension == Max2(HardCap, MaxRetryAfter)

\* However many operations trip a provider, it is never suspended for longer
\* than the hard cap or the longest Retry-After, counted from the time it was
\* last seen: cooldowns of concurrent trips replace each other, never add up.
CooldownBounded ==
    \A hs \in {health, disk} : \A p \in DOMAIN hs :
        /\ hs[p].seen <= now
        /\ hs[p].until <= hs[p].seen + MaxSuspension

\* What a restart would load from disk is what the router in memory would
\* itself hold after its next reconciliation: as long as the last write went
\* through, a crash at any point loses no failure, escalation or cooldown,
\* although plan_visit reconciles in memory without writing.
RestartLosesNothing ==
    saved => Reconcile(disk, config.live, config.policy, now)
                 = Reconcile(health, config.live, config.policy, now)

\* "A provider trip is reported once per logical visit": the penalties a record
\* carries in the window are the visits that tripped it then, one each, over
\* any interleaving of operations, config replacements and restarts (with a
\* reliable disk; a failed write can only lose penalties).
PenaltiesAreVisits ==
    \A p \in Providers, t \in Times :
        LET tripped  == Cardinality({o \in Ops : <<o, p, t>> \in visits})
            recorded == IF p \in DOMAIN health THEN health[p].failures[t] ELSE 0
        IN /\ recorded <= tripped
           /\ (~WritesMayFail /\ \A c \in Configs : InWindow(t, now, c.policy.window)
                    /\ now - t < c.policy.retention) => recorded = tripped

\* A captured plan visits enabled members of one pool, each at most once,
\* no suppressed provider before an eligible one, no fallback tier before a
\* lower one among the eligible, and a fail-fast pool no suppressed one at all.
PlanPrefersEligible ==
    [][\A o \in Ops : pc[o] = "idle" /\ pc'[o] = "visiting" =>
          \E k \in DOMAIN config.pools :
              LET pool     == config.pools[k]
                  eligible == EligibleMembers(pool, health', config.policy, now)
                  order    == plan'[o]
              IN /\ \A i \in DOMAIN order : order[i] \in EnabledMembers(pool)
                 /\ \A i, j \in DOMAIN order : i < j =>
                       /\ order[i] # order[j]
                       /\ order[j] \in eligible =>
                             /\ order[i] \in eligible
                             /\ pool.members[order[i]].tier <= pool.members[order[j]].tier
                 /\ pool.failFast => \A i \in DOMAIN order : order[i] \in eligible
      ]_vars

\* The suspensions the router enforces now.
Suspended == [p \in Providers |-> IF CoolingIn(health, now, p) THEN health[p].until ELSE 0]

\* The operations under way.
Busy == {o \in Ops : pc[o] = "visiting"}

Breaker == INSTANCE CircuitBreaker WITH suspended <- Suspended, busy <- Busy

\* With a disk whose writes succeed and a retention longer than any cooldown,
\* the router is a circuit breaker on which restarts, config replacements,
\* reconciliation and the planning of other operations leave no trace.
BreakerSpec == Breaker!Spec

=============================================================================
