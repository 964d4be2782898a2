---------------------------- MODULE RouterHealth ----------------------------
(***************************************************************************)
(* Provider health records of the LLM router: scoring, trips, recovery and *)
(* reconciliation (llm/router/health.rs, llm/failover.rs).                 *)
(*                                                                         *)
(* Time is a natural number of abstract seconds.  A record keeps what the  *)
(* router decides on:                                                      *)
(*   failures  recent_failures, as the number of entries stamped t         *)
(*   trips     consecutive_trips                                           *)
(*   until     cooldown_until, 0 for None (a deadline is never 0)          *)
(*   lastOp    last_trip_operation_id, NoOp for None                       *)
(*   seen      last_seen_in_config                                         *)
(* last_success_at and last_failure_class are written but never read by a  *)
(* decision, and are left out.                                             *)
(***************************************************************************)
EXTENDS Integers

CONSTANTS Providers,      \* provider ids, naturals so that they are ordered
          Ops,            \* operation ids
          NoOp,           \* "no operation has tripped this record"
          MaxTime,        \* bound on the clock
          HardCap         \* MAX_PROVIDER_COOLDOWN_SECS

ASSUME HealthAssumption ==
    /\ Providers \subseteq Nat
    /\ NoOp \notin Ops
    /\ MaxTime \in Nat
    /\ HardCap \in Nat \ {0}

Fun == INSTANCE Functions

Times == 0 .. MaxTime

Min2(a, b) == IF a <= b THEN a ELSE b
Max2(a, b) == IF a >= b THEN a ELSE b

\* RouterHealthConfig: penalty window, cooldown base and cap, and how long the
\* record of a provider absent from the config is kept.
HealthPolicy == [window : Nat \ {0}, base : Nat, cap : Nat, retention : Nat \ {0}]

HealthRecord ==
    [failures : [Times -> Nat],
     trips    : Nat,
     until    : Nat,
     lastOp   : Ops \cup {NoOp},
     seen     : Nat]

\* hs is a HashMap<provider_id, ProviderHealthRecord>.
IsHealthMap(hs) ==
    /\ DOMAIN hs \subseteq Providers
    /\ hs = [p \in DOMAIN hs |-> hs[p]]
    /\ \A p \in DOMAIN hs : hs[p] \in HealthRecord

\* ProviderHealthRecord::default(), stamped as `entry().or_default()` leaves it
\* for the callers, which set last_seen_in_config at once.
FreshRecord(now) ==
    [failures |-> [t \in Times |-> 0], trips |-> 0, until |-> 0,
     lastOp |-> NoOp, seen |-> now]

IsCooling(rec, now) == rec.until > now

\* Entries newer than the penalty window; an entry exactly one window old is out.
InWindow(t, now, window) == t > now - window

EffectiveScore(rec, base, now, window) ==
    base - Fun!SumFunctionOnSet(rec.failures, {t \in Times : InWindow(t, now, window)})

PruneFailures(rec, now, window) ==
    [rec EXCEPT
        !.failures = [t \in Times |-> IF InWindow(t, now, window) THEN @[t] ELSE 0],
        !.until    = IF @ <= now THEN 0 ELSE @]

\* 1u64 << min(trips - 1, 10), by trips.
Doubling == <<1, 2, 4, 8, 16, 32, 64, 128, 256, 512, 1024>>

CooldownDuration(policy, trips) ==
    Min2(Min2(policy.base * Doubling[Max2(1, Min2(trips, 11))], HardCap),
         Max2(policy.cap, 1))

\* ---- faulty variants of the record operations: mistakes the properties find

\* `recover` forgets last_trip_operation_id.
RecoverKeepsLastOp(rec, now) ==
    [rec EXCEPT !.trips = 0, !.until = 0, !.seen = now]

\* A trip adds its wait to the cooldown that is still running.
TripAccumulates(rec, now, op, policy, retryAfter) ==
    LET wait == Max2(retryAfter, CooldownDuration(policy, rec.trips + 1))
    IN [rec EXCEPT !.failures[now] = @ + 1, !.trips = @ + 1, !.lastOp = op,
                   !.until = Max2(@, now) + wait, !.seen = now]

\* A trip is not checked against the last operation that tripped the record,
\* and penalises every attempt of the visit (two of them).
TripPerAttempt(rec, now, op, policy, retryAfter) ==
    [rec EXCEPT !.failures[now] = @ + 2, !.trips = @ + 1, !.lastOp = op,
                !.until = now + Max2(retryAfter, CooldownDuration(policy, rec.trips + 1)),
                !.seen = now]

\* ---- the operations

\* record_trip_at on an existing record: one penalty and one escalation per
\* visit, unless this operation was also the last to trip the record.
Trip(rec, now, op, policy, retryAfter) ==
    IF rec.lastOp = op
    THEN [rec EXCEPT !.seen = now]
    ELSE [rec EXCEPT
            !.failures[now] = @ + 1,
            !.trips  = @ + 1,
            !.lastOp = op,
            !.until  = now + Max2(retryAfter, CooldownDuration(policy, rec.trips + 1)),
            !.seen   = now]

\* record_success_at: clears the escalation, leaves the failures to age out.
Recover(rec, now) ==
    [rec EXCEPT !.trips = 0, !.until = 0, !.lastOp = NoOp, !.seen = now]

\* health.entry(id).or_default()
EntryOrDefault(hs, p, now) == IF p \in DOMAIN hs THEN hs[p] ELSE FreshRecord(now)

WithRecord(hs, p, rec) == [q \in DOMAIN hs \cup {p} |-> IF q = p THEN rec ELSE hs[q]]

\* Providers whose record survives reconciliation: the live ones, and absent
\* ones seen less than the retention ago.
Retained(hs, live, policy, now) ==
    {p \in DOMAIN hs : p \in live \/ now - hs[p].seen < policy.retention}

\* last_seen_in_config after reconciliation: now for a live provider.
Stamp(hs, live, now, p) == IF p \in live THEN now ELSE hs[p].seen

ReconcileRecord(rec, stamp, policy, now) ==
    [PruneFailures(rec, now, policy.window) EXCEPT !.seen = stamp]

\* Faulty variant: absent providers are dropped at once, whatever the retention.
ReconcileDropsAbsent(hs, live, policy, now) ==
    [p \in DOMAIN hs \cap live |-> ReconcileRecord(hs[p], now, policy, now)]

\* reconcile_health: prune every record, stamp the live ones, drop the stale.
Reconcile(hs, live, policy, now) ==
    [p \in Retained(hs, live, policy, now) |->
        ReconcileRecord(hs[p], Stamp(hs, live, now, p), policy, now)]

=============================================================================
