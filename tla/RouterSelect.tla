---------------------------- MODULE RouterSelect ----------------------------
(***************************************************************************)
(* The visit order of a pool (llm/router/select.rs): which members a       *)
(* request may be sent to now, and in which order.                         *)
(*                                                                         *)
(* A pool is [members, failFast]; members maps a provider id to            *)
(* [group, score, order, enabled, tier].  Provider ids and routing groups  *)
(* are naturals: their order stands for the string order that breaks the   *)
(* last ties.                                                              *)
(***************************************************************************)
EXTENDS RouterHealth, Sequences, FiniteSets

FSE == INSTANCE FiniteSetsExt

Member == [group : Nat, score : Int, order : Nat, enabled : BOOLEAN, tier : Nat]

IsPool(pool) ==
    /\ DOMAIN pool = {"members", "failFast"}
    /\ pool.failFast \in BOOLEAN
    /\ DOMAIN pool.members \subseteq Providers
    /\ \A p \in DOMAIN pool.members : pool.members[p] \in Member

LexLess(j, k) ==
    \E i \in DOMAIN j : /\ j[i] < k[i]
                        /\ \A h \in 1 .. i - 1 : j[h] = k[h]

\* The elements of S from the least to the greatest key (keys are distinct:
\* each ends in the provider id).
Below(S, key, x) == {y \in S : LexLess(key[y], key[x])}
RankBy(S, key) ==
    [i \in 1 .. Cardinality(S) |-> CHOOSE x \in S : Cardinality(Below(S, key, x)) = i - 1]

\* ScoredMember.score: a provider without a record has its base score.
ScoreOf(pool, hs, policy, now, p) ==
    LET base == pool.members[p].score
    IN IF p \in DOMAIN hs THEN EffectiveScore(hs[p], base, now, policy.window) ELSE base

CoolingIn(hs, now, p) == p \in DOMAIN hs /\ IsCooling(hs[p], now)

EnabledMembers(pool) == {p \in DOMAIN pool.members : pool.members[p].enabled}

EligibleMembers(pool, hs, policy, now) ==
    {p \in EnabledMembers(pool) :
        ScoreOf(pool, hs, policy, now, p) > 0 /\ ~CoolingIn(hs, now, p)}

\* Groups by their best score, then their lowest declared order, then name.
GroupScore(pool, hs, policy, now, S, p) ==
    FSE!Max({ScoreOf(pool, hs, policy, now, q) :
                q \in {r \in S : /\ pool.members[r].group = pool.members[p].group
                                 /\ pool.members[r].tier = pool.members[p].tier}})
GroupOrder(pool, S, p) ==
    FSE!Min({pool.members[q].order :
                q \in {r \in S : /\ pool.members[r].group = pool.members[p].group
                                 /\ pool.members[r].tier = pool.members[p].tier}})

\* Faulty variant: the tier is left out of the ranking.
RankIgnoringTier(pool, hs, policy, now, S) ==
    RankBy(S, [p \in S |->
        <<-GroupScore(pool, hs, policy, now, S, p), GroupOrder(pool, S, p),
          pool.members[p].group, -ScoreOf(pool, hs, policy, now, p),
          pool.members[p].order, p>>])

\* Eligible members: by tier, then group by group, then within the group.
RankEligible(pool, hs, policy, now, S) ==
    RankBy(S, [p \in S |->
        <<pool.members[p].tier,
          -GroupScore(pool, hs, policy, now, S, p), GroupOrder(pool, S, p),
          pool.members[p].group, -ScoreOf(pool, hs, policy, now, p),
          pool.members[p].order, p>>])

\* When a suppressed member may be visited again.
Expiry(hs, now, p) == IF p \in DOMAIN hs /\ hs[p].until # 0 THEN hs[p].until ELSE now

\* Suppressed members: by tier, then whose cooldown ends first, then score.
RankProbeEarliest(pool, hs, policy, now, S) ==
    RankBy(S, [p \in S |->
        <<pool.members[p].tier, Expiry(hs, now, p),
          -ScoreOf(pool, hs, policy, now, p), pool.members[p].order, p>>])

\* A plan is a sequence of provider ids; the fail-fast error is the empty one.
SelectVisitOrder(pool, hs, policy, now) ==
    LET eligible == EligibleMembers(pool, hs, policy, now)
        rest     == EnabledMembers(pool) \ eligible
    IN RankEligible(pool, hs, policy, now, eligible)
         \o (IF pool.failFast THEN <<>>
             ELSE RankProbeEarliest(pool, hs, policy, now, rest))

=============================================================================
