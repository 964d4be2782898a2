---------------------------- MODULE MCLlmRouter ----------------------------
(***************************************************************************)
(* Instances of LlmRouter for TLC: two cloud providers (1, 2) and a local  *)
(* fallback (3), a main and a fail-fast utility pool.                      *)
(***************************************************************************)
EXTENDS LlmRouter

Policy == [window |-> 2, base |-> 1, cap |-> 3, retention |-> 3]

Cloud(group, score, order) ==
    [group |-> group, score |-> score, order |-> order, enabled |-> TRUE, tier |-> 0]
Local == [group |-> 3, score |-> 2, order |-> 0, enabled |-> TRUE, tier |-> 1]

MainPool    == [members |-> [p \in {1, 2} |-> Cloud(p, p, 0)], failFast |-> FALSE]
HybridPool  == [members |-> [p \in {1, 3} |-> IF p = 3 THEN Local ELSE Cloud(1, 2, 0)],
                failFast |-> FALSE]
UtilityPool == [members |-> [p \in {1} |-> Cloud(1, 1, 1)], failFast |-> TRUE]

\* Both clouds, a main and a fail-fast pool over the first; then the second
\* cloud is gone, and the main pool falls back to the local model.
BothClouds == [live |-> {1, 2}, policy |-> Policy,
               pools |-> [k \in {"main", "utility"} |->
                            IF k = "main" THEN MainPool ELSE UtilityPool]]
Hybrid     == [live |-> {1, 3}, policy |-> Policy,
               pools |-> [k \in {"main"} |-> HybridPool]]

MCConfigs     == {BothClouds, Hybrid}
MCProviders   == {1, 2, 3}
MCAllowedSets == {{1, 2, 3}, {1, 2}, {2}}

=============================================================================
