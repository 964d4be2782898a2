----------------------------- MODULE VisitLoop -----------------------------
(***************************************************************************)
(* What one LLM operation does to the health of the providers it was       *)
(* planned to visit, whatever its retries, streams and deadlines: it goes  *)
(* through the plan in order, reports each visit at most once, trips a     *)
(* provider only when the plan has more than one, and restores at most    *)
(* the one that answered.  This is the operation the router's model        *)
(* (LlmRouter) runs many of.                                               *)
(***************************************************************************)
EXTENDS Integers, Sequences

VARIABLES size,      \* length of the captured plan
          pos,       \* position of the current visit, size + 1 when over
          tripped,   \* positions reported as tripped, in order
          restored   \* position reported as successful, 0 for none

Init == size \in Nat \ {0} /\ pos = 1 /\ tripped = <<>> /\ restored = 0

Over == pos > size

Stop == ~Over /\ pos' = size + 1 /\ UNCHANGED <<size, tripped, restored>>

Skip == ~Over /\ size > 1 /\ pos' = pos + 1 /\ UNCHANGED <<size, tripped, restored>>

Trip ==
    /\ ~Over
    /\ size > 1
    /\ tripped' = Append(tripped, pos)
    /\ pos' \in {pos + 1, size + 1}
    /\ UNCHANGED <<size, restored>>

Succeed ==
    /\ ~Over
    /\ restored' = pos
    /\ pos' = size + 1
    /\ UNCHANGED <<size, tripped>>

Next == Stop \/ Skip \/ Trip \/ Succeed

Spec == Init /\ [][Next]_<<size, pos, tripped, restored>>

=============================================================================
